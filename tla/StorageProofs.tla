---------------------------- MODULE StorageProofs ----------------------------
(***************************************************************************)
(* Proofs about the kernel heap, the address spaces and the file system.   *)
(*                                                                         *)
(* The heap: the nodes always tile it, the free list is always what        *)
(* __kmalloc and __kfree take it for, and the impossible condition of      *)
(* __kfree's panic is impossible, whatever the size of a page, the bounds  *)
(* of the heap and the sizes that are asked for.  And the heap implements  *)
(* the promise of an allocator.                                            *)
(*                                                                         *)
(* The address spaces: every frame has one owner, whatever the size of     *)
(* memory and of a table, the programs and the number of processes.  The   *)
(* owner of a frame is a ghost of the proof: no run has it as a variable.  *)
(*                                                                         *)
(* The file system: two files never get the same block, and the bitmap and *)
(* its two counts agree with the inodes, for the requests that the code    *)
(* serves and the images that SparedImage describes.                       *)
(***************************************************************************)
EXTENDS Heap, Memory, Ext2, SequenceLemmas, FiniteSetTheorems, TLAPS

-----------------------------------------------------------------------------
(* The kernel heap.                                                        *)

\* What a call that is in one of the loops has found so far.  A search stands
\* on a free node, and when it looks for the place of a freed node, it has
\* passed only nodes below that one.
Cursor ==
  /\ phase \in {"idle", "insert"} => asked = -1
  /\ phase = "find" =>
       /\ current_node \in FreeList
       /\ asked \in Requests
       /\ arg >= NODE_SIZE + HEADER_SIZE
       /\ arg - HEADER_SIZE >= asked
  /\ phase = "insert" =>
       /\ arg \in Nodes \ used
       /\ arg > start_node
       /\ current_node \in FreeList
       /\ \A b \in FreeList : b < current_node => b < arg

\* The inductive invariant.
Inv == TypeOK /\ Tiled /\ FreeListSound /\ Cursor /\ NeverFellOff

(* The addresses are positive numbers.                                     *)
LEMMA AddrFacts ==
  /\ HEAP_START_LOCATION \in Nat \ {0} /\ PAGE_SIZE \in Nat \ {0}
  /\ HEAP_MAX_LOCATION \in Nat /\ INITIAL_SIZE \in Nat /\ INITIAL_SIZE >= NODE_SIZE
  /\ LIMIT \in Nat /\ HEAP_START_LOCATION + INITIAL_SIZE <= LIMIT
  /\ \A a : a \in Addrs <=> a \in Nat /\ HEAP_START_LOCATION <= a /\ a < LIMIT
  /\ HEAP_START_LOCATION \in Addrs /\ NULL \notin Addrs
  /\ Requests \subseteq Nat
BY HeapAssumptions DEF HeapAssumption, LIMIT, Addrs, NULL, NODE_SIZE

LEMMA InitInv == Init => Inv
<1> SUFFICES ASSUME Init PROVE Inv
  OBVIOUS
<1> DEFINE s == HEAP_START_LOCATION
<1>1. TypeOK
  BY AddrFacts DEF Init, TypeOK
<1>2. Nodes = {s} /\ FreeList = {s} /\ size[s] = INITIAL_SIZE
      /\ Freeing = {} /\ used = {}
  BY AddrFacts DEF Init, Nodes, FreeList, Freeing, NODE_SIZE
<1>3. Tiled
  BY <1>2, AddrFacts DEF Init, Tiled
<1>4. FreeListSound
  BY <1>2, AddrFacts DEF Init, FreeListSound, NODE_SIZE
<1>5. Cursor /\ NeverFellOff
  BY DEF Init, Cursor, NeverFellOff
<1> QED BY <1>1, <1>3, <1>4, <1>5 DEF Inv

(* What the free list looks like, said node by node.                       *)
LEMMA FreeListFacts ==
  ASSUME Inv
  PROVE  /\ Nodes \subseteq Addrs /\ FreeList \subseteq Nodes
         /\ \A a \in Nodes : a \in Nat /\ size[a] \in Nat /\ size[a] >= NODE_SIZE
         /\ start_node \in FreeList /\ end_address \in Nat /\ end_address <= LIMIT
         /\ \A a \in FreeList : prev[a] = NULL <=> a = start_node
         /\ \A a \in FreeList : next[a] # NULL => a + size[a] < next[a]
         /\ \A a \in FreeList : next[a] = NULL => \A b \in Nodes : b <= a
<1> USE DEF Inv
<1>1. Nodes \subseteq Addrs /\ FreeList \subseteq Nodes
  BY DEF Nodes, FreeList
<1>2. \A a \in Nodes : a \in Nat /\ size[a] \in Nat /\ size[a] >= NODE_SIZE
  BY <1>1, AddrFacts DEF TypeOK, Tiled
<1>3. start_node \in FreeList /\ end_address \in Nat /\ end_address <= LIMIT
  BY AddrFacts DEF TypeOK, FreeListSound
<1>4. ASSUME NEW a \in FreeList, prev[a] # NULL
      PROVE  a # start_node
  <2>1. prev[a] \in FreeList /\ next[prev[a]] = a /\ a # NULL
    BY <1>1, <1>4, AddrFacts DEF FreeListSound
  <2>2. prev[a] < a
    BY <2>1 DEF FreeListSound, Follows
  <2> QED BY <1>1, <1>2, <2>1, <2>2 DEF FreeListSound
<1>5. \A a \in FreeList : prev[a] = NULL <=> a = start_node
  BY <1>4 DEF FreeListSound
<1>6. ASSUME NEW a \in FreeList, next[a] # NULL
      PROVE  a + size[a] < next[a]
  <2>1. next[a] \in FreeList /\ a < next[a]
    BY <1>6 DEF FreeListSound, Follows
  <2>2. a + size[a] <= next[a]
    BY <1>1, <2>1 DEF Tiled
  <2>3. a + size[a] # next[a]
    BY <2>1 DEF FreeListSound
  <2> QED BY <1>1, <1>2, <2>1, <2>2, <2>3
<1>7. ASSUME NEW a \in FreeList, next[a] = NULL, NEW b \in Nodes
      PROVE  b <= a
  <2>1. a + size[a] = end_address /\ b + size[b] <= end_address
    BY <1>7 DEF FreeListSound, Tiled
  <2>2. a < b => a + size[a] <= b
    BY <1>1 DEF Tiled
  <2> QED BY <1>1, <1>2, <2>1, <2>2 DEF NODE_SIZE
<1> QED BY <1>1, <1>2, <1>3, <1>5, <1>6, <1>7

-----------------------------------------------------------------------------
(* The steps that leave the nodes where they are.                          *)

(* The pages that are mapped behind the last node make up for what it is   *)
(* short of.                                                               *)
LEMMA NewWordsFacts ==
  ASSUME Inv, phase = "find", TooSmall
  PROVE  /\ NewWords \in Nat /\ NewWords >= PAGE_SIZE
         /\ size[current_node] + NewWords > arg + NODE_SIZE
<1> DEFINE d == arg - size[current_node] + NODE_SIZE
           q == d \div PAGE_SIZE
<1>1. d \in Nat \ {0} /\ arg \in Nat /\ size[current_node] \in Nat
  BY FreeListFacts DEF Inv, TypeOK, Cursor, TooSmall, NODE_SIZE
<1>2. q \in Nat /\ d = q * PAGE_SIZE + (d % PAGE_SIZE)
      /\ d % PAGE_SIZE \in 0 .. (PAGE_SIZE - 1)
  <2> HIDE DEF d
  <2> QED BY <1>1, AddrFacts, Z3
<1>3. (q + 1) * PAGE_SIZE = q * PAGE_SIZE + PAGE_SIZE /\ q * PAGE_SIZE \in Nat
  <2> HIDE DEF q
  <2> QED BY <1>2, AddrFacts
<1>4. NewWords = q * PAGE_SIZE + PAGE_SIZE
  BY <1>3 DEF NewWords
<1>5. NewWords > d /\ NewWords >= PAGE_SIZE /\ NewWords \in Nat
  <2> HIDE DEF d, q
  <2> QED BY <1>1, <1>2, <1>3, <1>4, AddrFacts
<1> QED BY <1>1, <1>5 DEF NODE_SIZE

LEMMA MallocInv == ASSUME Inv, NEW n \in Requests, Malloc(n) PROVE Inv'
<1> USE DEF Malloc, list
<1>1. n \in Nat
  BY AddrFacts
<1>2. TypeOK'
  BY <1>1 DEF Inv, TypeOK, Needed, NODE_SIZE, HEADER_SIZE
<1>3. Nodes' = Nodes /\ FreeList' = FreeList /\ Freeing' = Freeing
  BY DEF Nodes, FreeList, Freeing
<1>4. Tiled' /\ FreeListSound'
  BY <1>3 DEF Inv, Tiled, FreeListSound, Follows
<1>5. Cursor' /\ NeverFellOff'
  BY <1>1, <1>3, FreeListFacts
  DEF Cursor, NeverFellOff, Needed, NODE_SIZE, HEADER_SIZE
<1> QED BY <1>2, <1>4, <1>5 DEF Inv

LEMMA FindNextInv == ASSUME Inv, FindNext PROVE Inv'
<1> USE DEF FindNext, list
<1>1. current_node \in FreeList
  BY DEF Inv, Cursor
<1>2. next[current_node] \in FreeList
  BY <1>1 DEF Inv, FreeListSound
<1>3. TypeOK'
  BY <1>2, FreeListFacts DEF Inv, TypeOK
<1>4. Nodes' = Nodes /\ FreeList' = FreeList /\ Freeing' = Freeing
  BY DEF Nodes, FreeList, Freeing
<1>5. Tiled' /\ FreeListSound'
  BY <1>4 DEF Inv, Tiled, FreeListSound, Follows
<1>6. Cursor' /\ NeverFellOff'
  BY <1>2, <1>4 DEF Inv, Cursor, NeverFellOff
<1> QED BY <1>3, <1>5, <1>6 DEF Inv

LEMMA FreeInv == ASSUME Inv, NEW b \in used, Free(b) PROVE Inv'
<1> USE DEF Free, list
<1>1. b \in Nodes /\ b \notin FreeList /\ Freeing = {} /\ b \in Nat
  BY AddrFacts DEF Inv, TypeOK, Tiled, FreeList, Freeing
<1>2. TypeOK'
  BY <1>1, FreeListFacts DEF Inv, TypeOK
<1>3. Nodes' = Nodes /\ FreeList' = FreeList /\ Freeing' = {b}
      /\ used' \cup Freeing' = used \cup Freeing
  BY <1>1 DEF Nodes, FreeList, Freeing
<1>4. Tiled' /\ FreeListSound'
  BY <1>3 DEF Inv, Tiled, FreeListSound, Follows
<1>5. start_node < b
  <2>1. start_node \in FreeList /\ start_node \in Nat
    BY FreeListFacts
  <2> QED BY <1>1, <2>1
<1>6. Cursor'
  <2>1. \A x \in FreeList : start_node <= x
    BY DEF Inv, FreeListSound
  <2>2. ~ \E x \in FreeList : x < start_node
    BY <2>1, FreeListFacts
  <2>3. asked = -1 /\ start_node \in FreeList
    BY FreeListFacts DEF Inv, Cursor
  <2> QED BY <1>1, <1>3, <1>5, <2>2, <2>3 DEF Cursor
<1>7. NeverFellOff'
  BY DEF NeverFellOff
<1> QED BY <1>2, <1>4, <1>6, <1>7 DEF Inv

(* The cursor does not reach the end of the list: the last free node ends  *)
(* where the heap ends, so it is above every other node.                   *)
LEMMA InsertNextStays ==
  ASSUME Inv, phase = "insert", current_node < arg
  PROVE  next[current_node] \in FreeList
<1>1. current_node \in FreeList /\ arg \in Nodes
  BY DEF Inv, Cursor
<1>2. next[current_node] # NULL
  BY <1>1, FreeListFacts
<1> QED BY <1>1, <1>2 DEF Inv, FreeListSound

LEMMA InsertNextInv == ASSUME Inv, InsertNext PROVE Inv'
<1> USE DEF InsertNext, list
<1>1. current_node \in FreeList /\ next[current_node] \in FreeList
      /\ phase' = phase
  BY InsertNextStays, FreeListFacts, AddrFacts DEF Inv, Cursor
<1>2. TypeOK'
  BY <1>1, FreeListFacts DEF Inv, TypeOK
<1>3. Nodes' = Nodes /\ FreeList' = FreeList /\ Freeing' = Freeing
  BY <1>1 DEF Nodes, FreeList, Freeing
<1>4. Tiled' /\ FreeListSound'
  BY <1>3 DEF Inv, Tiled, FreeListSound, Follows
<1>5. ASSUME NEW b \in FreeList, b < next[current_node]
      PROVE  b < arg
  <2>1. b <= current_node
    BY <1>1, <1>5, FreeListFacts, AddrFacts DEF Inv, FreeListSound, Follows
  <2> QED BY <1>1, <2>1, FreeListFacts DEF Inv, TypeOK
<1>6. Cursor' /\ NeverFellOff'
  BY <1>1, <1>3, <1>5 DEF Inv, Cursor, NeverFellOff
<1> QED BY <1>2, <1>4, <1>6 DEF Inv

LEMMA GrowInv == ASSUME Inv, Grow PROVE Inv'
<1> DEFINE c == current_node
<1>1. c \in FreeList /\ c \in Nodes /\ c \in Addrs /\ phase = "find"
      /\ next[c] = NULL /\ c + size[c] = end_address /\ c \notin used
  BY FreeListFacts DEF Inv, Cursor, Grow, FreeListSound, FreeList
<1>2. CASE phase' = "full" /\ UNCHANGED <<size, end_address>>
  <2>1. Nodes' = Nodes /\ FreeList' = FreeList /\ Freeing' = Freeing
    BY <1>1, <1>2 DEF Grow, Nodes, FreeList, Freeing
  <2>2. TypeOK'
    BY <1>2 DEF Grow, Inv, TypeOK
  <2>3. Tiled' /\ FreeListSound'
    BY <1>2, <2>1 DEF Grow, Inv, Tiled, FreeListSound, Follows
  <2> QED BY <1>2, <2>2, <2>3 DEF Inv, Cursor, NeverFellOff
<1>3. CASE /\ end_address + NewWords - PAGE_SIZE <= HEAP_MAX_LOCATION
           /\ end_address' = end_address + NewWords
           /\ size' = [size EXCEPT ![c] = @ + NewWords]
           /\ UNCHANGED phase
  <2>1. NewWords \in Nat /\ NewWords >= PAGE_SIZE
    BY <1>1, NewWordsFacts DEF Grow
  <2>2. /\ size'[c] = size[c] + NewWords
        /\ \A a \in Addrs : a # c => size'[a] = size[a]
        /\ UNCHANGED <<next, prev, start_node, current_node, arg, asked, used>>
    BY <1>1, <1>3 DEF Grow, Inv, TypeOK
  <2>3. Nodes' = Nodes /\ FreeList' = FreeList /\ Freeing' = Freeing /\ Freeing = {}
    BY <1>1, <1>3, <2>1, <2>2, FreeListFacts DEF Nodes, FreeList, Freeing, NODE_SIZE
  <2>4. TypeOK'
    <3>1. size' \in [Addrs -> Nat]
      BY <1>1, <1>3, <2>1 DEF Inv, TypeOK
    <3>2. end_address' \in HEAP_START_LOCATION .. LIMIT
      BY <1>3, <2>1, AddrFacts DEF Inv, TypeOK, LIMIT
    <3> QED BY <1>3, <2>2, <3>1, <3>2 DEF Inv, TypeOK
  <2>5. \A a \in Nodes : a # c => a + size[a] <= c /\ a < c
    BY <1>1, FreeListFacts DEF Inv, Tiled
  <2>6. Tiled'
    <3>1. \A a \in Nodes : a # c => a + size'[a] = a + size[a] /\ a + size[a] <= c
      BY <2>2, <2>5, FreeListFacts
    <3>2. c + size'[c] = end_address' /\ c < end_address /\ end_address <= end_address'
      BY <1>1, <1>3, <2>1, <2>2, FreeListFacts DEF NODE_SIZE
    <3>3. \A a \in Nodes : a + size'[a] \in Nodes \cup {end_address'}
      BY <1>1, <3>1, <3>2, FreeListFacts DEF Inv, Tiled
    <3>4. ASSUME NEW a \in Nodes, NEW b \in Nodes, a < b
          PROVE  a + size'[a] <= b
      <4>1. a # c
        BY <1>1, <2>5, <3>4, FreeListFacts
      <4>2. a + size[a] <= b
        BY <3>4 DEF Inv, Tiled
      <4> QED BY <3>1, <4>1, <4>2
    <3>5. ASSUME NEW a \in Nodes
          PROVE  a + size'[a] <= end_address'
      <4>1. c \in Nat /\ end_address \in Nat /\ end_address' \in Nat
        BY <1>1, <1>3, <2>1, FreeListFacts
      <4>2. CASE a = c
        BY <3>2, <4>1, <4>2
      <4>3. CASE a # c
        BY <3>1, <3>2, <4>1, <4>3, FreeListFacts
      <4> QED BY <4>2, <4>3
    <3>6. \A a \in Nodes : size'[a] >= NODE_SIZE
      BY <1>1, <2>1, <2>2, FreeListFacts DEF NODE_SIZE
    <3> QED BY <2>2, <2>3, <3>3, <3>4, <3>5, <3>6 DEF Inv, Tiled
  <2>7. FreeListSound'
    <3>1. ASSUME NEW a \in FreeList
          PROVE  a + size'[a] \notin FreeList /\ (next[a] = NULL => a + size'[a] = end_address')
      <4>1. CASE a = c
        <5>1. a + size'[a] > c /\ a + size'[a] = end_address'
          BY <1>1, <1>3, <2>1, <2>2, <4>1, FreeListFacts DEF NODE_SIZE
        <5>2. \A b \in FreeList : b <= c
          BY <1>1, <2>5, FreeListFacts
        <5>3. c \in Nat /\ a + size'[a] \in Nat
          BY <1>1, <2>1, <2>2, <4>1, FreeListFacts
        <5> QED BY <5>1, <5>2, <5>3
      <4>2. CASE a # c
        BY <1>1, <2>2, <4>2, <2>5, FreeListFacts DEF Inv, FreeListSound
      <4> QED BY <4>1, <4>2
    <3> QED BY <2>2, <2>3, <3>1 DEF Inv, FreeListSound, Follows
  <2>8. Cursor' /\ NeverFellOff'
    BY <1>1, <1>3, <2>2, <2>3 DEF Inv, Cursor, NeverFellOff
  <2> QED BY <2>4, <2>6, <2>7, <2>8 DEF Inv
<1> QED BY <1>2, <1>3 DEF Grow

-----------------------------------------------------------------------------
(* __kmalloc cuts a free node.                                             *)

(* The node is cut where no node begins, and every other node lies wholly  *)
(* below it or wholly above it.                                            *)
LEMMA CutFacts ==
  ASSUME Inv, Carve
  PROVE  LET c == current_node
             rest == c + arg
         IN  /\ c \in FreeList /\ c \in Nodes /\ c \in Addrs /\ c \in Nat
             /\ c \notin used /\ Freeing = {} /\ phase = "find"
             /\ arg \in Nat /\ arg >= NODE_SIZE + HEADER_SIZE
             /\ size[c] >= arg + NODE_SIZE
             /\ rest \in Addrs /\ rest \in Nat /\ rest \notin Nodes /\ c < rest
             /\ c + size[c] <= end_address
             /\ \A a \in Nodes : a # c =>
                  \/ a < c /\ a + size[a] <= c
                  \/ a > rest /\ a >= c + size[c]
<1> DEFINE c == current_node
           rest == c + arg
<1>1. /\ c \in FreeList /\ phase = "find"
      /\ arg \in Nat /\ arg >= NODE_SIZE + HEADER_SIZE
  BY DEF Inv, Cursor, Carve, TypeOK
<1>2. c \in Nodes /\ c \in Addrs /\ c \notin used /\ Freeing = {} /\ c \in Nat
  BY <1>1, FreeListFacts DEF FreeList, Freeing
<1>3. size[c] \in Nat /\ size[c] >= arg + NODE_SIZE
  BY <1>1, <1>2, FreeListFacts DEF Carve, TooSmall, Splits, NODE_SIZE
<1>4. c + size[c] <= end_address /\ end_address \in Nat /\ end_address <= LIMIT
  BY <1>2, FreeListFacts DEF Inv, Tiled
<1>5. c < rest /\ rest < c + size[c] /\ rest \in Nat
  BY <1>1, <1>2, <1>3 DEF NODE_SIZE, HEADER_SIZE
<1>6. rest \in Addrs
  BY <1>2, <1>3, <1>4, <1>5, AddrFacts
<1>7. rest \notin Nodes
  BY <1>2, <1>3, <1>5 DEF Inv, Tiled
<1>8. ASSUME NEW a \in Nodes, a # c
      PROVE  \/ a < c /\ a + size[a] <= c
             \/ a > rest /\ a >= c + size[c]
  <2>1. a \in Nat
    BY FreeListFacts
  <2>2. CASE a < c
    BY <1>2, <2>2 DEF Inv, Tiled
  <2>3. CASE c < a
    <3>1. c + size[c] <= a
      BY <1>2, <2>3 DEF Inv, Tiled
    <3> QED BY <1>3, <1>5, <1>2, <2>1, <3>1
  <2> QED BY <1>2, <1>8, <2>1, <2>2, <2>3
<1> QED BY <1>1, <1>2, <1>3, <1>4, <1>5, <1>6, <1>7, <1>8

(* What the step changes, field by field.                                  *)
LEMMA CarveFacts ==
  ASSUME Inv, Carve
  PROVE  LET c == current_node
             rest == c + arg
         IN  /\ size'[c] = arg /\ size'[rest] = size[c] - arg
             /\ \A a \in Addrs : a # c /\ a # rest => size'[a] = size[a]
             /\ next'[rest] = next[c]
             /\ c # start_node => next'[prev[c]] = rest
             /\ \A a \in Addrs : a # c /\ a # rest /\ a # prev[c] => next'[a] = next[a]
             /\ prev'[rest] = prev[c]
             /\ next[c] # NULL => prev'[next[c]] = rest
             /\ \A a \in Addrs : a # c /\ a # rest /\ a # next[c] => prev'[a] = prev[a]
             /\ start_node' = IF c = start_node THEN rest ELSE start_node
             /\ used' = used \cup {c} /\ phase' = "idle" /\ asked' = -1
             /\ end_address' = end_address
             /\ Nodes' = Nodes \cup {rest} /\ Freeing' = {}
             /\ FreeList' = (FreeList \ {c}) \cup {rest}
<1> DEFINE c == current_node
           rest == c + arg
<1>1. /\ size \in [Addrs -> Nat]
      /\ next \in [Addrs -> Addrs \cup {NULL}]
      /\ prev \in [Addrs -> Addrs \cup {NULL}]
  BY DEF Inv, TypeOK
<1>2. /\ c \in FreeList /\ c \in Nodes /\ c \in Addrs /\ rest \in Addrs /\ c # rest
      /\ rest \notin Nodes /\ c \in Nat /\ arg \in Nat /\ arg > 0 /\ Freeing = {}
      /\ size[c] >= arg + NODE_SIZE /\ c \notin used
  BY CutFacts DEF NODE_SIZE, HEADER_SIZE
<1>3. /\ size'[c] = arg /\ size'[rest] = size[c] - arg
      /\ \A a \in Addrs : a # c /\ a # rest => size'[a] = size[a]
  BY <1>1, <1>2 DEF Carve
<1>4. ASSUME c # start_node
      PROVE  prev[c] \in FreeList /\ prev[c] # c /\ prev[c] # rest /\ prev[c] \in Addrs
  <2>1. prev[c] # NULL
    BY <1>2, <1>4, FreeListFacts
  <2>2. prev[c] \in FreeList /\ next[prev[c]] = c /\ c # NULL
    BY <1>2, <2>1, AddrFacts DEF Inv, FreeListSound
  <2>3. prev[c] < c
    BY <2>2 DEF Inv, FreeListSound, Follows
  <2>4. prev[c] \in Nodes /\ prev[c] \in Addrs /\ prev[c] \in Nat
    BY <2>2, FreeListFacts
  <2> QED BY <1>2, <2>2, <2>3, <2>4
<1>5. c = start_node => prev[c] \notin Addrs
  BY <1>2, FreeListFacts, AddrFacts
<1>6. /\ next'[rest] = next[c]
      /\ c # start_node => next'[prev[c]] = rest
      /\ \A a \in Addrs : a # c /\ a # rest /\ a # prev[c] => next'[a] = next[a]
  <2>1. CASE c = start_node
    BY <1>1, <1>2, <1>5, <2>1 DEF Carve, Relink
  <2>2. CASE c # start_node
    <3>1. next' = [next EXCEPT ![rest] = next[c], ![prev[c]] = rest, ![c] = NULL]
      BY <2>2 DEF Carve, Relink
    <3> HIDE DEF c, rest
    <3> QED BY <1>1, <1>2, <1>4, <2>2, <3>1
  <2> QED BY <2>1, <2>2
<1>7. next[c] # NULL => next[c] \in FreeList /\ next[c] # c /\ next[c] # rest /\ next[c] \in Addrs
  <2> SUFFICES ASSUME next[c] # NULL
               PROVE  next[c] \in FreeList /\ next[c] # c /\ next[c] # rest
                      /\ next[c] \in Addrs
    OBVIOUS
  <2>1. next[c] \in FreeList /\ c < next[c]
    BY <1>2 DEF Inv, FreeListSound, Follows
  <2>2. next[c] \in Nodes /\ next[c] \in Addrs /\ next[c] \in Nat
    BY <2>1, FreeListFacts
  <2> QED BY <1>2, <2>1, <2>2
<1>8. /\ prev'[rest] = prev[c]
      /\ next[c] # NULL => prev'[next[c]] = rest
      /\ \A a \in Addrs : a # c /\ a # rest /\ a # next[c] => prev'[a] = prev[a]
  BY <1>1, <1>2, <1>7, AddrFacts DEF Carve, Put
<1>9. /\ used' = used \cup {c} /\ phase' = "idle" /\ asked' = -1
      /\ start_node' = IF c = start_node THEN rest ELSE start_node
      /\ end_address' = end_address
  BY DEF Carve
<1>10. Nodes' = Nodes \cup {rest}
  <2>1. size[c] \in Nat /\ size[c] - arg # 0 /\ arg # 0 /\ size[c] # 0
    BY <1>1, <1>2 DEF NODE_SIZE
  <2> QED BY <1>2, <1>3, <2>1 DEF Nodes
<1>11. Freeing' = {}
  BY <1>9 DEF Freeing
<1>12. rest \notin used
  BY <1>2 DEF Inv, Tiled
<1>13. FreeList' = (FreeList \ {c}) \cup {rest}
  BY <1>2, <1>9, <1>10, <1>11, <1>12 DEF FreeList
<1> HIDE DEF c, rest
<1> QED BY <1>3, <1>6, <1>8, <1>9, <1>10, <1>11, <1>13 DEF c, rest

LEMMA CarveInv == ASSUME Inv, Carve PROVE Inv'
<1> DEFINE c == current_node
           rest == c + arg
<1>1. /\ c \in FreeList /\ c \in Nodes /\ c \in Nat /\ c \in Addrs
      /\ c \notin used /\ Freeing = {}
      /\ arg \in Nat /\ arg >= NODE_SIZE + HEADER_SIZE
      /\ size[c] >= arg + NODE_SIZE /\ size[c] \in Nat
      /\ rest \in Addrs /\ rest \in Nat /\ rest \notin Nodes /\ c < rest
      /\ rest = c + arg
  BY CutFacts, FreeListFacts
<1>2. ASSUME NEW a \in Nodes, a # c
      PROVE  \/ a < c /\ a + size[a] <= c
             \/ a > rest /\ a >= c + size[c]
  BY <1>2, CutFacts
<1>3. /\ size'[c] = arg /\ size'[rest] = size[c] - arg
      /\ \A a \in Addrs : a # c /\ a # rest => size'[a] = size[a]
  BY CarveFacts
<1>4. /\ next'[rest] = next[c]
      /\ c # start_node => next'[prev[c]] = rest
      /\ \A a \in Addrs : a # c /\ a # rest /\ a # prev[c] => next'[a] = next[a]
  BY CarveFacts
<1>5. /\ prev'[rest] = prev[c]
      /\ next[c] # NULL => prev'[next[c]] = rest
      /\ \A a \in Addrs : a # c /\ a # rest /\ a # next[c] => prev'[a] = prev[a]
  BY CarveFacts
<1>6. /\ start_node' = IF c = start_node THEN rest ELSE start_node
      /\ used' = used \cup {c} /\ phase' = "idle" /\ asked' = -1
      /\ end_address' = end_address
  BY CarveFacts
<1>7. /\ Nodes' = Nodes \cup {rest} /\ Freeing' = {}
      /\ FreeList' = (FreeList \ {c}) \cup {rest}
  BY CarveFacts
<1>8. /\ Nodes \subseteq Addrs /\ FreeList \subseteq Nodes
      /\ \A a \in Nodes : a \in Nat /\ size[a] \in Nat
  BY FreeListFacts
<1> HIDE DEF c, rest
<1>9. TypeOK'
  <2>1. size' \in [Addrs -> Nat]
    <3>1. size' = [size EXCEPT ![rest] = size[c] - arg, ![c] = arg]
      BY DEF c, rest, Carve
    <3>2. size[c] - arg \in Nat
      BY <1>1 DEF NODE_SIZE
    <3> QED BY <1>1, <3>1, <3>2 DEF Inv, TypeOK
  <2>2. next' \in [Addrs -> Addrs \cup {NULL}]
    BY <1>1 DEF c, rest, Inv, TypeOK, Carve, Relink
  <2>3. prev' \in [Addrs -> Addrs \cup {NULL}]
    BY <1>1 DEF c, rest, Inv, TypeOK, Carve, Put
  <2>4. start_node' \in Addrs
    BY <1>1, <1>6 DEF Inv, TypeOK
  <2>5. used' \subseteq Addrs
    BY <1>1, <1>6 DEF Inv, TypeOK
  <2>6. phase' = "idle" /\ current_node' = NULL /\ arg' = 0 /\ asked' = -1
        /\ UNCHANGED end_address
    BY DEF Carve
  <2> QED BY <2>1, <2>2, <2>3, <2>4, <2>5, <2>6 DEF Inv, TypeOK
<1>10. Tiled'
  <2>1. \A a \in Nodes : a # c => size'[a] = size[a]
    BY <1>1, <1>3, <1>8
  <2>2. c + size'[c] = rest /\ rest + size'[rest] = c + size[c]
    BY <1>1, <1>3
  <2>3. c + size[c] \in Nodes \cup {end_address} /\ c + size[c] <= end_address
        /\ end_address \in Nat
    BY <1>1, FreeListFacts DEF Inv, Tiled
  <2>4. ASSUME NEW a \in Nodes'
        PROVE  /\ a + size'[a] \in Nodes' \cup {end_address}
               /\ a + size'[a] <= end_address
               /\ size'[a] >= NODE_SIZE
    <3>1. CASE a = c
      BY <1>1, <1>3, <1>7, <2>2, <2>3, <3>1 DEF NODE_SIZE, HEADER_SIZE
    <3>2. CASE a = rest
      BY <1>1, <1>3, <1>7, <2>2, <2>3, <3>2 DEF NODE_SIZE
    <3>3. CASE a \in Nodes /\ a # c
      BY <1>7, <2>1, <3>3 DEF Inv, Tiled
    <3> QED BY <1>7, <3>1, <3>2, <3>3
  <2>5. ASSUME NEW a \in Nodes', NEW b \in Nodes', a < b
        PROVE  a + size'[a] <= b
    <3>1. CASE a = c
      <4>1. CASE b = rest
        BY <1>1, <2>2, <3>1, <4>1
      <4>2. CASE b # rest
        <5>1. b \in Nodes /\ b # c
          BY <1>1, <1>7, <2>5, <3>1, <4>2
        <5> QED BY <1>1, <1>2, <1>8, <2>2, <2>5, <3>1, <5>1
      <4> QED BY <4>1, <4>2
    <3>2. CASE a = rest
      <4>1. b \in Nodes /\ b # c
        BY <1>1, <1>7, <2>5, <3>2
      <4> QED BY <1>1, <1>2, <1>8, <2>2, <2>5, <3>2, <4>1
    <3>3. CASE a \in Nodes /\ a # c
      <4>1. CASE b = rest
        BY <1>1, <1>2, <1>8, <2>1, <2>5, <3>3, <4>1
      <4>2. CASE b \in Nodes
        BY <2>1, <2>5, <3>3, <4>2 DEF Inv, Tiled
      <4> QED BY <1>7, <4>1, <4>2
    <3> QED BY <1>7, <3>1, <3>2, <3>3
  <2>6. used' \cup Freeing' \subseteq Nodes' /\ HEAP_START_LOCATION \in Nodes'
    BY <1>1, <1>6, <1>7 DEF Inv, Tiled
  <2> QED BY <1>6, <2>4, <2>5, <2>6 DEF Tiled
<1>11. FreeListSound'
  <2>1. start_node' \in FreeList' /\ \A a \in FreeList' : start_node' <= a
    <3>1. start_node \in FreeList /\ \A a \in FreeList : start_node <= a
      BY DEF Inv, FreeListSound
    <3>2. CASE c = start_node
      <4>1. start_node' = rest
        BY <1>6, <3>2
      <4>2. ASSUME NEW a \in FreeList, a # c
            PROVE  rest <= a
        BY <1>1, <1>2, <1>8, <3>1, <3>2, <4>2
      <4> QED BY <1>1, <1>7, <4>1, <4>2
    <3>3. CASE c # start_node
      BY <1>1, <1>6, <1>7, <1>8, <3>1, <3>3
    <3> QED BY <3>2, <3>3
  <2>2. ASSUME NEW a \in FreeList'
        PROVE  /\ next'[a] # NULL => next'[a] \in FreeList' /\ Follows(a, next[a])'
                                       /\ prev'[next'[a]] = a
               /\ next'[a] = NULL => a + size'[a] = end_address'
    <3>1. CASE a = rest
      <4>1. next'[a] = next[c] /\ rest + size'[rest] = c + size[c]
        BY <1>1, <1>3, <1>4, <3>1
      <4>2. CASE next[c] = NULL
        BY <1>1, <1>6, <3>1, <4>1, <4>2 DEF Inv, FreeListSound
      <4>3. CASE next[c] # NULL
        <5>1. next[c] \in FreeList /\ Follows(c, next[c]) /\ c < next[c] /\ next[c] # c
          BY <1>1, <1>8, <4>3 DEF Inv, FreeListSound, Follows
        <5>2. rest < next[c]
          <6>1. next[c] \in Nodes /\ next[c] \in Nat
            BY <1>8, <5>1
          <6>2. ~(next[c] < c)
            BY <1>1, <5>1, <6>1
          <6> QED BY <1>2, <5>1, <6>1, <6>2
        <5>3. ASSUME NEW b \in FreeList'
              PROVE  b <= rest \/ b >= next[c]
          BY <1>1, <1>7, <1>8, <5>1 DEF Follows
        <5> QED BY <1>5, <1>7, <3>1, <4>1, <4>3, <5>1, <5>2, <5>3 DEF Follows
      <4> QED BY <4>2, <4>3
    <3>2. CASE a # rest /\ next[a] = c
      <4>1. a \in FreeList /\ a # c /\ c # NULL
        BY <1>1, <1>7, <3>2, AddrFacts
      <4>2. prev[c] = a /\ Follows(a, c) /\ a < c
        BY <3>2, <4>1 DEF Inv, FreeListSound, Follows
      <4>3. c # start_node
        BY <1>1, <1>8, <4>1, <4>2 DEF Inv, FreeListSound
      <4>4. next'[a] = rest /\ prev'[rest] = a
        BY <1>4, <1>5, <4>2, <4>3
      <4>5. ASSUME NEW b \in FreeList'
            PROVE  b <= a \/ b >= rest
        <5>1. CASE b = rest
          BY <1>1, <5>1
        <5>2. CASE b \in FreeList /\ b # c
          <6>1. b <= a \/ b >= c
            BY <4>2, <5>2 DEF Follows
          <6> QED BY <1>1, <1>2, <1>8, <4>1, <5>2, <6>1
        <5> QED BY <1>7, <5>1, <5>2
      <4>6. a < rest
        BY <1>1, <1>8, <4>1, <4>2
      <4> QED BY <1>1, <1>7, <4>4, <4>5, <4>6, AddrFacts DEF Follows
    <3>3. CASE a # rest /\ next[a] # c
      <4>1. a \in FreeList /\ a # c /\ a \in Addrs
        BY <1>7, <1>8, <3>3
      <4>2. a # prev[c]
        BY <1>1, <1>8, <3>3, <4>1, AddrFacts DEF Inv, FreeListSound
      <4>3. next'[a] = next[a] /\ size'[a] = size[a]
        BY <1>3, <1>4, <3>3, <4>1, <4>2
      <4>4. CASE next[a] = NULL
        BY <1>6, <4>1, <4>3, <4>4 DEF Inv, FreeListSound
      <4>5. CASE next[a] # NULL
        <5>1. next[a] \in FreeList /\ Follows(a, next[a]) /\ prev[next[a]] = a
          BY <4>1, <4>5 DEF Inv, FreeListSound
        <5>2. next[a] # next[c]
          BY <1>1, <4>1, <4>5, <5>1 DEF Inv, FreeListSound
        <5>3. prev'[next[a]] = a
          BY <1>1, <1>5, <1>8, <3>3, <5>1, <5>2
        <5>4. rest <= a \/ rest >= next[a]
          <6>1. c <= a \/ c >= next[a]
            BY <1>1, <5>1 DEF Follows
          <6>2. a \in Nodes /\ a \in Nat /\ next[a] \in Nat
            BY <1>8, <4>1, <5>1
          <6>3. CASE c <= a
            <7>1. c < a
              BY <1>1, <4>1, <6>2, <6>3
            <7>2. a > rest
              BY <1>1, <1>2, <4>1, <6>2, <7>1
            <7> QED BY <1>1, <6>2, <7>2
          <6>4. CASE c >= next[a]
            BY <1>1, <6>2, <6>4
          <6> QED BY <6>1, <6>3, <6>4
        <5>5. ASSUME NEW b \in FreeList'
              PROVE  b <= a \/ b >= next[a]
          BY <1>7, <5>1, <5>4 DEF Follows
        <5> QED BY <1>7, <3>3, <4>3, <4>5, <5>1, <5>3, <5>5 DEF Follows
      <4> QED BY <4>4, <4>5
    <3> QED BY <3>1, <3>2, <3>3
  <2>3. ASSUME NEW a \in FreeList'
        PROVE  /\ prev'[a] # NULL => prev'[a] \in FreeList' /\ next'[prev'[a]] = a
               /\ prev'[a] = NULL => a = start_node'
    <3>1. CASE a = rest
      <4>1. CASE c = start_node
        BY <1>1, <1>5, <1>6, <3>1, <4>1, FreeListFacts
      <4>2. CASE c # start_node
        <5>1. prev[c] # NULL
          BY <1>1, <4>2, FreeListFacts
        <5>2. prev[c] \in FreeList /\ next[prev[c]] = c
          BY <1>1, <5>1 DEF Inv, FreeListSound
        <5>3. prev[c] # c
          BY <1>1, <1>8, <5>2, AddrFacts DEF Inv, FreeListSound, Follows
        <5> QED BY <1>4, <1>5, <1>7, <3>1, <4>2, <5>1, <5>2, <5>3
      <4> QED BY <4>1, <4>2
    <3>2. CASE a # rest /\ a = next[c]
      <4>1. a # NULL
        BY <1>7, <1>8, <3>2, AddrFacts
      <4> QED BY <1>1, <1>4, <1>5, <1>7, <3>2, <4>1, AddrFacts
    <3>3. CASE a # rest /\ a # next[c]
      <4>1. a \in FreeList /\ a # c /\ a \in Addrs
        BY <1>7, <1>8, <3>3
      <4>2. prev'[a] = prev[a]
        BY <1>5, <3>3, <4>1
      <4>3. CASE prev[a] = NULL
        BY <1>6, <4>1, <4>2, <4>3 DEF Inv, FreeListSound
      <4>4. CASE prev[a] # NULL
        <5>1. prev[a] \in FreeList /\ next[prev[a]] = a
          BY <4>1, <4>4 DEF Inv, FreeListSound
        <5>2. prev[a] # c /\ prev[a] # rest /\ prev[a] \in Addrs
          BY <1>1, <1>8, <3>3, <5>1
        <5>3. prev[a] # prev[c]
          <6>1. CASE prev[c] = NULL
            BY <4>4, <6>1
          <6>2. CASE prev[c] # NULL
            BY <1>1, <4>1, <5>1, <6>2 DEF Inv, FreeListSound
          <6> QED BY <6>1, <6>2
        <5>4. next'[prev[a]] = a
          BY <1>4, <5>1, <5>2, <5>3
        <5> QED BY <1>7, <4>2, <4>4, <5>1, <5>2, <5>4
      <4> QED BY <4>3, <4>4
    <3> QED BY <3>1, <3>2, <3>3
  <2>4. ASSUME NEW a \in FreeList'
        PROVE  a + size'[a] \notin FreeList'
    <3>1. CASE a = rest
      <4>1. rest + size'[rest] = c + size[c] /\ c + size[c] > rest
        BY <1>1, <1>3 DEF NODE_SIZE
      <4>2. c + size[c] \notin FreeList
        BY <1>1 DEF Inv, FreeListSound
      <4> QED BY <1>1, <1>7, <3>1, <4>1, <4>2
    <3>2. CASE a # rest
      <4>1. a \in FreeList /\ a # c
        BY <1>7, <3>2
      <4>2. size'[a] = size[a] /\ a + size[a] \notin FreeList
        BY <1>3, <1>8, <3>2, <4>1 DEF Inv, FreeListSound
      <4>3. a + size[a] # rest
        BY <1>1, <1>2, <1>8, <4>1
      <4> QED BY <1>7, <4>2, <4>3
    <3> QED BY <3>1, <3>2
  <2> QED BY <2>1, <2>2, <2>3, <2>4 DEF FreeListSound
<1>12. Cursor' /\ NeverFellOff'
  BY <1>6 DEF Cursor, NeverFellOff
<1> QED BY <1>9, <1>10, <1>11, <1>12 DEF Inv

-----------------------------------------------------------------------------
(* __kfree.                                                                *)

(* Two nodes do not end at the same address.                               *)
LEMMA OneBelow ==
  ASSUME Inv, NEW a \in Nodes, NEW b \in Nodes, a + size[a] = b + size[b]
  PROVE  a = b
<1>1. /\ a \in Nat /\ size[a] \in Nat /\ size[a] >= NODE_SIZE
      /\ b \in Nat /\ size[b] \in Nat /\ size[b] >= NODE_SIZE
  BY FreeListFacts
<1>2. ~(a < b) /\ ~(b < a)
  BY <1>1 DEF Inv, Tiled, NODE_SIZE
<1> QED BY <1>1, <1>2

LEMMA FreeFirstFacts ==
  ASSUME Inv, NEW b \in used, FreeFirst(b)
  PROVE  /\ b \in Nodes /\ b \in Nat /\ b \in Addrs /\ b \notin FreeList
         /\ Freeing = {} /\ Freeing' = {} /\ used' = used \ {b}
         /\ start_node \in FreeList /\ start_node \in Nodes
         /\ start_node \in Nat /\ start_node \in Addrs /\ start_node # b
         /\ b < start_node /\ b + size[b] <= start_node
         /\ \A a \in FreeList : start_node <= a
         /\ start_node' = b /\ end_address' = end_address /\ UNCHANGED call
<1>1. b \in Nodes /\ b \notin FreeList /\ Freeing = {} /\ b < start_node
      /\ start_node' = b /\ end_address' = end_address /\ UNCHANGED call
      /\ used' = used \ {b}
  BY DEF FreeFirst, Inv, Tiled, FreeList, Freeing
<1>2. start_node \in FreeList /\ start_node \in Nodes
      /\ start_node \in Nat /\ start_node \in Addrs
  BY FreeListFacts
<1>3. b \in Nat /\ b \in Addrs
  BY <1>1, FreeListFacts
<1>4. b + size[b] <= start_node
  BY <1>1, <1>2 DEF Inv, Tiled
<1>5. Freeing' = {}
  BY <1>1 DEF FreeFirst, call, Freeing
<1>6. \A a \in FreeList : start_node <= a
  BY DEF Inv, FreeListSound
<1> QED BY <1>1, <1>2, <1>3, <1>4, <1>5, <1>6

(* The node becomes the first free one.                                    *)
LEMMA FreeFirstApart ==
  ASSUME Inv, NEW b \in used, FreeFirst(b), b + size[b] # start_node
  PROVE  Inv'
<1> DEFINE s == start_node
<1>1. /\ b \in Nodes /\ b \in Nat /\ b \in Addrs /\ b \notin FreeList
      /\ Freeing = {} /\ Freeing' = {} /\ used' = used \ {b}
      /\ s \in FreeList /\ s \in Nodes /\ s \in Nat /\ s \in Addrs /\ s # b
      /\ b < s /\ b + size[b] <= s
      /\ start_node' = b /\ end_address' = end_address /\ UNCHANGED call
  BY FreeFirstFacts
<1>2. /\ next \in [Addrs -> Addrs \cup {NULL}] /\ prev \in [Addrs -> Addrs \cup {NULL}]
      /\ next' = [next EXCEPT ![b] = s]
      /\ prev' = [prev EXCEPT ![b] = NULL, ![s] = b]
      /\ size' = size
  BY DEF Inv, TypeOK, FreeFirst
<1>3. /\ next'[b] = s /\ \A a \in Addrs : a # b => next'[a] = next[a]
      /\ prev'[b] = NULL /\ prev'[s] = b
      /\ \A a \in Addrs : a # b /\ a # s => prev'[a] = prev[a]
  BY <1>1, <1>2
<1>4. Nodes' = Nodes /\ FreeList' = FreeList \cup {b}
  BY <1>1, <1>2 DEF Nodes, FreeList
<1>5. /\ Nodes \subseteq Addrs /\ FreeList \subseteq Nodes
      /\ \A a \in Nodes : a \in Nat /\ size[a] \in Nat /\ size[a] >= NODE_SIZE
      /\ \A a \in FreeList : s <= a
  BY FreeListFacts, FreeFirstFacts
<1> HIDE DEF s
<1>6. TypeOK'
  BY <1>1, <1>2 DEF Inv, TypeOK, call
<1>7. Tiled'
  BY <1>1, <1>2, <1>4 DEF Inv, Tiled
<1>8. FreeListSound'
  <2>1. start_node' \in FreeList' /\ \A a \in FreeList' : start_node' <= a
    BY <1>1, <1>4, <1>5
  <2>2. ASSUME NEW a \in FreeList'
        PROVE  /\ next'[a] # NULL => next'[a] \in FreeList' /\ Follows(a, next[a])'
                                       /\ prev'[next'[a]] = a
               /\ next'[a] = NULL => a + size'[a] = end_address'
    <3>1. CASE a = b
      <4>1. \A x \in FreeList' : x <= b \/ x >= s
        BY <1>1, <1>4, <1>5
      <4> QED BY <1>1, <1>3, <1>4, <3>1, <4>1, AddrFacts DEF Follows
    <3>2. CASE a # b
      <4>1. a \in FreeList /\ a \in Addrs /\ next'[a] = next[a]
        BY <1>3, <1>4, <1>5, <3>2
      <4>2. CASE next[a] = NULL
        BY <1>1, <1>2, <4>1, <4>2 DEF Inv, FreeListSound
      <4>3. CASE next[a] # NULL
        <5>1. next[a] \in FreeList /\ Follows(a, next[a]) /\ prev[next[a]] = a
          BY <4>1, <4>3 DEF Inv, FreeListSound
        <5>2. next[a] # s /\ next[a] # b /\ next[a] \in Addrs /\ b <= a
          <6>1. a < next[a] /\ s <= a /\ a \in Nat
            BY <1>5, <4>1, <5>1 DEF Follows
          <6>2. next[a] \in Nat /\ next[a] \in Addrs /\ next[a] # b
            BY <1>1, <1>5, <5>1
          <6> QED BY <1>1, <6>1, <6>2
        <5> QED BY <1>3, <1>4, <4>1, <4>3, <5>1, <5>2 DEF Follows
      <4> QED BY <4>2, <4>3
    <3> QED BY <3>1, <3>2
  <2>3. ASSUME NEW a \in FreeList'
        PROVE  /\ prev'[a] # NULL => prev'[a] \in FreeList' /\ next'[prev'[a]] = a
               /\ prev'[a] = NULL => a = start_node'
    <3>1. CASE a = b
      BY <1>1, <1>3, <3>1
    <3>2. CASE a = s
      BY <1>1, <1>3, <1>4, <3>2, AddrFacts
    <3>3. CASE a # b /\ a # s
      <4>1. a \in FreeList /\ a \in Addrs /\ prev'[a] = prev[a]
        BY <1>3, <1>4, <1>5, <3>3
      <4>2. prev[a] # NULL
        BY <3>3, <4>1, FreeListFacts DEF s
      <4>3. prev[a] \in FreeList /\ next[prev[a]] = a
        BY <4>1, <4>2 DEF Inv, FreeListSound
      <4> QED BY <1>1, <1>3, <1>4, <1>5, <4>1, <4>2, <4>3
    <3> QED BY <3>1, <3>2, <3>3
  <2>4. ASSUME NEW a \in FreeList'
        PROVE  a + size'[a] \notin FreeList'
    <3>1. CASE a = b
      <4>1. b + size[b] < s /\ b + size[b] # b
        BY <1>1, <1>5 DEF s, NODE_SIZE
      <4>2. b + size[b] \notin FreeList
        BY <1>1, <1>5, <4>1
      <4> QED BY <1>2, <1>4, <3>1, <4>1, <4>2
    <3>2. CASE a # b
      <4>1. a \in FreeList /\ a + size[a] \notin FreeList
        BY <1>4, <3>2 DEF Inv, FreeListSound
      <4>2. a + size[a] # b
        BY <1>1, <1>5, <4>1
      <4> QED BY <1>2, <1>4, <4>1, <4>2
    <3> QED BY <3>1, <3>2
  <2> QED BY <2>1, <2>2, <2>3, <2>4 DEF FreeListSound
<1>9. Cursor' /\ NeverFellOff'
  BY <1>1 DEF FreeFirst, Inv, Cursor, NeverFellOff, call
<1> QED BY <1>6, <1>7, <1>8, <1>9 DEF Inv

(* The node takes in the first free one.                                   *)
LEMMA FreeFirstCombined ==
  ASSUME Inv, NEW b \in used, FreeFirst(b), b + size[b] = start_node
  PROVE  Inv'
<1> DEFINE s == start_node
           n == next[s]
<1>1. /\ b \in Nodes /\ b \in Nat /\ b \in Addrs /\ b \notin FreeList
      /\ Freeing = {} /\ Freeing' = {} /\ used' = used \ {b}
      /\ s \in FreeList /\ s \in Nodes /\ s \in Nat /\ s \in Addrs /\ s # b
      /\ b < s /\ b + size[b] = s
      /\ start_node' = b /\ end_address' = end_address /\ UNCHANGED call
  BY FreeFirstFacts
<1>2. /\ size \in [Addrs -> Nat]
      /\ next \in [Addrs -> Addrs \cup {NULL}] /\ prev \in [Addrs -> Addrs \cup {NULL}]
      /\ size' = [size EXCEPT ![b] = @ + size[s], ![s] = 0]
      /\ next' = [next EXCEPT ![b] = n, ![s] = NULL]
      /\ prev' = Put([prev EXCEPT ![b] = NULL], n, b)
  BY DEF Inv, TypeOK, FreeFirst
<1>3. /\ Nodes \subseteq Addrs /\ FreeList \subseteq Nodes
      /\ \A a \in Nodes : a \in Nat /\ size[a] \in Nat /\ size[a] >= NODE_SIZE
      /\ \A a \in FreeList : s <= a
  BY FreeListFacts, FreeFirstFacts
<1>4. n # NULL => /\ n \in FreeList /\ n \in Nodes /\ n \in Nat /\ n \in Addrs
                  /\ s < n /\ n # b /\ prev[n] = s
                  /\ \A x \in FreeList : x <= s \/ x >= n
  <2> SUFFICES ASSUME n # NULL
               PROVE  /\ n \in FreeList /\ n \in Nodes /\ n \in Nat /\ n \in Addrs
                      /\ s < n /\ n # b /\ prev[n] = s
                      /\ \A x \in FreeList : x <= s \/ x >= n
    OBVIOUS
  <2>1. n \in FreeList /\ Follows(s, n) /\ prev[n] = s
    BY <1>1 DEF Inv, FreeListSound
  <2> QED BY <1>1, <1>3, <2>1 DEF Follows
<1> HIDE DEF n
<1>5. /\ size'[b] = size[b] + size[s] /\ size'[s] = 0
      /\ \A a \in Addrs : a # b /\ a # s => size'[a] = size[a]
      /\ next'[b] = n
      /\ \A a \in Addrs : a # b /\ a # s => next'[a] = next[a]
      /\ prev'[b] = NULL
      /\ n # NULL => prev'[n] = b
      /\ \A a \in Addrs : a # b /\ a # n => prev'[a] = prev[a]
  BY <1>1, <1>2, <1>4 DEF Put
<1>6. Nodes' = Nodes \ {s}
  <2>1. size'[b] # 0 /\ size[b] # 0
    BY <1>1, <1>3, <1>5 DEF NODE_SIZE
  <2> QED BY <1>1, <1>5, <2>1 DEF Nodes
<1>7. FreeList' = (FreeList \ {s}) \cup {b}
  BY <1>1, <1>6 DEF FreeList
<1>8. TypeOK'
  <2>1. size' \in [Addrs -> Nat]
    BY <1>1, <1>2, <1>3
  <2>2. next' \in [Addrs -> Addrs \cup {NULL}]
    BY <1>1, <1>2, <1>4
  <2>3. prev' \in [Addrs -> Addrs \cup {NULL}]
    BY <1>1, <1>2, <1>4 DEF Put
  <2> QED BY <1>1, <2>1, <2>2, <2>3 DEF Inv, TypeOK, call
<1> HIDE DEF s
<1>9. Tiled'
  <2>1. s + size[s] \in Nodes \cup {end_address} /\ s + size[s] <= end_address
        /\ s + size[s] # s /\ b + size'[b] = s + size[s]
    BY <1>1, <1>3, <1>5 DEF Inv, Tiled, NODE_SIZE
  <2>2. ASSUME NEW a \in Nodes'
        PROVE  /\ a + size'[a] \in Nodes' \cup {end_address}
               /\ a + size'[a] <= end_address
               /\ size'[a] >= NODE_SIZE
    <3>1. CASE a = b
      BY <1>1, <1>3, <1>5, <1>6, <2>1, <3>1 DEF NODE_SIZE
    <3>2. CASE a # b
      <4>1. a \in Nodes /\ a # s /\ size'[a] = size[a]
        BY <1>3, <1>5, <1>6, <3>2
      <4>2. a + size[a] # s
        BY <1>1, <3>2, <4>1, OneBelow
      <4> QED BY <1>6, <4>1, <4>2 DEF Inv, Tiled
    <3> QED BY <3>1, <3>2
  <2>3. ASSUME NEW a \in Nodes', NEW x \in Nodes', a < x
        PROVE  a + size'[a] <= x
    <3>1. CASE a = b
      <4>1. x \in Nodes /\ x # s /\ x \in Nat
        BY <1>3, <1>6
      <4>2. s <= x
        BY <1>1, <2>3, <3>1, <4>1 DEF Inv, Tiled
      <4>3. s < x
        BY <1>1, <4>1, <4>2
      <4>4. s + size[s] <= x
        BY <1>1, <4>1, <4>3 DEF Inv, Tiled
      <4> QED BY <2>1, <3>1, <4>4
    <3>2. CASE a # b
      BY <1>3, <1>5, <1>6, <2>3, <3>2 DEF Inv, Tiled
    <3> QED BY <3>1, <3>2
  <2>4. HEAP_START_LOCATION # s
    BY <1>1, AddrFacts
  <2>5. s \notin used
    BY <1>1 DEF FreeList
  <2> QED BY <1>1, <1>6, <2>2, <2>3, <2>4, <2>5 DEF Inv, Tiled
<1>10. FreeListSound'
  <2>1. start_node' \in FreeList' /\ \A a \in FreeList' : start_node' <= a
    BY <1>1, <1>3, <1>7
  <2>2. ASSUME NEW a \in FreeList'
        PROVE  /\ next'[a] # NULL => next'[a] \in FreeList' /\ Follows(a, next[a])'
                                       /\ prev'[next'[a]] = a
               /\ next'[a] = NULL => a + size'[a] = end_address'
    <3>1. CASE a = b
      <4>1. CASE n = NULL
        BY <1>1, <1>3, <1>5, <3>1, <4>1 DEF n, Inv, FreeListSound
      <4>2. CASE n # NULL
        <5>1. \A x \in FreeList' : x <= b \/ x >= n
          BY <1>1, <1>3, <1>4, <1>7, <4>2
        <5>2. b < n /\ n \in FreeList'
          BY <1>1, <1>4, <1>7, <4>2
        <5> QED BY <1>5, <3>1, <4>2, <5>1, <5>2 DEF Follows
      <4> QED BY <4>1, <4>2
    <3>2. CASE a # b
      <4>1. a \in FreeList /\ a # s /\ a \in Addrs
            /\ next'[a] = next[a] /\ size'[a] = size[a]
        BY <1>1, <1>3, <1>5, <1>7, <3>2
      <4>2. CASE next[a] = NULL
        BY <1>1, <4>1, <4>2 DEF Inv, FreeListSound
      <4>3. CASE next[a] # NULL
        <5>1. next[a] \in FreeList /\ Follows(a, next[a]) /\ prev[next[a]] = a
          BY <4>1, <4>3 DEF Inv, FreeListSound
        <5>2. next[a] # s /\ next[a] # b /\ next[a] \in Addrs /\ b <= a
          <6>1. a < next[a] /\ s <= a /\ a \in Nat
            BY <1>3, <4>1, <5>1 DEF Follows
          <6>2. next[a] \in Nat /\ next[a] \in Addrs /\ next[a] # b
            BY <1>1, <1>3, <5>1
          <6> QED BY <1>1, <6>1, <6>2
        <5>3. next[a] # n
          BY <1>4, <4>1, <4>3, <5>1
        <5> QED BY <1>5, <1>7, <4>1, <4>3, <5>1, <5>2, <5>3 DEF Follows
      <4> QED BY <4>2, <4>3
    <3> QED BY <3>1, <3>2
  <2>3. ASSUME NEW a \in FreeList'
        PROVE  /\ prev'[a] # NULL => prev'[a] \in FreeList' /\ next'[prev'[a]] = a
               /\ prev'[a] = NULL => a = start_node'
    <3>1. CASE a = b
      BY <1>1, <1>5, <3>1
    <3>2. CASE a = n
      <4>1. n # NULL
        BY <1>1, <1>3, <1>7, <3>2, AddrFacts
      <4> QED BY <1>1, <1>4, <1>5, <1>7, <3>2, <4>1, AddrFacts
    <3>3. CASE a # b /\ a # n
      <4>1. a \in FreeList /\ a # s /\ a \in Addrs /\ prev'[a] = prev[a]
        BY <1>3, <1>5, <1>7, <3>3
      <4>2. prev[a] # NULL
        BY <4>1, FreeListFacts DEF s
      <4>3. prev[a] \in FreeList /\ next[prev[a]] = a
        BY <4>1, <4>2 DEF Inv, FreeListSound
      <4>4. prev[a] # s /\ prev[a] # b
        BY <1>1, <3>3, <4>3 DEF n
      <4> QED BY <1>3, <1>5, <1>7, <4>1, <4>2, <4>3, <4>4
    <3> QED BY <3>1, <3>2, <3>3
  <2>4. ASSUME NEW a \in FreeList'
        PROVE  a + size'[a] \notin FreeList'
    <3>1. CASE a = b
      <4>1. b + size'[b] = s + size[s] /\ s + size[s] > b
        BY <1>1, <1>3, <1>5
      <4>2. s + size[s] \notin FreeList
        BY <1>1 DEF Inv, FreeListSound
      <4> QED BY <1>1, <1>7, <3>1, <4>1, <4>2
    <3>2. CASE a # b
      <4>1. a \in FreeList /\ a # s /\ a + size[a] \notin FreeList /\ size'[a] = size[a]
        BY <1>3, <1>5, <1>7, <3>2 DEF Inv, FreeListSound
      <4>2. a + size[a] # b
        BY <1>1, <1>3, <4>1
      <4> QED BY <1>7, <4>1, <4>2
    <3> QED BY <3>1, <3>2
  <2> QED BY <2>1, <2>2, <2>3, <2>4 DEF FreeListSound
<1>11. Cursor' /\ NeverFellOff'
  BY <1>1 DEF FreeFirst, Inv, Cursor, NeverFellOff, call
<1> QED BY <1>8, <1>9, <1>10, <1>11 DEF Inv

(* Where __kfree inserts: the node m lies between the free nodes p and l,  *)
(* which follow each other in the list.                                    *)
LEMMA InsertPlace ==
  ASSUME Inv, Insert
  PROVE  LET m == arg
             l == current_node
             p == prev[l]
         IN  /\ m \in Nodes /\ m \in Nat /\ m \in Addrs /\ m \notin FreeList /\ m \notin used
             /\ l \in FreeList /\ l \in Nodes /\ l \in Nat /\ l \in Addrs /\ l \notin used
             /\ p \in FreeList /\ p \in Nodes /\ p \in Nat /\ p \in Addrs
             /\ p < m /\ m < l /\ next[p] = l /\ l # start_node
             /\ p + size[p] <= m /\ m + size[m] <= l
             /\ \A x \in FreeList : x <= p \/ x >= l
             /\ Freeing = {m}
<1> DEFINE m == arg
           l == current_node
           p == prev[l]
<1>1. /\ m \in Nodes /\ m \notin used /\ m > start_node /\ phase = "insert" /\ Freeing = {m}
      /\ l \in FreeList /\ l >= m /\ \A b \in FreeList : b < l => b < m
  BY DEF Insert, Inv, Cursor, Freeing
<1>2. m \notin FreeList /\ l \in Nodes /\ l \notin used
  BY <1>1 DEF FreeList
<1>3. m \in Nat /\ m \in Addrs /\ l \in Nat /\ l \in Addrs
      /\ start_node \in FreeList /\ start_node \in Nat
  BY <1>1, <1>2, FreeListFacts
<1>4. m < l
  BY <1>1, <1>2, <1>3
<1>5. l # start_node
  BY <1>1, <1>3, <1>4
<1>6. p \in FreeList /\ next[p] = l
  BY <1>1, <1>5, FreeListFacts DEF Inv, FreeListSound
<1>7. p \in Nodes /\ p \in Nat /\ p \in Addrs
  BY <1>6, FreeListFacts
<1>8. Follows(p, l)
  BY <1>3, <1>6, AddrFacts DEF Inv, FreeListSound
<1>9. p < l /\ p < m
  BY <1>1, <1>6, <1>8 DEF Follows
<1>10. p + size[p] <= m /\ m + size[m] <= l
  BY <1>1, <1>2, <1>4, <1>7, <1>9 DEF Inv, Tiled
<1>11. \A x \in FreeList : x <= p \/ x >= l
  BY <1>8 DEF Follows
<1> QED BY <1>1, <1>2, <1>3, <1>4, <1>5, <1>6, <1>7, <1>9, <1>10, <1>11

LEMMA InsertInv == ASSUME Inv, Insert PROVE Inv'
<1> DEFINE m  == arg
           l  == current_node
           p  == prev[l]
           lo == p + size[p] = m
           hi == m + size[m] = l
           f  == IF lo THEN p ELSE m
           n  == IF hi THEN next[l] ELSE l
           e  == IF hi THEN l + size[l] ELSE m + size[m]
<1>1. /\ m \in Nodes /\ m \in Nat /\ m \in Addrs /\ m \notin FreeList /\ m \notin used
      /\ l \in FreeList /\ l \in Nodes /\ l \in Nat /\ l \in Addrs /\ l \notin used
      /\ p \in FreeList /\ p \in Nodes /\ p \in Nat /\ p \in Addrs
      /\ p < m /\ m < l /\ next[p] = l /\ l # start_node
      /\ p + size[p] <= m /\ m + size[m] <= l
      /\ \A x \in FreeList : x <= p \/ x >= l
      /\ Freeing = {m}
  BY InsertPlace
<1>2. /\ Nodes \subseteq Addrs /\ FreeList \subseteq Nodes
      /\ \A a \in Nodes : a \in Nat /\ size[a] \in Nat /\ size[a] >= NODE_SIZE
      /\ end_address \in Nat /\ NULL \notin Addrs
  BY FreeListFacts, AddrFacts
<1>3. /\ size' = [a \in Addrs |->
                    CASE a = f -> (IF lo THEN size[p] ELSE 0) + size[m]
                                    + (IF hi THEN size[l] ELSE 0)
                      [] a = m /\ lo -> 0
                      [] a = l /\ hi -> 0
                      [] OTHER -> size[a]]
      /\ next' = [a \in Addrs |->
                    CASE a = f -> n
                      [] a = p /\ ~lo -> m
                      [] a = l /\ hi -> NULL
                      [] OTHER -> next[a]]
      /\ prev' = [a \in Addrs |->
                    CASE a = n -> f
                      [] a = m /\ ~lo -> p
                      [] a = l /\ hi -> NULL
                      [] OTHER -> prev[a]]
      /\ phase' = "idle" /\ current_node' = NULL /\ arg' = 0
      /\ UNCHANGED <<start_node, end_address, asked, used>>
  BY DEF Insert, Touches
<1>4. n # NULL => /\ n \in FreeList /\ n \in Nat /\ n \in Addrs /\ l <= n
                  /\ \A x \in FreeList : x <= l \/ x >= n
                  /\ hi => l < n /\ prev[n] = l
  <2> SUFFICES ASSUME n # NULL
               PROVE  /\ n \in FreeList /\ n \in Nat /\ n \in Addrs /\ l <= n
                      /\ \A x \in FreeList : x <= l \/ x >= n
                      /\ hi => l < n /\ prev[n] = l
    OBVIOUS
  <2>1. CASE hi
    <3>1. n = next[l] /\ n \in FreeList /\ Follows(l, n) /\ prev[n] = l
      BY <1>1, <2>1 DEF Inv, FreeListSound
    <3> HIDE DEF hi, n, l
    <3> QED BY <1>1, <1>2, <3>1 DEF Follows
  <2>2. CASE ~hi
    <3>1. n = l
      BY <2>2
    <3> HIDE DEF hi, n, l
    <3> QED BY <1>1, <1>2, <2>2, <3>1
  <2> QED BY <2>1, <2>2
<1>5. e \in Nodes \cup {end_address} /\ e <= end_address /\ e > m /\ e \notin FreeList \ {l}
      /\ e \in Nat /\ (hi => e > l /\ e \notin FreeList) /\ (~hi => e < l)
  <2>1. CASE hi
    <3>1. e = l + size[l]
      BY <2>1
    <3> HIDE DEF e
    <3> QED BY <1>1, <1>2, <2>1, <3>1 DEF Inv, Tiled, FreeListSound, NODE_SIZE
  <2>2. CASE ~hi
    <3>1. e = m + size[m]
      BY <2>2
    <3>2. e \in Nat /\ e > m /\ e < l
      BY <1>1, <1>2, <2>2, <3>1 DEF NODE_SIZE
    <3> HIDE DEF e
    <3> QED BY <1>1, <1>2, <2>2, <3>1, <3>2 DEF Inv, Tiled
  <2> QED BY <2>1, <2>2
<1>6. f \in Nodes /\ f \in Addrs /\ f \in Nat /\ p <= f /\ f <= m
      /\ (lo => f = p /\ f # m) /\ (~lo => f = m /\ f # p)
  BY <1>1
<1>7. f + size'[f] = e /\ size'[f] \in Nat /\ size'[f] >= NODE_SIZE
  BY <1>1, <1>2, <1>3, <1>6 DEF NODE_SIZE
<1>8. \A a \in Addrs : a # f /\ a # m /\ (a = l => ~hi) => size'[a] = size[a]
  BY <1>1, <1>3
<1>9. (lo => size'[m] = 0) /\ (hi => size'[l] = 0)
  BY <1>1, <1>3, <1>6
<1>10. /\ next'[f] = n
       /\ ~lo => next'[p] = m
       /\ \A a \in Addrs : a # f /\ a # p /\ (a = l => ~hi) => next'[a] = next[a]
  BY <1>1, <1>3, <1>6
<1>11. /\ n # NULL => prev'[n] = f
       /\ ~lo => prev'[m] = p
       /\ \A a \in Addrs : a # n /\ a # m /\ (a = l => ~hi) => prev'[a] = prev[a]
  <2>1. m # n
    BY <1>1, <1>4, <1>2
  <2>2. n # NULL => n \in Addrs
    BY <1>4
  <2>3. prev' = [a \in Addrs |-> CASE a = n -> f
                                   [] a = m /\ ~lo -> p
                                   [] a = l /\ hi -> NULL
                                   [] OTHER -> prev[a]]
    BY <1>3
  <2>4. m \in Addrs /\ m # l /\ (hi => n # l)
    BY <1>1, <1>2, <1>4
  <2> HIDE DEF n, f, lo, hi, p, l, m
  <2>5. n # NULL => prev'[n] = f
    BY <2>1, <2>2, <2>3, <2>4
  <2>6. ~lo => prev'[m] = p
    BY <2>1, <2>3, <2>4
  <2>7. \A a \in Addrs : a # n /\ a # m /\ (a = l => ~hi) => prev'[a] = prev[a]
    BY <2>3
  <2> QED BY <2>5, <2>6, <2>7
<1>12. hi => n # l
  BY <1>1, <1>4, <1>2
<1>13. TypeOK'
  <2>1. \A a \in Addrs : size'[a] \in Nat
    BY <1>2, <1>3, <1>7 DEF Inv, TypeOK
  <2>2. n \in Addrs \cup {NULL} /\ f \in Addrs /\ m \in Addrs /\ p \in Addrs
    BY <1>1, <1>4, <1>6
  <2> HIDE DEF n, f, lo, hi, p, l, m
  <2>3. size' \in [Addrs -> Nat]
    BY <1>3, <2>1
  <2>4. next' \in [Addrs -> Addrs \cup {NULL}]
    BY <1>3, <2>2 DEF Inv, TypeOK
  <2>5. prev' \in [Addrs -> Addrs \cup {NULL}]
    BY <1>3, <2>2 DEF Inv, TypeOK
  <2> QED BY <1>3, <2>3, <2>4, <2>5 DEF Inv, TypeOK
<1>14. \A a : a \in Nodes' <=> a \in Nodes /\ (a = m => ~lo) /\ (a = l => ~hi)
  <2>1. size[m] # 0 /\ size[l] # 0 /\ size[f] # 0 /\ size'[f] # 0
    BY <1>1, <1>2, <1>6, <1>7 DEF NODE_SIZE
  <2> HIDE DEF n, f, lo, hi, p, l, m, e
  <2> QED BY <1>1, <1>6, <1>8, <1>9, <2>1 DEF Nodes
<1>15. Freeing' = {} /\ used' = used
  BY <1>3 DEF Freeing
<1>16. \A a : a \in FreeList' <=> \/ a = m /\ ~lo
                                  \/ a \in FreeList /\ (a = l => ~hi)
  <2> HIDE DEF n, f, lo, hi, p, l, m, e
  <2> QED BY <1>1, <1>14, <1>15 DEF FreeList
<1> HIDE DEF n, f, lo, hi, p, l, m, e
<1>17. lo <=> p + size[p] = m
  BY DEF lo, p, l, m
<1>18. hi <=> m + size[m] = l
  BY DEF hi, m, l
<1>19. n = IF hi THEN next[l] ELSE l
  BY DEF n, hi
<1>20. p = prev[l]
  BY DEF p
<1>21. f \in FreeList' /\ f \in Nodes'
  BY <1>1, <1>6, <1>14, <1>16
<1>22. Tiled'
  <2>1. ASSUME NEW a \in Nodes'
        PROVE  /\ a + size'[a] \in Nodes' \cup {end_address}
               /\ a + size'[a] <= end_address
               /\ size'[a] >= NODE_SIZE
    <3>1. CASE a = f
      <4>1. e # m /\ (e = l => ~hi)
        BY <1>1, <1>5
      <4> QED BY <1>5, <1>7, <1>14, <3>1, <4>1
    <3>2. CASE a # f
      <4>1. a \in Nodes /\ a # m /\ (a = l => ~hi)
        BY <1>6, <1>14, <3>2
      <4>2. size'[a] = size[a]
        BY <1>2, <1>8, <3>2, <4>1
      <4>3. lo => a + size[a] # m
        BY <1>1, <1>6, <1>17, <3>2, <4>1, OneBelow
      <4>4. hi => a + size[a] # l
        BY <1>1, <1>18, <4>1, OneBelow
      <4>5. a + size[a] \in Nodes \cup {end_address} /\ a + size[a] <= end_address
            /\ size[a] >= NODE_SIZE
        BY <4>1 DEF Inv, Tiled
      <4> QED BY <1>14, <4>2, <4>3, <4>4, <4>5
    <3> QED BY <3>1, <3>2
  <2>2. ASSUME NEW a \in Nodes', NEW b \in Nodes', a < b
        PROVE  a + size'[a] <= b
    <3>1. a \in Nodes /\ b \in Nodes /\ a \in Nat /\ b \in Nat
      BY <1>2, <1>14
    <3>2. CASE a = f
      <4>1. m < b
        <5>1. CASE lo
          <6>1. p + size[p] <= b
            BY <1>1, <1>6, <2>2, <3>1, <3>2, <5>1 DEF Inv, Tiled
          <6> QED BY <1>1, <1>14, <1>17, <3>1, <5>1, <6>1
        <5>2. CASE ~lo
          BY <1>6, <2>2, <3>2, <5>2
        <5> QED BY <5>1, <5>2
      <4>2. m + size[m] <= b
        BY <1>1, <3>1, <4>1 DEF Inv, Tiled
      <4>3. CASE hi
        <5>1. l < b
          BY <1>1, <1>14, <1>18, <3>1, <4>2, <4>3
        <5>2. l + size[l] <= b
          BY <1>1, <3>1, <5>1 DEF Inv, Tiled
        <5> QED BY <1>7, <3>2, <4>3, <5>2 DEF e, l
      <4>4. CASE ~hi
        BY <1>7, <3>2, <4>2, <4>4 DEF e, m
      <4> QED BY <4>3, <4>4
    <3>3. CASE a # f
      <4>1. size'[a] = size[a]
        BY <1>2, <1>6, <1>8, <1>14, <3>1, <3>3
      <4> QED BY <2>2, <3>1, <4>1 DEF Inv, Tiled
    <3> QED BY <3>2, <3>3
  <2>3. used' \cup Freeing' \subseteq Nodes'
    BY <1>1, <1>14, <1>15 DEF Inv, Tiled
  <2>4. HEAP_START_LOCATION \in Nodes'
    <3>1. HEAP_START_LOCATION # m /\ HEAP_START_LOCATION # l
      BY <1>1, AddrFacts
    <3> QED BY <1>14, <3>1 DEF Inv, Tiled
  <2> QED BY <1>3, <2>1, <2>2, <2>3, <2>4 DEF Tiled
<1>23. FreeListSound'
  <2>1. start_node' \in FreeList' /\ \A a \in FreeList' : start_node' <= a
    <3>1. start_node \in FreeList /\ start_node \in Nat /\ \A a \in FreeList : start_node <= a
      BY FreeListFacts DEF Inv, FreeListSound
    <3> QED BY <1>1, <1>3, <1>16, <3>1
  <2>2. ASSUME NEW a \in FreeList'
        PROVE  /\ next'[a] # NULL => next'[a] \in FreeList' /\ Follows(a, next[a])'
                                       /\ prev'[next'[a]] = a
               /\ next'[a] = NULL => a + size'[a] = end_address'
    <3>1. CASE a = f
      <4>1. CASE n = NULL
        <5>1. hi /\ next[l] = NULL
          BY <1>1, <1>2, <1>19, <4>1
        <5>2. l + size[l] = end_address
          BY <1>1, <5>1 DEF Inv, FreeListSound
        <5> QED BY <1>3, <1>7, <1>10, <3>1, <4>1, <5>1, <5>2 DEF e, l
      <4>2. CASE n # NULL
        <5>1. n \in FreeList' /\ f < n
          BY <1>1, <1>4, <1>6, <1>12, <1>16, <4>2
        <5>2. ASSUME NEW x \in FreeList'
              PROVE  x <= f \/ x >= n
          <6>1. CASE x = m /\ ~lo
            BY <1>1, <1>6, <6>1
          <6>2. CASE x \in FreeList /\ (x = l => ~hi)
            <7>1. x <= p \/ x >= l
              BY <1>1, <6>2
            <7>2. x <= l \/ x >= n
              BY <1>4, <4>2, <6>2
            <7>3. x = l => x >= n
              BY <1>1, <1>19, <6>2
            <7>4. x \in Nat
              BY <1>2, <6>2
            <7> QED BY <1>1, <1>4, <1>6, <4>2, <7>1, <7>2, <7>3, <7>4
          <6> QED BY <1>16, <6>1, <6>2
        <5> QED BY <1>10, <1>11, <3>1, <4>2, <5>1, <5>2 DEF Follows
      <4> QED BY <4>1, <4>2
    <3>2. CASE a = p /\ ~lo
      <4>1. ASSUME NEW x \in FreeList'
            PROVE  x <= p \/ x >= m
        <5>1. CASE x = m
          BY <1>1, <5>1
        <5>2. CASE x \in FreeList
          BY <1>1, <1>2, <5>2
        <5> QED BY <1>16, <5>1, <5>2
      <4> QED BY <1>1, <1>2, <1>10, <1>11, <1>16, <3>2, <4>1 DEF Follows
    <3>3. CASE a # f /\ a # p
      <4>1. a \in FreeList /\ a # m /\ (a = l => ~hi) /\ a \in Addrs /\ a \in Nat
        BY <1>1, <1>2, <1>6, <1>16, <3>3
      <4>2. next'[a] = next[a] /\ size'[a] = size[a]
        BY <1>8, <1>10, <3>3, <4>1
      <4>3. CASE next[a] = NULL
        BY <1>3, <4>1, <4>2, <4>3 DEF Inv, FreeListSound
      <4>4. CASE next[a] # NULL
        <5>1. next[a] \in FreeList /\ Follows(a, next[a]) /\ prev[next[a]] = a
          BY <4>1, <4>4 DEF Inv, FreeListSound
        <5>2. next[a] # l /\ next[a] # m /\ next[a] \in Addrs /\ next[a] \in Nat
          BY <1>1, <1>2, <1>20, <3>3, <5>1
        <5>3. next[a] # n
          BY <1>4, <1>19, <4>1, <4>4, <5>1, <5>2
        <5>4. prev'[next[a]] = a
          BY <1>11, <5>1, <5>2, <5>3
        <5>5. m <= a \/ m >= next[a]
          <6>1. p <= a \/ p >= next[a]
            BY <1>1, <5>1 DEF Follows
          <6>2. a <= p \/ a >= l
            BY <1>1, <4>1
          <6> QED BY <1>1, <3>3, <4>1, <5>2, <6>1, <6>2
        <5>6. ASSUME NEW x \in FreeList'
              PROVE  x <= a \/ x >= next[a]
          BY <1>16, <5>1, <5>5 DEF Follows
        <5> QED BY <1>16, <4>2, <4>4, <5>1, <5>2, <5>4, <5>6 DEF Follows
      <4> QED BY <4>3, <4>4
    <3> QED BY <1>6, <3>1, <3>2, <3>3
  <2>3. ASSUME NEW a \in FreeList'
        PROVE  /\ prev'[a] # NULL => prev'[a] \in FreeList' /\ next'[prev'[a]] = a
               /\ prev'[a] = NULL => a = start_node'
    <3>1. CASE a = n
      <4>1. n # NULL
        BY <1>1, <1>2, <1>16, <3>1
      <4> QED BY <1>2, <1>6, <1>10, <1>11, <1>21, <3>1, <4>1
    <3>2. CASE a = m /\ a # n
      <4>1. ~lo
        BY <1>1, <1>16, <3>2
      <4> QED BY <1>1, <1>2, <1>10, <1>11, <1>16, <3>2, <4>1
    <3>3. CASE a # m /\ a # n
      <4>1. a \in FreeList /\ a # l /\ a \in Addrs
        BY <1>2, <1>16, <1>19, <3>3
      <4>2. prev'[a] = prev[a]
        BY <1>11, <3>3, <4>1
      <4>3. CASE prev[a] = NULL
        BY <1>3, <4>1, <4>2, <4>3 DEF Inv, FreeListSound
      <4>4. CASE prev[a] # NULL
        <5>1. prev[a] \in FreeList /\ next[prev[a]] = a
          BY <4>1, <4>4 DEF Inv, FreeListSound
        <5>2. prev[a] # p /\ prev[a] # m
          BY <1>1, <4>1, <5>1
        <5>3. prev[a] # l \/ ~hi
          BY <1>19, <3>3, <5>1
        <5>4. prev[a] # f /\ prev[a] \in Addrs
          BY <1>2, <1>6, <5>1, <5>2
        <5>5. next'[prev[a]] = a
          BY <1>10, <5>1, <5>2, <5>3, <5>4
        <5> QED BY <1>16, <4>2, <4>4, <5>1, <5>3, <5>5
      <4> QED BY <4>3, <4>4
    <3> QED BY <3>1, <3>2, <3>3
  <2>4. ASSUME NEW a \in FreeList'
        PROVE  a + size'[a] \notin FreeList'
    <3>1. CASE a = f
      <4>1. e # m /\ (e \in FreeList => ~hi /\ e = l)
        BY <1>1, <1>5
      <4>2. ~hi => e # l
        BY <1>1, <1>5
      <4> QED BY <1>7, <1>16, <3>1, <4>1, <4>2
    <3>2. CASE a # f
      <4>1. a \in FreeList /\ a # m /\ (a = l => ~hi) /\ a \in Addrs /\ a \in Nodes
        BY <1>1, <1>2, <1>6, <1>16, <3>2
      <4>2. size'[a] = size[a] /\ a + size[a] \notin FreeList
        BY <1>8, <3>2, <4>1 DEF Inv, FreeListSound
      <4>3. ~lo => a + size[a] # m
        <5> SUFFICES ASSUME ~lo, a + size[a] = m
                     PROVE  FALSE
          OBVIOUS
        <5>1. a \in Nat /\ size[a] \in Nat /\ a < m
          BY <1>1, <1>2, <4>1 DEF NODE_SIZE
        <5>2. a <= p
          BY <1>1, <4>1, <5>1
        <5>3. a # p
          BY <1>17
        <5>4. a + size[a] <= p
          BY <1>1, <4>1, <5>1, <5>2, <5>3 DEF Inv, Tiled
        <5> QED BY <1>1, <5>4
      <4> QED BY <1>16, <4>2, <4>3
    <3> QED BY <3>1, <3>2
  <2> QED BY <2>1, <2>2, <2>3, <2>4 DEF FreeListSound
<1>24. Cursor' /\ NeverFellOff'
  BY <1>3 DEF Insert, Inv, Cursor, NeverFellOff
<1> QED BY <1>13, <1>22, <1>23, <1>24 DEF Inv

-----------------------------------------------------------------------------
(* What holds in every reachable state.                                    *)

LEMMA StepInv == ASSUME Inv, [Next]_vars PROVE Inv'
<1>1. ASSUME NEW n \in Requests, Malloc(n) PROVE Inv'
  BY <1>1, MallocInv
<1>2. ASSUME NEW b \in used, FreeFirst(b) PROVE Inv'
  BY <1>2, FreeFirstApart, FreeFirstCombined
<1>3. ASSUME NEW b \in used, Free(b) PROVE Inv'
  BY <1>3, FreeInv
<1>4. CASE Loop
  BY <1>4, FindNextInv, GrowInv, CarveInv, InsertNextInv, InsertInv DEF Loop
<1>5. CASE UNCHANGED vars
  <2>1. UNCHANGED <<size, next, prev, start_node, end_address,
                    phase, current_node, arg, used, asked>>
    BY <1>5 DEF vars, list, call
  <2>2. Nodes' = Nodes /\ FreeList' = FreeList /\ Freeing' = Freeing
    BY <2>1 DEF Nodes, FreeList, Freeing
  <2>3. TypeOK'
    BY <2>1 DEF Inv, TypeOK
  <2>4. Tiled' /\ FreeListSound'
    BY <2>1, <2>2 DEF Inv, Tiled, FreeListSound, Follows
  <2> QED BY <2>1, <2>2, <2>3, <2>4 DEF Inv, Cursor, NeverFellOff
<1> QED BY <1>1, <1>2, <1>3, <1>4, <1>5 DEF Next

(* The inductive invariant of the heap holds in every reachable state,     *)
(* inside the loops of __kmalloc and __kfree too.                          *)
THEOREM HeapInvariant == Spec => []Inv
<1>1. Init => Inv
  BY InitInv
<1>2. Inv /\ [Next]_vars => Inv'
  BY StepInv
<1> QED BY <1>1, <1>2, PTL DEF Spec

(* The nodes always tile the heap (__kmalloc cutting and growing, __kfree  *)
(* combining).                                                             *)
THEOREM AlwaysTiled == Spec => []Tiled
BY HeapInvariant, PTL DEF Inv

(* The free list is always complete, sorted, doubly linked and combined.   *)
THEOREM FreeListAlwaysSound == Spec => []FreeListSound
BY HeapInvariant, PTL DEF Inv

(* The panic of __kfree (kmalloc.c:281) is never reached.                  *)
THEOREM ListNeverFellOff == Spec => []NeverFellOff
BY HeapInvariant, PTL DEF Inv

(* The three together: the heap is tiled by its nodes, its free list is    *)
(* sound, and __kfree finds what it looks for, after any sequence of       *)
(* __kmalloc and __kfree.                                                  *)
THEOREM HeapAlwaysSound == Spec => []HeapSound
<1>1. Inv => HeapSound
  BY DEF Inv, HeapSound
<1> QED BY <1>1, HeapInvariant, PTL

-----------------------------------------------------------------------------
(* The heap implements an allocator.                                       *)

Held == {<<a + HEADER_SIZE, size[a] - HEADER_SIZE>> : a \in used}

LEMMA InitImplements == Init => Promise!AllocatorInit
BY DEF Init, Promise!AllocatorInit, Promise!Nothing

(* A step that leaves the blocks in the hands of callers alone.            *)
LEMMA HeldUnchanged ==
  ASSUME used' = used, \A a \in used : size'[a] = size[a]
  PROVE  Held' = Held
BY DEF Held

(* The answer of __kmalloc: the lower part of the node that is cut.        *)
LEMMA CarveAnswers == ASSUME Inv, Carve PROVE Promise!Answer
<1> DEFINE c == current_node
           k == <<c + HEADER_SIZE, arg - HEADER_SIZE>>
<1>1. /\ c \in Nodes /\ c \in Nat /\ c \in Addrs /\ c \notin used /\ phase = "find"
      /\ arg \in Nat /\ arg >= NODE_SIZE + HEADER_SIZE
      /\ size[c] >= arg + NODE_SIZE /\ size[c] \in Nat
      /\ c + arg \in Addrs /\ c + arg \notin Nodes
  BY CutFacts, FreeListFacts
<1>2. size'[c] = arg /\ (\A a \in Addrs : a # c /\ a # c + arg => size'[a] = size[a])
      /\ used' = used \cup {c} /\ asked' = -1
  BY CarveFacts
<1>3. used \subseteq Nodes /\ used \subseteq Addrs
      /\ \A a \in used : a \in Nat /\ size[a] \in Nat /\ size[a] >= NODE_SIZE
  BY FreeListFacts DEF Inv, Tiled
<1>4. asked \in Requests /\ asked \in Nat /\ arg - HEADER_SIZE >= asked
  BY <1>1, AddrFacts DEF Inv, Cursor
<1>5. Held' = Held \cup {k}
  <2>1. \A a \in used : size'[a] = size[a]
    BY <1>1, <1>2, <1>3
  <2> QED BY <1>2, <2>1 DEF Held
<1>6. \A b \in Held : Promise!Apart(k, b)
  <2> SUFFICES ASSUME NEW a \in used
               PROVE  Promise!Apart(k, <<a + HEADER_SIZE, size[a] - HEADER_SIZE>>)
    BY DEF Held
  <2>1. a + size[a] <= c \/ c + size[c] <= a
    <3>1. a \in Nodes /\ a # c /\ a \in Nat
      BY <1>1, <1>3
    <3>2. a < c \/ c < a
      BY <1>1, <3>1
    <3> QED BY <1>1, <3>1, <3>2 DEF Inv, Tiled
  <2>2. /\ c + HEADER_SIZE + (arg - HEADER_SIZE) = c + arg
        /\ a + HEADER_SIZE + (size[a] - HEADER_SIZE) = a + size[a]
    BY <1>1, <1>3 DEF HEADER_SIZE
  <2>3. c + arg <= a + HEADER_SIZE \/ a + size[a] <= c + HEADER_SIZE
    BY <1>1, <1>3, <2>1 DEF HEADER_SIZE, NODE_SIZE
  <2> QED BY <2>2, <2>3 DEF Promise!Apart
<1>7. /\ c + HEADER_SIZE \in HEAP_START_LOCATION .. LIMIT
      /\ arg - HEADER_SIZE \in 0 .. (LIMIT - HEAP_START_LOCATION)
      /\ c + HEADER_SIZE + (arg - HEADER_SIZE) <= LIMIT
  <2>1. HEAP_START_LOCATION <= c /\ c + arg < LIMIT /\ LIMIT \in Nat
        /\ HEAP_START_LOCATION \in Nat
    BY <1>1, AddrFacts
  <2> QED BY <1>1, <2>1 DEF HEADER_SIZE, NODE_SIZE
<1>8. asked # -1
  BY <1>4
<1> QED BY <1>2, <1>4, <1>5, <1>6, <1>7, <1>8 DEF Promise!Answer, Promise!Nothing, Held

(* A call of __kfree takes back the block that it names.                   *)
LEMMA HeldRelease ==
  ASSUME Inv, NEW b \in used, used' = used \ {b}, phase = "idle", UNCHANGED asked,
         \A a \in used : a # b => size'[a] = size[a]
  PROVE  Promise!Release
<1> DEFINE k == <<b + HEADER_SIZE, size[b] - HEADER_SIZE>>
<1>1. used \subseteq Nat
  BY AddrFacts DEF Inv, TypeOK
<1>2. \A a \in used : a + HEADER_SIZE = b + HEADER_SIZE => a = b
  BY <1>1 DEF HEADER_SIZE
<1>3. k \in Held
  BY DEF Held
<1>4. Held' = Held \ {k}
  BY <1>2 DEF Held
<1>5. asked = -1
  BY DEF Inv, Cursor
<1> QED BY <1>3, <1>4, <1>5 DEF Promise!Release, Promise!Nothing, Held

LEMMA StepImplements ==
  ASSUME Inv, [Next]_vars
  PROVE  [Promise!AllocatorNext]_<<Held, asked>>
<1> USE DEF Promise!AllocatorNext
<1>1. ASSUME NEW n \in Requests, Malloc(n) PROVE Promise!Ask
  <2>1. asked = -1 /\ asked' = n /\ Held' = Held
    BY <1>1, HeldUnchanged DEF Malloc, list, Inv, Cursor
  <2> QED BY <2>1 DEF Promise!Ask, Promise!Nothing, Held
<1>2. ASSUME NEW b \in used, FreeFirst(b) PROVE Promise!Release
  <2>1. \A a \in used : a # b => size'[a] = size[a]
    <3>1. start_node \notin used
      BY FreeListFacts DEF FreeList
    <3> QED BY <1>2, <3>1 DEF FreeFirst, Inv, TypeOK
  <2> QED BY <1>2, <2>1, HeldRelease DEF FreeFirst, call
<1>3. ASSUME NEW b \in used, Free(b) PROVE Promise!Release
  BY <1>3, HeldRelease DEF Free, list
<1>4. ASSUME FindNext \/ InsertNext \/ UNCHANGED vars PROVE UNCHANGED <<Held, asked>>
  <2>1. used' = used /\ size' = size /\ asked' = asked
    BY <1>4 DEF FindNext, InsertNext, vars, list, call
  <2> QED BY <2>1, HeldUnchanged
<1>5. ASSUME Grow PROVE UNCHANGED <<Held, asked>>
  <2>1. current_node \notin used /\ used' = used /\ asked' = asked
    BY <1>5 DEF Grow, Inv, Cursor, FreeList
  <2>2. \A a \in used : size'[a] = size[a]
    BY <1>5, <2>1 DEF Grow, Inv, TypeOK
  <2> QED BY <2>1, <2>2, HeldUnchanged
<1>6. ASSUME Insert PROVE UNCHANGED <<Held, asked>>
  <2>1. used' = used /\ asked' = asked /\ used \subseteq Addrs
    BY <1>6 DEF Insert, Inv, TypeOK
  <2>2. arg \notin used /\ current_node \notin used /\ prev[current_node] \notin used
    BY <1>6, InsertPlace DEF FreeList
  <2>3. \A a \in used : size'[a] = size[a]
    BY <1>6, <2>1, <2>2 DEF Insert
  <2> QED BY <2>1, <2>3, HeldUnchanged
<1>7. CASE \E n \in Requests : Malloc(n)
  BY <1>1, <1>7
<1>8. CASE \E b \in used : FreeFirst(b) \/ Free(b)
  BY <1>2, <1>3, <1>8
<1>9. CASE Loop
  BY <1>4, <1>5, <1>6, <1>9, CarveAnswers DEF Loop
<1>10. CASE UNCHANGED vars
  BY <1>4, <1>10
<1> QED BY <1>7, <1>8, <1>9, <1>10 DEF Next

(* kmalloc.c does what an allocator promises: blocks in the hands of       *)
(* callers never overlap, are as large as asked for and lie in the arena.  *)
THEOREM HeapImplementsAllocator == Spec => Allocates
<1>1. Init => Promise!AllocatorInit
  BY InitImplements
<1>2. Inv /\ [Next]_vars => [Promise!AllocatorNext]_<<Held, asked>>
  BY StepImplements
<1> QED BY <1>1, <1>2, HeapInvariant, PTL
        DEF Spec, Allocates, Promise!AllocatorSpec, Held


-----------------------------------------------------------------------------
(* Memory: every frame has one owner.                                      *)

Idx       == 0 .. LAST
UserIdx   == 1 .. (KERNEL_PAGE_DIR_INDEX - 1)
HeapIdx   == (HEAP_START \div ENTRIES) .. (HEAP_MAX \div ENTRIES)
KernelIdx == {0} \cup KERNEL_PAGE_DIR_INDEX .. (LAST - 1)
UserArea  == ENTRIES .. (KERNEL_PAGE_DIR_INDEX * ENTRIES - 1)

\* The owners of frames: nobody, who has just got it from __phys_get_free_4k,
\* the kernel, the directory that it is, or the place of a table or of a page.
FREE          == <<"free", 0, 0, 0>>
HELD          == <<"held", 0, 0, 0>>
KERNEL        == <<"kernel", 0, 0, 0>>
DIR           == <<"directory", 0, 0, 0>>
TABLE(d, k)   == <<"table", d, k, 0>>
PAGE(d, k, j) == <<"page", d, k, j>>
Owners == {FREE, HELD, KERNEL, DIR} \cup {TABLE(d, k) : d \in Frames, k \in Idx}
            \cup {PAGE(d, k, j) : d \in Frames, k \in Idx, j \in Idx}

\* What page maps to in directory d, by the entries e.
FrameOf(e, d, page) ==
  IF e[d][page \div ENTRIES] = NONE THEN NONE
  ELSE e[e[d][page \div ENTRIES]][page % ENTRIES]

\* The owners of the user part of the directories in D.
UserOwned(e, D, own) ==
  /\ \A f \in Frames : own[f] = DIR <=> f \in D
  /\ \A f \in Frames, d \in Frames, k \in Idx : own[f] = TABLE(d, k) =>
       d \in D /\ k \in UserIdx /\ e[d][k] = f
  /\ \A d \in D, k \in UserIdx : e[d][k] # NONE =>
       e[d][k] \in Frames /\ own[e[d][k]] = TABLE(d, k)
  /\ \A f \in Frames, d \in Frames, k \in Idx, j \in Idx :
       own[f] = PAGE(d, k, j) =>
         d \in D /\ k \in UserIdx /\ e[d][k] # NONE /\ e[e[d][k]][j] = f
  /\ \A d \in D, k \in UserIdx, j \in Idx :
       e[d][k] # NONE /\ e[e[d][k]][j] # NONE =>
         e[e[d][k]][j] \in Frames /\ own[e[e[d][k]][j]] = PAGE(d, k, j)

\* The frames of the heap's pages.
HeapPages(e, end) == {FrameOf(e, KernelDir, page) : page \in HEAP_START .. (end - 1)}

\* What belongs to the kernel when R is the RAM disk and the heap ends at end.
KernelPart(e, R, end) ==
  InitialBitmap \cup (R \cap Frames) \cup {KernelDir, FirstTable, KernelTable}
    \cup ({e[KernelDir][k] : k \in HeapIdx} \ {NONE})
    \cup HeapPages(e, end)

KernelOwned(e, R, end, own) ==
  /\ {KernelDir, FirstTable, KernelTable} \subseteq Frames
  /\ \A f \in Frames : own[f] = KERNEL <=> f \in KernelPart(e, R, end)
  /\ \A k \in HeapIdx : e[KernelDir][k] # NONE =>
       e[KernelDir][k] \in Frames \ {KernelDir}
  /\ end \in Nat /\ end <= HEAP_MAX + 1
  /\ \A page \in HEAP_START .. (end - 1) :
       FrameOf(e, KernelDir, page) \in Frames \ {NONE}
  /\ \A k \in UserIdx : e[KernelDir][k] = NONE

Alike(e, D) ==
  \A d \in D, k \in KernelIdx :
    \/ e[d][k] = e[KernelDir][k]
    \/ k >= HEAP_START \div ENTRIES /\ e[d][k] = NONE

\* H are the frames that were got and not used yet.
Owned(taken, e, D, H, R, end, own) ==
  /\ taken \subseteq Frames /\ D \subseteq Frames /\ H \subseteq Frames
  /\ e \in [Frames -> [Idx -> Nat]] /\ own \in [Frames -> Owners]
  /\ \A f \in Frames : own[f] = FREE <=> f \notin taken
  /\ \A f \in Frames : own[f] = HELD <=> f \in H
  /\ UserOwned(e, D, own) /\ KernelOwned(e, R, end, own) /\ Alike(e, D)

-----------------------------------------------------------------------------
(* The constants.                                                          *)

LEMMA OwnerFacts ==
  /\ FREE # HELD /\ FREE # KERNEL /\ FREE # DIR /\ HELD # KERNEL /\ HELD # DIR
  /\ KERNEL # DIR
  /\ \A d, k : /\ TABLE(d, k) # FREE /\ TABLE(d, k) # HELD
               /\ TABLE(d, k) # KERNEL /\ TABLE(d, k) # DIR
  /\ \A d, k, j : /\ PAGE(d, k, j) # FREE /\ PAGE(d, k, j) # HELD
                  /\ PAGE(d, k, j) # KERNEL /\ PAGE(d, k, j) # DIR
  /\ \A d, k, d2, k2, j2 : TABLE(d, k) # PAGE(d2, k2, j2)
  /\ \A d, k, d2, k2 : TABLE(d, k) = TABLE(d2, k2) => d = d2 /\ k = k2
  /\ \A d, k, j, d2, k2, j2 :
       PAGE(d, k, j) = PAGE(d2, k2, j2) => d = d2 /\ k = k2 /\ j = j2
  /\ {FREE, HELD, KERNEL, DIR} \subseteq Owners
  /\ \A d \in Frames, k \in Idx : TABLE(d, k) \in Owners
  /\ \A d \in Frames, k \in Idx, j \in Idx : PAGE(d, k, j) \in Owners
<1>1. FREE # HELD /\ FREE # KERNEL /\ FREE # DIR /\ HELD # KERNEL /\ HELD # DIR
      /\ KERNEL # DIR
  BY DEF FREE, HELD, KERNEL, DIR
<1>2. \A d, k : /\ TABLE(d, k) # FREE /\ TABLE(d, k) # HELD
               /\ TABLE(d, k) # KERNEL /\ TABLE(d, k) # DIR
  BY DEF FREE, HELD, KERNEL, DIR, TABLE
<1>3. \A d, k, j : /\ PAGE(d, k, j) # FREE /\ PAGE(d, k, j) # HELD
                  /\ PAGE(d, k, j) # KERNEL /\ PAGE(d, k, j) # DIR
  BY DEF FREE, HELD, KERNEL, DIR, PAGE
<1>4. \A d, k, d2, k2, j2 : TABLE(d, k) # PAGE(d2, k2, j2)
  BY DEF TABLE, PAGE
<1>5. \A d, k, d2, k2 : TABLE(d, k) = TABLE(d2, k2) => d = d2 /\ k = k2
  BY DEF TABLE
<1>6. \A d, k, j, d2, k2, j2 :
       PAGE(d, k, j) = PAGE(d2, k2, j2) => d = d2 /\ k = k2 /\ j = j2
  BY DEF PAGE
<1>7. {FREE, HELD, KERNEL, DIR} \subseteq Owners
  BY DEF Owners
<1>8. \A d \in Frames, k \in Idx : TABLE(d, k) \in Owners
  BY DEF Owners
<1>9. \A d \in Frames, k \in Idx, j \in Idx : PAGE(d, k, j) \in Owners
  BY DEF Owners
<1> QED BY <1>1, <1>2, <1>3, <1>4, <1>5, <1>6, <1>7, <1>8, <1>9

LEMMA LayoutFacts ==
  /\ ENTRIES \in Nat /\ ENTRIES > 0 /\ LAST \in Nat /\ NONE = 0
  /\ KERNEL_PAGE_DIR_INDEX \in Nat /\ KERNEL_PAGE_DIR_INDEX > 1
  /\ HEAP_START \in Nat /\ HEAP_MAX \in Nat
  /\ HEAP_START \div ENTRIES \in Nat /\ HEAP_MAX \div ENTRIES \in Nat
  /\ KERNEL_PAGE_DIR_INDEX < HEAP_START \div ENTRIES
  /\ HEAP_MAX \div ENTRIES < LAST
  /\ HEAP_START \div ENTRIES <= HEAP_MAX \div ENTRIES
  /\ UserIdx \subseteq Idx /\ HeapIdx \subseteq Idx /\ KernelIdx \subseteq Idx
  /\ \A k \in HeapIdx : k \notin UserIdx
  /\ \A k \in UserIdx : k \notin KernelIdx
<1>1. /\ ENTRIES \in Nat /\ ENTRIES > 0 /\ LAST \in Nat /\ NONE = 0
      /\ KERNEL_PAGE_DIR_INDEX \in Nat /\ KERNEL_PAGE_DIR_INDEX > 1
      /\ HEAP_START \in Nat /\ HEAP_MAX \in Nat /\ HEAP_START < HEAP_MAX
      /\ KERNEL_PAGE_DIR_INDEX < HEAP_START \div ENTRIES
      /\ HEAP_MAX \div ENTRIES < LAST
  BY PagingAssumptions DEF PagingAssumption, LAST, NONE
<1>2. \A n \in Nat : n \div ENTRIES \in Nat
  BY <1>1
<1>3. \A a, b, E \in Nat : E > 0 /\ a <= b => a \div E <= b \div E
  OBVIOUS
<1>4. HEAP_START \div ENTRIES <= HEAP_MAX \div ENTRIES
  BY <1>1, <1>3
<1>5. HEAP_START \div ENTRIES \in Nat /\ HEAP_MAX \div ENTRIES \in Nat
  BY <1>1, <1>2
<1> QED BY <1>1, <1>4, <1>5 DEF UserIdx, HeapIdx, KernelIdx, Idx

\* Frame 0, which is what NONE stands for, is never handed out.
LEMMA NoneFacts ==
  /\ Frames \subseteq Nat
  /\ NONE \in Frames => NONE \in InitialBitmap
<1>1. Frames \subseteq Nat
  BY DEF Frames
<1>2. ASSUME NEW w \in ClearedWords PROVE w >= 1
  <2>1. \A B, x \in Nat : B > 0 /\ x >= B => x \div B \in Nat /\ x \div B >= 1
    OBVIOUS
  <2>2. Word(ONE_MEGABYTE) >= 1 /\ Word(SIXTEEN_MEG) >= 1
        /\ Word(ONE_MEGABYTE) \in Nat /\ Word(SIXTEEN_MEG) \in Nat
    BY <2>1, PagingAssumptions DEF PagingAssumption, Word
  <2> QED BY <2>2, <1>2 DEF ClearedWords, Words
<1>3. Word(NONE) = 0
  BY PagingAssumptions DEF PagingAssumption, Word, NONE
<1>4. Word(NONE) \notin ClearedWords
  BY <1>2, <1>3
<1> QED BY <1>1, <1>4 DEF InitialBitmap

LEMMA NoneOwned ==
  ASSUME NEW taken, NEW e, NEW D, NEW H, NEW R, NEW end, NEW own,
         Owned(taken, e, D, H, R, end, own)
  PROVE  /\ NONE \in Frames => own[NONE] = KERNEL
         /\ NONE \notin D /\ NONE \notin H
         /\ KernelDir \in Frames /\ own[KernelDir] = KERNEL /\ KernelDir \notin D
<1>1. \A f \in Frames : f \in KernelPart(e, R, end) => own[f] = KERNEL
  BY DEF Owned, KernelOwned
<1>2. NONE \in Frames => own[NONE] = KERNEL
  BY <1>1, NoneFacts DEF KernelPart
<1>3. KernelDir \in Frames /\ own[KernelDir] = KERNEL
  BY <1>1 DEF KernelPart, Owned, KernelOwned
<1>4. \A f \in Frames : own[f] = KERNEL => f \notin D /\ f \notin H
  BY OwnerFacts DEF Owned, UserOwned
<1>5. D \subseteq Frames /\ H \subseteq Frames
  BY DEF Owned
<1> QED BY <1>2, <1>3, <1>4, <1>5

\* The tables of the heap are the kernel's, and not its directory.
LEMMA KernelTables ==
  ASSUME NEW taken, NEW e, NEW D, NEW H, NEW R, NEW end, NEW own,
         Owned(taken, e, D, H, R, end, own),
         NEW k \in HeapIdx, e[KernelDir][k] # NONE
  PROVE  /\ e[KernelDir][k] \in Frames /\ e[KernelDir][k] # KernelDir
         /\ own[e[KernelDir][k]] = KERNEL
         /\ e[KernelDir][k] \notin D /\ e[KernelDir][k] \notin H
<1>1. e[KernelDir][k] \in Frames \ {KernelDir}
  BY DEF Owned, KernelOwned
<1>2. e[KernelDir][k] \in KernelPart(e, R, end)
  BY DEF KernelPart
<1>3. own[e[KernelDir][k]] = KERNEL
  BY <1>1, <1>2 DEF Owned, KernelOwned
<1> QED BY <1>1, <1>3, OwnerFacts DEF Owned, UserOwned

-----------------------------------------------------------------------------
(* One frame, or one entry.                                                *)

\* The kernel's part stays if its entries do.
LEMMA KernelStays ==
  ASSUME NEW e, NEW R, NEW end, NEW own, NEW e2, NEW own2,
         KernelOwned(e, R, end, own),
         e2[KernelDir] = e[KernelDir],
         \A k \in HeapIdx : e[KernelDir][k] # NONE =>
           e2[e[KernelDir][k]] = e[e[KernelDir][k]],
         \A f \in Frames : own2[f] = KERNEL <=> own[f] = KERNEL
  PROVE  KernelOwned(e2, R, end, own2)
<1>1. ASSUME NEW page \in HEAP_START .. (end - 1)
      PROVE  page \div ENTRIES \in HeapIdx
  <2>1. \A a, b, E \in Nat : E > 0 /\ a <= b => a \div E <= b \div E /\ a \div E \in Nat
    OBVIOUS
  <2>2. page \in Nat /\ HEAP_START <= page /\ page <= HEAP_MAX
    BY LayoutFacts DEF KernelOwned
  <2> QED BY <2>1, <2>2, LayoutFacts DEF HeapIdx
<1>2. \A page \in HEAP_START .. (end - 1) :
        FrameOf(e2, KernelDir, page) = FrameOf(e, KernelDir, page)
  BY <1>1 DEF FrameOf
<1>3. KernelPart(e2, R, end) = KernelPart(e, R, end)
  <2>1. HeapPages(e2, end) = HeapPages(e, end)
    BY <1>2 DEF HeapPages
  <2> QED BY <2>1 DEF KernelPart
<1> QED BY <1>2, <1>3 DEF KernelOwned

\* __phys_get_free_4k.
LEMMA TakeFrame ==
  ASSUME NEW taken, NEW e, NEW D, NEW H, NEW R, NEW end, NEW own,
         Owned(taken, e, D, H, R, end, own), NEW f \in Frames \ taken
  PROVE  /\ Owned(taken \cup {f}, e, D, H \cup {f}, R, end, [own EXCEPT ![f] = HELD])
         /\ f \notin H
<1> DEFINE own2 == [own EXCEPT ![f] = HELD]
<1>0. /\ own \in [Frames -> Owners] /\ own[f] = FREE
      /\ own2 \in [Frames -> Owners] /\ own2[f] = HELD
      /\ \A g \in Frames : g # f => own2[g] = own[g]
  BY OwnerFacts DEF Owned
<1> HIDE DEF own2
<1>1. UserOwned(e, D, own2)
  <2>1. \A g \in Frames : own2[g] = DIR <=> g \in D
    BY <1>0, OwnerFacts DEF Owned, UserOwned
  <2>2. \A g \in Frames, d \in Frames, k \in Idx : own2[g] = TABLE(d, k) =>
          d \in D /\ k \in UserIdx /\ e[d][k] = g
    BY <1>0, OwnerFacts DEF Owned, UserOwned
  <2>3. \A d \in D, k \in UserIdx : e[d][k] # NONE =>
          e[d][k] \in Frames /\ own2[e[d][k]] = TABLE(d, k)
    BY <1>0, OwnerFacts DEF Owned, UserOwned
  <2>4. \A g \in Frames, d \in Frames, k \in Idx, j \in Idx :
          own2[g] = PAGE(d, k, j) =>
            d \in D /\ k \in UserIdx /\ e[d][k] # NONE /\ e[e[d][k]][j] = g
    BY <1>0, OwnerFacts DEF Owned, UserOwned
  <2>5. \A d \in D, k \in UserIdx, j \in Idx :
          e[d][k] # NONE /\ e[e[d][k]][j] # NONE =>
            e[e[d][k]][j] \in Frames /\ own2[e[e[d][k]][j]] = PAGE(d, k, j)
    BY <1>0, OwnerFacts DEF Owned, UserOwned
  <2> QED BY <2>1, <2>2, <2>3, <2>4, <2>5 DEF UserOwned
<1>2. KernelOwned(e, R, end, own2)
  <2>1. \A g \in Frames : own2[g] = KERNEL <=> own[g] = KERNEL
    BY <1>0, OwnerFacts
  <2> QED BY <2>1, KernelStays DEF Owned
<1>3. /\ \A g \in Frames : own2[g] = FREE <=> g \notin taken \cup {f}
      /\ \A g \in Frames : own2[g] = HELD <=> g \in H \cup {f}
  BY <1>0, OwnerFacts DEF Owned
<1>4. f \notin H
  BY <1>0, OwnerFacts DEF Owned
<1>5. Owned(taken \cup {f}, e, D, H \cup {f}, R, end, own2)
  BY <1>0, <1>1, <1>2, <1>3 DEF Owned
<1> QED BY <1>4, <1>5 DEF own2

\* e2 is e but for directory or table d, where entry k is f.
EntryIs(e, e2, d, k, f) ==
  /\ e2 \in [Frames -> [Idx -> Nat]]
  /\ \A g \in Frames : g # d => e2[g] = e[g]
  /\ e2[d][k] = f /\ \A i \in Idx : i # k => e2[d][i] = e[d][i]

\* e2 is e but for entry k of d, which is f, and for f, which is blank.
TableIs(e, e2, d, k, f) ==
  /\ e2 \in [Frames -> [Idx -> Nat]]
  /\ \A g \in Frames : g # d /\ g # f => e2[g] = e[g]
  /\ e2[d][k] = f /\ \A i \in Idx : i # k => e2[d][i] = e[d][i]
  /\ \A i \in Idx : e2[f][i] = NONE

\* A held frame becomes table k of directory d (__virt_map_page).
LEMMA LinkTable ==
  ASSUME NEW taken, NEW e, NEW D, NEW H, NEW R, NEW end, NEW own,
         Owned(taken, e, D, H, R, end, own),
         NEW d \in D, NEW k \in UserIdx, NEW f \in H, e[d][k] = NONE,
         NEW e2, TableIs(e, e2, d, k, f)
  PROVE  Owned(taken, e2, D, H \ {f}, R, end, [own EXCEPT ![f] = TABLE(d, k)])
<1> DEFINE own2 == [own EXCEPT ![f] = TABLE(d, k)]
<1>0. /\ own \in [Frames -> Owners] /\ own[f] = HELD /\ own[d] = DIR
      /\ d \in Frames /\ f \in Frames /\ d # f /\ f # NONE /\ f \notin D
      /\ k \in Idx /\ D \subseteq Frames /\ UserIdx \subseteq Idx /\ f \in Nat
      /\ d # KernelDir /\ f # KernelDir /\ KernelDir \in Frames
  <2>1. /\ own \in [Frames -> Owners] /\ d \in Frames /\ f \in Frames
        /\ D \subseteq Frames /\ own[f] = HELD /\ own[d] = DIR
    BY DEF Owned, UserOwned
  <2>2. d # f /\ f \notin D
    BY <2>1, OwnerFacts DEF Owned, UserOwned
  <2>3. f # NONE /\ d # KernelDir /\ f # KernelDir /\ KernelDir \in Frames
    BY <2>1, NoneOwned, OwnerFacts
  <2> QED BY <2>1, <2>2, <2>3, LayoutFacts, NoneFacts
<1>1. /\ own2 \in [Frames -> Owners] /\ own2[f] = TABLE(d, k)
      /\ \A g \in Frames : g # f => own2[g] = own[g]
  BY <1>0, OwnerFacts DEF Owned
<1>2. /\ e2 \in [Frames -> [Idx -> Nat]]
      /\ \A g \in Frames : g # d /\ g # f => e2[g] = e[g]
      /\ e2[d][k] = f /\ \A i \in Idx : i # k => e2[d][i] = e[d][i]
      /\ \A i \in Idx : e2[f][i] = NONE
  BY DEF TableIs
<1> HIDE DEF own2
<1>3. \A d2 \in D, k2 \in UserIdx : d2 # d \/ k2 # k => e2[d2][k2] = e[d2][k2]
  BY <1>0, <1>2
<1>4. \A d2 \in D, k2 \in UserIdx :
        (d2 # d \/ k2 # k) /\ e[d2][k2] # NONE =>
          /\ e[d2][k2] \in Frames /\ e[d2][k2] # f /\ e[d2][k2] # d
          /\ e2[e[d2][k2]] = e[e[d2][k2]]
  <2> SUFFICES ASSUME NEW d2 \in D, NEW k2 \in UserIdx, d2 # d \/ k2 # k,
                      e[d2][k2] # NONE
               PROVE  /\ e[d2][k2] \in Frames /\ e[d2][k2] # f /\ e[d2][k2] # d
                      /\ e2[e[d2][k2]] = e[e[d2][k2]]
    OBVIOUS
  <2>1. e[d2][k2] \in Frames /\ own[e[d2][k2]] = TABLE(d2, k2)
    BY DEF Owned, UserOwned
  <2>2. e[d2][k2] # f /\ e[d2][k2] # d
    BY <2>1, <1>0, OwnerFacts
  <2> QED BY <2>1, <2>2, <1>2
<1>5. UserOwned(e2, D, own2)
  <2>1. \A g \in Frames : own2[g] = DIR <=> g \in D
    BY <1>0, <1>1, OwnerFacts DEF Owned, UserOwned
  <2>2. ASSUME NEW g \in Frames, NEW d2 \in Frames, NEW k2 \in Idx,
               own2[g] = TABLE(d2, k2)
        PROVE  d2 \in D /\ k2 \in UserIdx /\ e2[d2][k2] = g
    <3>1. CASE g = f
      <4>1. TABLE(d, k) = TABLE(d2, k2)
        BY <3>1, <2>2, <1>1
      <4>2. d2 = d /\ k2 = k
        BY <4>1, OwnerFacts
      <4> QED BY <4>2, <3>1, <1>2
    <3>2. CASE g # f
      <4>1. d2 \in D /\ k2 \in UserIdx /\ e[d2][k2] = g
        BY <3>2, <2>2, <1>1 DEF Owned, UserOwned
      <4>2. g # NONE
        BY <3>2, <2>2, <1>1, NoneOwned, OwnerFacts
      <4> QED BY <4>1, <4>2, <1>3
    <3> QED BY <3>1, <3>2
  <2>3. ASSUME NEW d2 \in D, NEW k2 \in UserIdx, e2[d2][k2] # NONE
        PROVE  e2[d2][k2] \in Frames /\ own2[e2[d2][k2]] = TABLE(d2, k2)
    <3>1. CASE d2 = d /\ k2 = k
      BY <3>1, <1>0, <1>1, <1>2
    <3>2. CASE d2 # d \/ k2 # k
      <4>1. e2[d2][k2] = e[d2][k2]
        BY <3>2, <1>3
      <4>2. own[e[d2][k2]] = TABLE(d2, k2)
        BY <4>1, <2>3 DEF Owned, UserOwned
      <4> QED BY <4>1, <4>2, <3>2, <2>3, <1>1, <1>4
    <3> QED BY <3>1, <3>2
  <2>4. ASSUME NEW g \in Frames, NEW d2 \in Frames, NEW k2 \in Idx, NEW j \in Idx,
               own2[g] = PAGE(d2, k2, j)
        PROVE  d2 \in D /\ k2 \in UserIdx /\ e2[d2][k2] # NONE /\ e2[e2[d2][k2]][j] = g
    <3>1. g # f /\ own[g] = PAGE(d2, k2, j)
      BY <2>4, <1>1, OwnerFacts
    <3>2. d2 \in D /\ k2 \in UserIdx /\ e[d2][k2] # NONE /\ e[e[d2][k2]][j] = g
      BY <3>1 DEF Owned, UserOwned
    <3>3. d2 # d \/ k2 # k
      BY <3>2
    <3> QED BY <3>2, <3>3, <1>3, <1>4
  <2>5. ASSUME NEW d2 \in D, NEW k2 \in UserIdx, NEW j \in Idx,
               e2[d2][k2] # NONE, e2[e2[d2][k2]][j] # NONE
        PROVE  /\ e2[e2[d2][k2]][j] \in Frames
               /\ own2[e2[e2[d2][k2]][j]] = PAGE(d2, k2, j)
    <3>1. d2 # d \/ k2 # k
      BY <2>5, <1>2
    <3>2. e2[d2][k2] = e[d2][k2] /\ e2[e[d2][k2]] = e[e[d2][k2]]
      BY <3>1, <2>5, <1>3, <1>4
    <3>3. e[e[d2][k2]][j] \in Frames /\ own[e[e[d2][k2]][j]] = PAGE(d2, k2, j)
      BY <3>2, <2>5 DEF Owned, UserOwned
    <3>4. e[e[d2][k2]][j] # f
      BY <3>3, <1>0, OwnerFacts
    <3> QED BY <3>2, <3>3, <3>4, <1>1
  <2> QED BY <2>1, <2>2, <2>3, <2>4, <2>5 DEF UserOwned
<1>6. KernelOwned(e2, R, end, own2)
  <2>1. \A g \in Frames : own2[g] = KERNEL <=> own[g] = KERNEL
    BY <1>0, <1>1, OwnerFacts
  <2>2. e2[KernelDir] = e[KernelDir]
    BY <1>0, <1>2 DEF Owned
  <2>3. \A i \in HeapIdx : e[KernelDir][i] # NONE =>
          e2[e[KernelDir][i]] = e[e[KernelDir][i]]
    <3> TAKE i \in HeapIdx
    <3> HAVE e[KernelDir][i] # NONE
    <3>1. /\ e[KernelDir][i] \in Frames
          /\ e[KernelDir][i] \notin D /\ e[KernelDir][i] \notin H
      BY KernelTables
    <3> QED BY <3>1, <1>0, <1>2
  <2> QED BY <2>1, <2>2, <2>3, KernelStays DEF Owned
<1>7. /\ \A g \in Frames : own2[g] = FREE <=> g \notin taken
      /\ \A g \in Frames : own2[g] = HELD <=> g \in H \ {f}
  BY <1>0, <1>1, OwnerFacts DEF Owned
<1>8. Alike(e2, D)
  <2>1. e2[KernelDir] = e[KernelDir]
    BY <1>0, <1>2 DEF Owned
  <2>2. \A d2 \in D, i \in KernelIdx : e2[d2][i] = e[d2][i]
    BY <1>0, <1>2, LayoutFacts
  <2> QED BY <2>1, <2>2 DEF Owned, Alike
<1>9. Owned(taken, e2, D, H \ {f}, R, end, own2)
  BY <1>1, <1>2, <1>5, <1>6, <1>7, <1>8 DEF Owned
<1> QED BY <1>9 DEF own2

\* The tables of D have different frames, none of which is a directory.
LEMMA TablesApart ==
  ASSUME NEW taken, NEW e, NEW D, NEW H, NEW R, NEW end, NEW own,
         Owned(taken, e, D, H, R, end, own),
         NEW d \in D, NEW k \in UserIdx, e[d][k] # NONE
  PROVE  /\ e[d][k] \in Frames /\ own[e[d][k]] = TABLE(d, k)
         /\ e[d][k] \notin D /\ e[d][k] \notin H /\ e[d][k] # KernelDir
         /\ e[d][k] \in taken
         /\ \A d2 \in D, k2 \in UserIdx : e[d2][k2] = e[d][k] => d2 = d /\ k2 = k
         /\ \A i \in HeapIdx : e[KernelDir][i] = e[d][k] => e[KernelDir][i] = NONE
<1>1. e[d][k] \in Frames /\ own[e[d][k]] = TABLE(d, k)
  BY DEF Owned, UserOwned
<1>2. e[d][k] \notin D /\ e[d][k] \notin H /\ e[d][k] \in taken
  BY <1>1, OwnerFacts DEF Owned, UserOwned
<1>3. e[d][k] # KernelDir
  BY <1>1, NoneOwned, OwnerFacts
<1>4. ASSUME NEW d2 \in D, NEW k2 \in UserIdx, e[d2][k2] = e[d][k]
      PROVE  d2 = d /\ k2 = k
  <2>1. own[e[d2][k2]] = TABLE(d2, k2)
    BY <1>4 DEF Owned, UserOwned
  <2> QED BY <2>1, <1>1, <1>4, OwnerFacts
<1>5. ASSUME NEW i \in HeapIdx, e[KernelDir][i] = e[d][k] PROVE e[KernelDir][i] = NONE
  BY <1>5, <1>1, KernelTables, OwnerFacts
<1> QED BY <1>1, <1>2, <1>3, <1>4, <1>5

\* The kernel owns what it did.
SameKernel(own, own2) == \A g \in Frames : own2[g] = KERNEL <=> own[g] = KERNEL

\* Writing entry j of user table e[d][k] leaves everything else alone.
LEMMA PageWritten ==
  ASSUME NEW taken, NEW e, NEW D, NEW H, NEW R, NEW end, NEW own,
         Owned(taken, e, D, H, R, end, own),
         NEW d \in D, NEW k \in UserIdx, NEW j \in Idx, e[d][k] # NONE,
         NEW e2, NEW f, EntryIs(e, e2, e[d][k], j, f),
         NEW own2, SameKernel(own, own2)
  PROVE  /\ \A d2 \in D : e2[d2] = e[d2]
         /\ \A d2 \in D, k2 \in UserIdx, i \in Idx :
              e[d2][k2] # NONE /\ (d2 # d \/ k2 # k \/ i # j) =>
                e2[e2[d2][k2]][i] = e[e[d2][k2]][i]
         /\ e2[e2[d][k]][j] = f
         /\ KernelOwned(e2, R, end, own2) /\ Alike(e2, D)
<1>1. /\ e[d][k] \in Frames /\ e[d][k] \notin D /\ e[d][k] # KernelDir
      /\ \A d2 \in D, k2 \in UserIdx : e[d2][k2] = e[d][k] => d2 = d /\ k2 = k
      /\ \A i \in HeapIdx : e[KernelDir][i] = e[d][k] => e[KernelDir][i] = NONE
  BY TablesApart
<1>2. /\ \A g \in Frames : g # e[d][k] => e2[g] = e[g]
      /\ e2[e[d][k]][j] = f /\ \A i \in Idx : i # j => e2[e[d][k]][i] = e[e[d][k]][i]
  BY DEF EntryIs
<1>3. \A d2 \in D : e2[d2] = e[d2]
  BY <1>1, <1>2 DEF Owned
<1>4. ASSUME NEW d2 \in D, NEW k2 \in UserIdx, NEW i \in Idx, e[d2][k2] # NONE,
             d2 # d \/ k2 # k \/ i # j
      PROVE  e2[e2[d2][k2]][i] = e[e[d2][k2]][i]
  <2>1. e[d2][k2] \in Frames
    BY <1>4 DEF Owned, UserOwned
  <2> QED BY <2>1, <1>1, <1>2, <1>3, <1>4
<1>5. e2[KernelDir] = e[KernelDir]
  BY <1>1, <1>2, NoneOwned
<1>6. KernelOwned(e2, R, end, own2)
  <2>1. \A i \in HeapIdx : e[KernelDir][i] # NONE =>
          e2[e[KernelDir][i]] = e[e[KernelDir][i]]
    BY <1>1, <1>2, KernelTables
  <2> QED BY <2>1, <1>5, KernelStays DEF Owned, SameKernel
<1>7. Alike(e2, D)
  BY <1>3, <1>5 DEF Owned, Alike
<1> QED BY <1>2, <1>3, <1>4, <1>6, <1>7

\* A held frame becomes page j of table k (__virt_map_page).
LEMMA LinkPage ==
  ASSUME NEW taken, NEW e, NEW D, NEW H, NEW R, NEW end, NEW own,
         Owned(taken, e, D, H, R, end, own),
         NEW d \in D, NEW k \in UserIdx, NEW j \in Idx, NEW f \in H,
         e[d][k] # NONE, e[e[d][k]][j] = NONE,
         NEW e2, EntryIs(e, e2, e[d][k], j, f)
  PROVE  Owned(taken, e2, D, H \ {f}, R, end, [own EXCEPT ![f] = PAGE(d, k, j)])
<1> DEFINE own2 == [own EXCEPT ![f] = PAGE(d, k, j)]
<1>0. /\ own \in [Frames -> Owners] /\ own[f] = HELD
      /\ d \in Frames /\ f \in Frames /\ f # NONE /\ f \notin D
      /\ k \in Idx /\ D \subseteq Frames
  <2>1. /\ own \in [Frames -> Owners] /\ d \in Frames /\ f \in Frames
        /\ D \subseteq Frames /\ own[f] = HELD
    BY DEF Owned
  <2>2. f \notin D
    BY <2>1, OwnerFacts DEF Owned, UserOwned
  <2>3. f # NONE
    BY <2>1, NoneOwned, OwnerFacts
  <2> QED BY <2>1, <2>2, <2>3, LayoutFacts
<1>1. /\ own2 \in [Frames -> Owners] /\ own2[f] = PAGE(d, k, j)
      /\ \A g \in Frames : g # f => own2[g] = own[g]
  BY <1>0, OwnerFacts
<1> HIDE DEF own2
<1>2. SameKernel(own, own2)
  BY <1>0, <1>1, OwnerFacts DEF SameKernel
<1>3. /\ \A d2 \in D : e2[d2] = e[d2]
      /\ \A d2 \in D, k2 \in UserIdx, i \in Idx :
           e[d2][k2] # NONE /\ (d2 # d \/ k2 # k \/ i # j) =>
             e2[e2[d2][k2]][i] = e[e[d2][k2]][i]
      /\ e2[e2[d][k]][j] = f
      /\ KernelOwned(e2, R, end, own2) /\ Alike(e2, D)
  BY <1>2, PageWritten
<1>5. UserOwned(e2, D, own2)
  <2>1. \A g \in Frames : own2[g] = DIR <=> g \in D
    BY <1>0, <1>1, OwnerFacts DEF Owned, UserOwned
  <2>2. ASSUME NEW g \in Frames, NEW d2 \in Frames, NEW k2 \in Idx,
               own2[g] = TABLE(d2, k2)
        PROVE  d2 \in D /\ k2 \in UserIdx /\ e2[d2][k2] = g
    <3>1. own[g] = TABLE(d2, k2)
      BY <2>2, <1>1, OwnerFacts
    <3> QED BY <3>1, <1>3 DEF Owned, UserOwned
  <2>3. ASSUME NEW d2 \in D, NEW k2 \in UserIdx, e2[d2][k2] # NONE
        PROVE  e2[d2][k2] \in Frames /\ own2[e2[d2][k2]] = TABLE(d2, k2)
    <3>1. e2[d2][k2] = e[d2][k2] /\ e[d2][k2] # NONE
      BY <2>3, <1>3
    <3>2. e[d2][k2] \in Frames /\ own[e[d2][k2]] = TABLE(d2, k2)
      BY <3>1 DEF Owned, UserOwned
    <3> QED BY <3>1, <3>2, <1>0, <1>1, OwnerFacts
  <2>4. ASSUME NEW g \in Frames, NEW d2 \in Frames, NEW k2 \in Idx, NEW i \in Idx,
               own2[g] = PAGE(d2, k2, i)
        PROVE  d2 \in D /\ k2 \in UserIdx /\ e2[d2][k2] # NONE /\ e2[e2[d2][k2]][i] = g
    <3>1. CASE g = f
      <4>1. PAGE(d, k, j) = PAGE(d2, k2, i)
        BY <3>1, <2>4, <1>1
      <4>2. d2 = d /\ k2 = k /\ i = j
        BY <4>1, OwnerFacts
      <4> QED BY <4>2, <3>1, <1>3
    <3>2. CASE g # f
      <4>1. d2 \in D /\ k2 \in UserIdx /\ e[d2][k2] # NONE /\ e[e[d2][k2]][i] = g
        BY <3>2, <2>4, <1>1 DEF Owned, UserOwned
      <4>2. g # NONE
        BY <3>2, <2>4, <1>1, NoneOwned, OwnerFacts
      <4>3. d2 # d \/ k2 # k \/ i # j
        BY <4>1, <4>2
      <4> QED BY <4>1, <4>3, <1>3
    <3> QED BY <3>1, <3>2
  <2>5. ASSUME NEW d2 \in D, NEW k2 \in UserIdx, NEW i \in Idx,
               e2[d2][k2] # NONE, e2[e2[d2][k2]][i] # NONE
        PROVE  /\ e2[e2[d2][k2]][i] \in Frames
               /\ own2[e2[e2[d2][k2]][i]] = PAGE(d2, k2, i)
    <3>1. CASE d2 = d /\ k2 = k /\ i = j
      BY <3>1, <1>0, <1>1, <1>3
    <3>2. CASE d2 # d \/ k2 # k \/ i # j
      <4>1. e[d2][k2] # NONE /\ e2[e2[d2][k2]][i] = e[e[d2][k2]][i]
        BY <3>2, <2>5, <1>3
      <4>2. e[e[d2][k2]][i] \in Frames /\ own[e[e[d2][k2]][i]] = PAGE(d2, k2, i)
        BY <4>1, <2>5 DEF Owned, UserOwned
      <4>3. e[e[d2][k2]][i] # f
        BY <4>2, <1>0, OwnerFacts
      <4> QED BY <4>1, <4>2, <4>3, <1>1
    <3> QED BY <3>1, <3>2
  <2> QED BY <2>1, <2>2, <2>3, <2>4, <2>5 DEF UserOwned
<1>7. /\ \A g \in Frames : own2[g] = FREE <=> g \notin taken
      /\ \A g \in Frames : own2[g] = HELD <=> g \in H \ {f}
  BY <1>0, <1>1, OwnerFacts DEF Owned
<1>8. e2 \in [Frames -> [Idx -> Nat]]
  BY DEF EntryIs
<1>9. Owned(taken, e2, D, H \ {f}, R, end, own2)
  BY <1>1, <1>3, <1>5, <1>7, <1>8 DEF Owned
<1> QED BY <1>9 DEF own2

\* The page leaves its table, and its frame is free (__virt_unmap_page).
LEMMA DropPage ==
  ASSUME NEW taken, NEW e, NEW D, NEW H, NEW R, NEW end, NEW own,
         Owned(taken, e, D, H, R, end, own),
         NEW d \in D, NEW k \in UserIdx, NEW j \in Idx,
         e[d][k] # NONE, e[e[d][k]][j] # NONE,
         NEW e2, EntryIs(e, e2, e[d][k], j, NONE)
  PROVE  Owned(taken \ {e[e[d][k]][j]}, e2, D, H, R, end,
               [own EXCEPT ![e[e[d][k]][j]] = FREE])
<1> DEFINE f == e[e[d][k]][j]
           own2 == [own EXCEPT ![f] = FREE]
<1>0. /\ own \in [Frames -> Owners] /\ own[f] = PAGE(d, k, j)
      /\ d \in Frames /\ f \in Frames /\ f \in taken
      /\ k \in Idx /\ D \subseteq Frames
  <2>1. own \in [Frames -> Owners] /\ d \in Frames /\ D \subseteq Frames
    BY DEF Owned
  <2>2. f \in Frames /\ own[f] = PAGE(d, k, j)
    BY DEF Owned, UserOwned
  <2>3. f \in taken
    BY <2>2, OwnerFacts DEF Owned
  <2> QED BY <2>1, <2>2, <2>3, LayoutFacts
<1>1. /\ own2 \in [Frames -> Owners] /\ own2[f] = FREE
      /\ \A g \in Frames : g # f => own2[g] = own[g]
  BY <1>0, OwnerFacts
<1>2. e[e[d][k]][j] = f
  OBVIOUS
<1> HIDE DEF own2, f
<1>3. SameKernel(own, own2)
  BY <1>0, <1>1, OwnerFacts DEF SameKernel
<1>4. /\ \A d2 \in D : e2[d2] = e[d2]
      /\ \A d2 \in D, k2 \in UserIdx, i \in Idx :
           e[d2][k2] # NONE /\ (d2 # d \/ k2 # k \/ i # j) =>
             e2[e2[d2][k2]][i] = e[e[d2][k2]][i]
      /\ e2[e2[d][k]][j] = NONE
      /\ KernelOwned(e2, R, end, own2) /\ Alike(e2, D)
  BY <1>3, PageWritten
<1>5. UserOwned(e2, D, own2)
  <2>1. \A g \in Frames : own2[g] = DIR <=> g \in D
    BY <1>0, <1>1, OwnerFacts DEF Owned, UserOwned
  <2>2. ASSUME NEW g \in Frames, NEW d2 \in Frames, NEW k2 \in Idx,
               own2[g] = TABLE(d2, k2)
        PROVE  d2 \in D /\ k2 \in UserIdx /\ e2[d2][k2] = g
    <3>1. own[g] = TABLE(d2, k2)
      BY <2>2, <1>1, OwnerFacts
    <3> QED BY <3>1, <1>4 DEF Owned, UserOwned
  <2>3. ASSUME NEW d2 \in D, NEW k2 \in UserIdx, e2[d2][k2] # NONE
        PROVE  e2[d2][k2] \in Frames /\ own2[e2[d2][k2]] = TABLE(d2, k2)
    <3>1. e2[d2][k2] = e[d2][k2] /\ e[d2][k2] # NONE
      BY <2>3, <1>4
    <3>2. e[d2][k2] \in Frames /\ own[e[d2][k2]] = TABLE(d2, k2)
      BY <3>1 DEF Owned, UserOwned
    <3> QED BY <3>1, <3>2, <1>0, <1>1, OwnerFacts
  <2>4. ASSUME NEW g \in Frames, NEW d2 \in Frames, NEW k2 \in Idx, NEW i \in Idx,
               own2[g] = PAGE(d2, k2, i)
        PROVE  d2 \in D /\ k2 \in UserIdx /\ e2[d2][k2] # NONE /\ e2[e2[d2][k2]][i] = g
    <3>1. g # f /\ own[g] = PAGE(d2, k2, i)
      BY <2>4, <1>1, OwnerFacts
    <3>2. d2 \in D /\ k2 \in UserIdx /\ e[d2][k2] # NONE /\ e[e[d2][k2]][i] = g
      BY <3>1 DEF Owned, UserOwned
    <3>3. d2 # d \/ k2 # k \/ i # j
      BY <3>1, <3>2, <1>2
    <3> QED BY <3>2, <3>3, <1>4
  <2>5. ASSUME NEW d2 \in D, NEW k2 \in UserIdx, NEW i \in Idx,
               e2[d2][k2] # NONE, e2[e2[d2][k2]][i] # NONE
        PROVE  /\ e2[e2[d2][k2]][i] \in Frames
               /\ own2[e2[e2[d2][k2]][i]] = PAGE(d2, k2, i)
    <3>1. d2 # d \/ k2 # k \/ i # j
      BY <2>5, <1>4
    <3>2. e[d2][k2] # NONE /\ e2[e2[d2][k2]][i] = e[e[d2][k2]][i]
      BY <3>1, <2>5, <1>4
    <3>3. e[e[d2][k2]][i] \in Frames /\ own[e[e[d2][k2]][i]] = PAGE(d2, k2, i)
      BY <3>2, <2>5 DEF Owned, UserOwned
    <3>4. e[e[d2][k2]][i] # f
      BY <3>3, <3>1, <1>0, OwnerFacts
    <3> QED BY <3>2, <3>3, <3>4, <1>1
  <2> QED BY <2>1, <2>2, <2>3, <2>4, <2>5 DEF UserOwned
<1>6. /\ \A g \in Frames : own2[g] = FREE <=> g \notin taken \ {f}
      /\ \A g \in Frames : own2[g] = HELD <=> g \in H
  BY <1>0, <1>1, OwnerFacts DEF Owned
<1>7. e2 \in [Frames -> [Idx -> Nat]]
  BY DEF EntryIs
<1>8. Owned(taken \ {f}, e2, D, H, R, end, own2)
  BY <1>1, <1>4, <1>5, <1>6, <1>7 DEF Owned
<1> QED BY <1>8 DEF own2, f

\* An empty table leaves its directory, and its frame is free.
LEMMA DropTable ==
  ASSUME NEW taken, NEW e, NEW D, NEW H, NEW R, NEW end, NEW own,
         Owned(taken, e, D, H, R, end, own),
         NEW d \in D, NEW k \in UserIdx, e[d][k] # NONE,
         \A j \in Idx : e[e[d][k]][j] = NONE,
         NEW e2, EntryIs(e, e2, d, k, NONE)
  PROVE  Owned(taken \ {e[d][k]}, e2, D, H, R, end, [own EXCEPT ![e[d][k]] = FREE])
<1> DEFINE t == e[d][k]
           own2 == [own EXCEPT ![t] = FREE]
<1>0. /\ own \in [Frames -> Owners] /\ own[t] = TABLE(d, k) /\ t \notin D
      /\ d \in Frames /\ t \in Frames /\ t \in taken /\ own[d] = DIR
      /\ k \in Idx /\ D \subseteq Frames /\ d # KernelDir /\ KernelDir \in Frames
  <2>1. own \in [Frames -> Owners] /\ d \in Frames /\ D \subseteq Frames /\ own[d] = DIR
    BY DEF Owned, UserOwned
  <2>2. t \in Frames /\ own[t] = TABLE(d, k) /\ t \notin D /\ t \in taken
    BY TablesApart
  <2> QED BY <2>1, <2>2, LayoutFacts, NoneOwned
<1>1. /\ own2 \in [Frames -> Owners] /\ own2[t] = FREE
      /\ \A g \in Frames : g # t => own2[g] = own[g]
  BY <1>0, OwnerFacts
<1>2. e[d][k] = t
  OBVIOUS
<1> HIDE DEF own2, t
<1>3. /\ e2 \in [Frames -> [Idx -> Nat]]
      /\ \A g \in Frames : g # d => e2[g] = e[g]
      /\ e2[d][k] = NONE /\ \A i \in Idx : i # k => e2[d][i] = e[d][i]
  BY DEF EntryIs
<1>4. \A d2 \in D, k2 \in UserIdx : d2 # d \/ k2 # k => e2[d2][k2] = e[d2][k2]
  BY <1>0, <1>3, LayoutFacts
<1>5. \A d2 \in D, k2 \in UserIdx :
        (d2 # d \/ k2 # k) /\ e[d2][k2] # NONE =>
          /\ e[d2][k2] \in Frames /\ e[d2][k2] # t /\ e2[e[d2][k2]] = e[e[d2][k2]]
          /\ own[e[d2][k2]] = TABLE(d2, k2)
  <2> SUFFICES ASSUME NEW d2 \in D, NEW k2 \in UserIdx, d2 # d \/ k2 # k,
                      e[d2][k2] # NONE
               PROVE  /\ e[d2][k2] \in Frames /\ e[d2][k2] # t
                      /\ e2[e[d2][k2]] = e[e[d2][k2]]
                      /\ own[e[d2][k2]] = TABLE(d2, k2)
    OBVIOUS
  <2>1. e[d2][k2] \in Frames /\ own[e[d2][k2]] = TABLE(d2, k2)
    BY DEF Owned, UserOwned
  <2>2. e[d2][k2] # t /\ e[d2][k2] # d
    BY <2>1, <1>0, OwnerFacts
  <2> QED BY <2>1, <2>2, <1>3
<1>6. UserOwned(e2, D, own2)
  <2>1. \A g \in Frames : own2[g] = DIR <=> g \in D
    BY <1>0, <1>1, OwnerFacts DEF Owned, UserOwned
  <2>2. ASSUME NEW g \in Frames, NEW d2 \in Frames, NEW k2 \in Idx,
               own2[g] = TABLE(d2, k2)
        PROVE  d2 \in D /\ k2 \in UserIdx /\ e2[d2][k2] = g
    <3>1. g # t /\ own[g] = TABLE(d2, k2)
      BY <2>2, <1>1, OwnerFacts
    <3>2. d2 \in D /\ k2 \in UserIdx /\ e[d2][k2] = g
      BY <3>1 DEF Owned, UserOwned
    <3>3. d2 # d \/ k2 # k
      BY <3>1, <3>2, <1>2
    <3> QED BY <3>2, <3>3, <1>4
  <2>3. ASSUME NEW d2 \in D, NEW k2 \in UserIdx, e2[d2][k2] # NONE
        PROVE  e2[d2][k2] \in Frames /\ own2[e2[d2][k2]] = TABLE(d2, k2)
    <3>1. d2 # d \/ k2 # k
      BY <2>3, <1>3
    <3>2. e2[d2][k2] = e[d2][k2] /\ e[d2][k2] # NONE
      BY <2>3, <3>1, <1>4
    <3> QED BY <3>1, <3>2, <1>5, <1>1
  <2>4. ASSUME NEW g \in Frames, NEW d2 \in Frames, NEW k2 \in Idx, NEW i \in Idx,
               own2[g] = PAGE(d2, k2, i)
        PROVE  d2 \in D /\ k2 \in UserIdx /\ e2[d2][k2] # NONE /\ e2[e2[d2][k2]][i] = g
    <3>1. g # t /\ own[g] = PAGE(d2, k2, i)
      BY <2>4, <1>1, OwnerFacts
    <3>2. d2 \in D /\ k2 \in UserIdx /\ e[d2][k2] # NONE /\ e[e[d2][k2]][i] = g
      BY <3>1 DEF Owned, UserOwned
    <3>3. g # NONE
      BY <3>1, NoneOwned, OwnerFacts
    <3>4. d2 # d \/ k2 # k
      BY <3>2, <3>3
    <3> QED BY <3>2, <3>4, <1>4, <1>5
  <2>5. ASSUME NEW d2 \in D, NEW k2 \in UserIdx, NEW i \in Idx,
               e2[d2][k2] # NONE, e2[e2[d2][k2]][i] # NONE
        PROVE  /\ e2[e2[d2][k2]][i] \in Frames
               /\ own2[e2[e2[d2][k2]][i]] = PAGE(d2, k2, i)
    <3>1. d2 # d \/ k2 # k
      BY <2>5, <1>3
    <3>2. /\ e2[d2][k2] = e[d2][k2] /\ e[d2][k2] # NONE
          /\ e2[e[d2][k2]] = e[e[d2][k2]]
      BY <3>1, <2>5, <1>4, <1>5
    <3>3. e[e[d2][k2]][i] \in Frames /\ own[e[e[d2][k2]][i]] = PAGE(d2, k2, i)
      BY <3>2, <2>5 DEF Owned, UserOwned
    <3>4. e[e[d2][k2]][i] # t
      BY <3>3, <1>0, OwnerFacts
    <3> QED BY <3>2, <3>3, <3>4, <1>1
  <2> QED BY <2>1, <2>2, <2>3, <2>4, <2>5 DEF UserOwned
<1>7. e2[KernelDir] = e[KernelDir]
  BY <1>0, <1>3
<1>8. KernelOwned(e2, R, end, own2)
  <2>1. \A g \in Frames : own2[g] = KERNEL <=> own[g] = KERNEL
    BY <1>0, <1>1, OwnerFacts
  <2>2. \A i \in HeapIdx : e[KernelDir][i] # NONE =>
          e2[e[KernelDir][i]] = e[e[KernelDir][i]]
    BY <1>3, KernelTables
  <2> QED BY <2>1, <2>2, <1>7, KernelStays DEF Owned
<1>9. /\ \A g \in Frames : own2[g] = FREE <=> g \notin taken \ {t}
      /\ \A g \in Frames : own2[g] = HELD <=> g \in H
  BY <1>0, <1>1, OwnerFacts DEF Owned
<1>10. Alike(e2, D)
  <2>1. \A d2 \in D, i \in KernelIdx : e2[d2][i] = e[d2][i]
    BY <1>0, <1>3, LayoutFacts
  <2> QED BY <2>1, <1>7 DEF Owned, Alike
<1>11. Owned(taken \ {t}, e2, D, H, R, end, own2)
  BY <1>1, <1>3, <1>6, <1>8, <1>9, <1>10 DEF Owned
<1> QED BY <1>11 DEF own2, t

\* A directory without tables of its own is freed.
LEMMA DropDir ==
  ASSUME NEW taken, NEW e, NEW D, NEW H, NEW R, NEW end, NEW own,
         Owned(taken, e, D, H, R, end, own),
         NEW d \in D, \A k \in UserIdx : e[d][k] = NONE
  PROVE  Owned(taken \ {d}, e, D \ {d}, H, R, end, [own EXCEPT ![d] = FREE])
<1> DEFINE own2 == [own EXCEPT ![d] = FREE]
<1>0. /\ own \in [Frames -> Owners] /\ own[d] = DIR /\ d \in Frames
      /\ D \subseteq Frames /\ d \in taken
  BY OwnerFacts DEF Owned, UserOwned
<1>1. /\ own2 \in [Frames -> Owners] /\ own2[d] = FREE
      /\ \A g \in Frames : g # d => own2[g] = own[g]
  BY <1>0, OwnerFacts
<1> HIDE DEF own2
<1>2. UserOwned(e, D \ {d}, own2)
  <2>1. \A g \in Frames : own2[g] = DIR <=> g \in D \ {d}
    BY <1>0, <1>1, OwnerFacts DEF Owned, UserOwned
  <2>2. ASSUME NEW g \in Frames, NEW d2 \in Frames, NEW k \in Idx,
               own2[g] = TABLE(d2, k)
        PROVE  d2 \in D \ {d} /\ k \in UserIdx /\ e[d2][k] = g
    <3>1. own[g] = TABLE(d2, k)
      BY <2>2, <1>1, OwnerFacts
    <3>2. d2 \in D /\ k \in UserIdx /\ e[d2][k] = g
      BY <3>1 DEF Owned, UserOwned
    <3>3. g # NONE
      BY <3>1, NoneOwned, OwnerFacts
    <3> QED BY <3>2, <3>3
  <2>3. ASSUME NEW d2 \in D \ {d}, NEW k \in UserIdx, e[d2][k] # NONE
        PROVE  e[d2][k] \in Frames /\ own2[e[d2][k]] = TABLE(d2, k)
    <3>1. e[d2][k] \in Frames /\ own[e[d2][k]] = TABLE(d2, k)
      BY <2>3 DEF Owned, UserOwned
    <3> QED BY <3>1, <1>0, <1>1, OwnerFacts
  <2>4. ASSUME NEW g \in Frames, NEW d2 \in Frames, NEW k \in Idx, NEW i \in Idx,
               own2[g] = PAGE(d2, k, i)
        PROVE  d2 \in D \ {d} /\ k \in UserIdx /\ e[d2][k] # NONE /\ e[e[d2][k]][i] = g
    <3>1. own[g] = PAGE(d2, k, i)
      BY <2>4, <1>1, OwnerFacts
    <3> QED BY <3>1 DEF Owned, UserOwned
  <2>5. ASSUME NEW d2 \in D \ {d}, NEW k \in UserIdx, NEW i \in Idx,
               e[d2][k] # NONE, e[e[d2][k]][i] # NONE
        PROVE  e[e[d2][k]][i] \in Frames /\ own2[e[e[d2][k]][i]] = PAGE(d2, k, i)
    <3>1. e[e[d2][k]][i] \in Frames /\ own[e[e[d2][k]][i]] = PAGE(d2, k, i)
      BY <2>5 DEF Owned, UserOwned
    <3> QED BY <3>1, <1>0, <1>1, OwnerFacts
  <2> QED BY <2>1, <2>2, <2>3, <2>4, <2>5 DEF UserOwned
<1>3. KernelOwned(e, R, end, own2)
  <2>1. \A g \in Frames : own2[g] = KERNEL <=> own[g] = KERNEL
    BY <1>0, <1>1, OwnerFacts
  <2> QED BY <2>1, KernelStays DEF Owned
<1>4. /\ \A g \in Frames : own2[g] = FREE <=> g \notin taken \ {d}
      /\ \A g \in Frames : own2[g] = HELD <=> g \in H
  BY <1>0, <1>1, OwnerFacts DEF Owned
<1>5. Owned(taken \ {d}, e, D \ {d}, H, R, end, own2)
  BY <1>1, <1>2, <1>3, <1>4 DEF Owned, Alike
<1> QED BY <1>5 DEF own2

\* e2 is e but for c, a directory without tables of its own that has those of
\* the kernel as directory d has them.
DirIs(e, e2, d, c) ==
  /\ e2 \in [Frames -> [Idx -> Nat]]
  /\ \A g \in Frames : g # c => e2[g] = e[g]
  /\ \A k \in UserIdx : e2[c][k] = NONE
  /\ \A k \in KernelIdx : e2[c][k] = e[d][k]

\* A held frame becomes a directory (__virt_clone_directory).
LEMMA NewDir ==
  ASSUME NEW taken, NEW e, NEW D, NEW H, NEW R, NEW end, NEW own,
         Owned(taken, e, D, H, R, end, own),
         NEW d \in D \cup {KernelDir}, NEW c \in H, NEW e2, DirIs(e, e2, d, c)
  PROVE  Owned(taken, e2, D \cup {c}, H \ {c}, R, end, [own EXCEPT ![c] = DIR])
<1> DEFINE own2 == [own EXCEPT ![c] = DIR]
<1>0. /\ own \in [Frames -> Owners] /\ own[c] = HELD /\ c \in Frames
      /\ D \subseteq Frames /\ c \notin D /\ c # KernelDir /\ KernelDir \in Frames
      /\ c # d /\ d \in Frames /\ c # NONE
  <2>1. own \in [Frames -> Owners] /\ own[c] = HELD /\ c \in Frames /\ D \subseteq Frames
    BY DEF Owned
  <2>2. c # KernelDir /\ KernelDir \in Frames /\ c # NONE
    BY <2>1, NoneOwned, OwnerFacts
  <2>3. c \notin D
    BY <2>1, OwnerFacts DEF Owned, UserOwned
  <2> QED BY <2>1, <2>2, <2>3
<1>1. /\ own2 \in [Frames -> Owners] /\ own2[c] = DIR
      /\ \A g \in Frames : g # c => own2[g] = own[g]
  BY <1>0, OwnerFacts
<1> HIDE DEF own2
<1>2. /\ e2 \in [Frames -> [Idx -> Nat]]
      /\ \A g \in Frames : g # c => e2[g] = e[g]
      /\ \A k \in UserIdx : e2[c][k] = NONE
      /\ \A k \in KernelIdx : e2[c][k] = e[d][k]
  BY DEF DirIs
<1>3. \A d2 \in D : e2[d2] = e[d2]
  BY <1>0, <1>2
<1>4. \A d2 \in D, k \in UserIdx : e[d2][k] # NONE =>
        e2[e[d2][k]] = e[e[d2][k]]
  BY <1>2, TablesApart
<1>5. UserOwned(e2, D \cup {c}, own2)
  <2>1. \A g \in Frames : own2[g] = DIR <=> g \in D \cup {c}
    BY <1>0, <1>1, OwnerFacts DEF Owned, UserOwned
  <2>2. ASSUME NEW g \in Frames, NEW d2 \in Frames, NEW k \in Idx,
               own2[g] = TABLE(d2, k)
        PROVE  d2 \in D \cup {c} /\ k \in UserIdx /\ e2[d2][k] = g
    <3>1. own[g] = TABLE(d2, k)
      BY <2>2, <1>1, OwnerFacts
    <3>2. d2 \in D /\ k \in UserIdx /\ e[d2][k] = g
      BY <3>1 DEF Owned, UserOwned
    <3> QED BY <3>2, <1>3
  <2>3. ASSUME NEW d2 \in D \cup {c}, NEW k \in UserIdx, e2[d2][k] # NONE
        PROVE  e2[d2][k] \in Frames /\ own2[e2[d2][k]] = TABLE(d2, k)
    <3>1. d2 \in D /\ e2[d2][k] = e[d2][k]
      BY <2>3, <1>2, <1>3
    <3>2. e[d2][k] \in Frames /\ own[e[d2][k]] = TABLE(d2, k)
      BY <2>3, <3>1 DEF Owned, UserOwned
    <3> QED BY <3>1, <3>2, <1>0, <1>1, OwnerFacts
  <2>4. ASSUME NEW g \in Frames, NEW d2 \in Frames, NEW k \in Idx, NEW i \in Idx,
               own2[g] = PAGE(d2, k, i)
        PROVE  /\ d2 \in D \cup {c} /\ k \in UserIdx /\ e2[d2][k] # NONE
               /\ e2[e2[d2][k]][i] = g
    <3>1. own[g] = PAGE(d2, k, i)
      BY <2>4, <1>1, OwnerFacts
    <3>2. d2 \in D /\ k \in UserIdx /\ e[d2][k] # NONE /\ e[e[d2][k]][i] = g
      BY <3>1 DEF Owned, UserOwned
    <3> QED BY <3>2, <1>3, <1>4
  <2>5. ASSUME NEW d2 \in D \cup {c}, NEW k \in UserIdx, NEW i \in Idx,
               e2[d2][k] # NONE, e2[e2[d2][k]][i] # NONE
        PROVE  e2[e2[d2][k]][i] \in Frames /\ own2[e2[e2[d2][k]][i]] = PAGE(d2, k, i)
    <3>1. d2 \in D /\ e2[d2][k] = e[d2][k]
      BY <2>5, <1>2, <1>3
    <3>2. e2[e[d2][k]] = e[e[d2][k]]
      BY <2>5, <3>1, <1>4
    <3>3. e[e[d2][k]][i] \in Frames /\ own[e[e[d2][k]][i]] = PAGE(d2, k, i)
      BY <2>5, <3>1, <3>2 DEF Owned, UserOwned
    <3> QED BY <3>1, <3>2, <3>3, <1>0, <1>1, OwnerFacts
  <2> QED BY <2>1, <2>2, <2>3, <2>4, <2>5 DEF UserOwned
<1>6. e2[KernelDir] = e[KernelDir]
  BY <1>0, <1>2
<1>7. KernelOwned(e2, R, end, own2)
  <2>1. \A g \in Frames : own2[g] = KERNEL <=> own[g] = KERNEL
    BY <1>0, <1>1, OwnerFacts
  <2>2. \A i \in HeapIdx : e[KernelDir][i] # NONE =>
          e2[e[KernelDir][i]] = e[e[KernelDir][i]]
    BY <1>2, KernelTables
  <2> QED BY <2>1, <2>2, <1>6, KernelStays DEF Owned
<1>8. /\ \A g \in Frames : own2[g] = FREE <=> g \notin taken
      /\ \A g \in Frames : own2[g] = HELD <=> g \in H \ {c}
  BY <1>0, <1>1, OwnerFacts DEF Owned
<1>9. Alike(e2, D \cup {c})
  <2>1. \A k \in KernelIdx : \/ e[d][k] = e[KernelDir][k]
                             \/ k >= HEAP_START \div ENTRIES /\ e[d][k] = NONE
    BY DEF Owned, Alike
  <2> QED BY <2>1, <1>2, <1>3, <1>6 DEF Owned, Alike
<1>10. Owned(taken, e2, D \cup {c}, H \ {c}, R, end, own2)
  BY <1>0, <1>1, <1>2, <1>5, <1>7, <1>8, <1>9 DEF Owned
<1> QED BY <1>10 DEF own2

-----------------------------------------------------------------------------
(* The kernel's tables.                                                    *)

\* What changes hands between nobody and the kernel.
SameUsers(own, own2) ==
  \A f \in Frames : \/ own2[f] = own[f]
                    \/ {own[f], own2[f]} \subseteq {FREE, HELD, KERNEL}

\* The users' part stays if their entries do.
LEMMA UserStays ==
  ASSUME NEW e, NEW D, NEW own, NEW e2, NEW own2, D \subseteq Frames,
         UserOwned(e, D, own), SameUsers(own, own2),
         \A d \in D, k \in UserIdx : e2[d][k] = e[d][k],
         \A d \in D, k \in UserIdx : e[d][k] # NONE => e2[e[d][k]] = e[e[d][k]]
  PROVE  UserOwned(e2, D, own2)
<1>1. \A f \in Frames : \A d, k : own2[f] = TABLE(d, k) <=> own[f] = TABLE(d, k)
  BY OwnerFacts DEF SameUsers
<1>2. \A f \in Frames : \A d, k, j : own2[f] = PAGE(d, k, j) <=> own[f] = PAGE(d, k, j)
  BY OwnerFacts DEF SameUsers
<1>3. \A f \in Frames : own2[f] = DIR <=> f \in D
  BY OwnerFacts DEF SameUsers, UserOwned
<1>4. \A f \in Frames, d \in Frames, k \in Idx : own2[f] = TABLE(d, k) =>
        d \in D /\ k \in UserIdx /\ e2[d][k] = f
  BY <1>1 DEF UserOwned
<1>5. \A d \in D, k \in UserIdx : e2[d][k] # NONE =>
        e2[d][k] \in Frames /\ own2[e2[d][k]] = TABLE(d, k)
  BY <1>1 DEF UserOwned
<1>6. \A f \in Frames, d \in Frames, k \in Idx, j \in Idx :
        own2[f] = PAGE(d, k, j) =>
          d \in D /\ k \in UserIdx /\ e2[d][k] # NONE /\ e2[e2[d][k]][j] = f
  BY <1>2 DEF UserOwned
<1>7. \A d \in D, k \in UserIdx, j \in Idx :
        e2[d][k] # NONE /\ e2[e2[d][k]][j] # NONE =>
          e2[e2[d][k]][j] \in Frames /\ own2[e2[e2[d][k]][j]] = PAGE(d, k, j)
  BY <1>2 DEF UserOwned
<1> QED BY <1>3, <1>4, <1>5, <1>6, <1>7 DEF UserOwned

\* A page of the heap lies in the kernel's tables.
LEMMA HeapPageFacts ==
  ASSUME NEW page \in Nat, HEAP_START <= page, page <= HEAP_MAX
  PROVE  page \div ENTRIES \in HeapIdx /\ page % ENTRIES \in Idx
<1>1. \A a, b, E \in Nat : E > 0 /\ a <= b => a \div E <= b \div E /\ a \div E \in Nat
  OBVIOUS
<1>2. \A a, E \in Nat : E > 0 => a % E \in 0 .. (E - 1)
  OBVIOUS
<1> QED BY <1>1, <1>2, LayoutFacts DEF HeapIdx, Idx, LAST

\* A held frame becomes table k of the kernel's directory.
LEMMA LinkKernelTable ==
  ASSUME NEW taken, NEW e, NEW D, NEW H, NEW R, NEW end, NEW own,
         Owned(taken, e, D, H, R, end, own),
         NEW k \in HeapIdx, NEW f \in H, e[KernelDir][k] = NONE,
         NEW e2, TableIs(e, e2, KernelDir, k, f)
  PROVE  Owned(taken, e2, D, H \ {f}, R, end, [own EXCEPT ![f] = KERNEL])
<1> DEFINE own2 == [own EXCEPT ![f] = KERNEL]
<1>0. /\ own \in [Frames -> Owners] /\ own[f] = HELD /\ f \in Frames /\ f # NONE
      /\ f \notin D /\ KernelDir \notin D /\ KernelDir \in Frames /\ f # KernelDir
      /\ D \subseteq Frames /\ k \in Idx
  <2>1. own \in [Frames -> Owners] /\ own[f] = HELD /\ f \in Frames /\ D \subseteq Frames
    BY DEF Owned
  <2>2. f \notin D
    BY <2>1, OwnerFacts DEF Owned, UserOwned
  <2>3. f # NONE /\ KernelDir \notin D /\ KernelDir \in Frames /\ f # KernelDir
    BY <2>1, NoneOwned, OwnerFacts
  <2> QED BY <2>1, <2>2, <2>3, LayoutFacts
<1>1. /\ own2 \in [Frames -> Owners] /\ own2[f] = KERNEL
      /\ \A g \in Frames : g # f => own2[g] = own[g]
  BY <1>0, OwnerFacts
<1> HIDE DEF own2
<1>2. /\ e2 \in [Frames -> [Idx -> Nat]]
      /\ \A g \in Frames : g # KernelDir /\ g # f => e2[g] = e[g]
      /\ e2[KernelDir][k] = f
      /\ \A i \in Idx : i # k => e2[KernelDir][i] = e[KernelDir][i]
      /\ \A i \in Idx : e2[f][i] = NONE
  BY DEF TableIs
<1>3. UserOwned(e2, D, own2)
  <2>1. SameUsers(own, own2)
    BY <1>0, <1>1 DEF SameUsers
  <2>2. \A d \in D, i \in UserIdx : e2[d][i] = e[d][i]
    BY <1>0, <1>2
  <2>3. \A d \in D, i \in UserIdx : e[d][i] # NONE => e2[e[d][i]] = e[e[d][i]]
    <3> TAKE d \in D, i \in UserIdx
    <3> HAVE e[d][i] # NONE
    <3>1. e[d][i] \in Frames /\ e[d][i] \notin H /\ e[d][i] # KernelDir
      BY TablesApart
    <3> QED BY <3>1, <1>2
  <2> QED BY <2>1, <2>2, <2>3, <1>0, UserStays DEF Owned
<1>4. \A page \in HEAP_START .. (end - 1) :
        FrameOf(e2, KernelDir, page) = FrameOf(e, KernelDir, page)
  <2> TAKE page \in HEAP_START .. (end - 1)
  <2>1. page \in Nat /\ HEAP_START <= page /\ page <= HEAP_MAX
    BY LayoutFacts DEF Owned, KernelOwned
  <2>2. page \div ENTRIES \in HeapIdx /\ page % ENTRIES \in Idx
    BY <2>1, HeapPageFacts
  <2>3. FrameOf(e, KernelDir, page) # NONE
    BY DEF Owned, KernelOwned
  <2>4. e[KernelDir][page \div ENTRIES] # NONE
    BY <2>3 DEF FrameOf
  <2>5. /\ e[KernelDir][page \div ENTRIES] \in Frames
        /\ e[KernelDir][page \div ENTRIES] # KernelDir
        /\ e[KernelDir][page \div ENTRIES] \notin H
    BY <2>2, <2>4, KernelTables
  <2>6. e2[KernelDir][page \div ENTRIES] = e[KernelDir][page \div ENTRIES]
    BY <2>2, <2>4, <1>2, LayoutFacts
  <2>7. e2[e[KernelDir][page \div ENTRIES]] = e[e[KernelDir][page \div ENTRIES]]
    BY <2>5, <1>2
  <2> QED BY <2>6, <2>7 DEF FrameOf
<1>5. KernelPart(e2, R, end) = KernelPart(e, R, end) \cup {f}
  <2>1. HeapPages(e2, end) = HeapPages(e, end)
    BY <1>4 DEF HeapPages
  <2>2. {e2[KernelDir][i] : i \in HeapIdx} \ {NONE}
          = ({e[KernelDir][i] : i \in HeapIdx} \ {NONE}) \cup {f}
    <3>1. \A i \in HeapIdx : i # k => e2[KernelDir][i] = e[KernelDir][i]
      BY <1>2, LayoutFacts
    <3>2. ASSUME NEW i \in HeapIdx, e[KernelDir][i] # NONE
          PROVE  i # k /\ e2[KernelDir][i] = e[KernelDir][i]
      BY <3>1, <3>2
    <3>3. ASSUME NEW i \in HeapIdx, e2[KernelDir][i] # NONE
          PROVE  e2[KernelDir][i] = f \/ e2[KernelDir][i] = e[KernelDir][i]
      BY <3>1, <1>2
    <3> QED BY <3>2, <3>3, <1>0, <1>2
  <2> QED BY <2>1, <2>2 DEF KernelPart
<1>6. KernelOwned(e2, R, end, own2)
  <2>1. \A g \in Frames : own2[g] = KERNEL <=> g \in KernelPart(e2, R, end)
    BY <1>0, <1>1, <1>5 DEF Owned, KernelOwned
  <2>2. \A i \in HeapIdx : e2[KernelDir][i] # NONE =>
          e2[KernelDir][i] \in Frames \ {KernelDir}
    <3>1. \A i \in HeapIdx : i # k => e2[KernelDir][i] = e[KernelDir][i]
      BY <1>2, LayoutFacts
    <3> QED BY <3>1, <1>0, <1>2 DEF Owned, KernelOwned
  <2>3. \A i \in UserIdx : e2[KernelDir][i] = NONE
    <3>1. \A i \in UserIdx : i \in Idx /\ i # k
      BY LayoutFacts DEF UserIdx, HeapIdx
    <3> QED BY <3>1, <1>2 DEF Owned, KernelOwned
  <2> QED BY <2>1, <2>2, <2>3, <1>0, <1>4 DEF Owned, KernelOwned
<1>7. Alike(e2, D)
  <2>1. \A d \in D : e2[d] = e[d]
    BY <1>0, <1>2
  <2>2. ASSUME NEW d \in D, NEW i \in KernelIdx
        PROVE  \/ e2[d][i] = e2[KernelDir][i]
               \/ i >= HEAP_START \div ENTRIES /\ e2[d][i] = NONE
    <3>1. \/ e[d][i] = e[KernelDir][i]
          \/ i >= HEAP_START \div ENTRIES /\ e[d][i] = NONE
      BY DEF Owned, Alike
    <3>2. CASE i # k
      BY <3>1, <3>2, <2>1, <1>2, LayoutFacts
    <3>3. CASE i = k
      <4>1. k >= HEAP_START \div ENTRIES
        BY LayoutFacts DEF HeapIdx
      <4> QED BY <4>1, <3>1, <3>3, <2>1
    <3> QED BY <3>2, <3>3
  <2> QED BY <2>2 DEF Alike
<1>8. /\ \A g \in Frames : own2[g] = FREE <=> g \notin taken
      /\ \A g \in Frames : own2[g] = HELD <=> g \in H \ {f}
  BY <1>0, <1>1, OwnerFacts DEF Owned
<1>9. Owned(taken, e2, D, H \ {f}, R, end, own2)
  BY <1>1, <1>2, <1>3, <1>6, <1>7, <1>8 DEF Owned
<1> QED BY <1>9 DEF own2

\* An entry of one of the kernel's tables that was empty is written.
LEMMA WriteKernelEntry ==
  ASSUME NEW taken, NEW e, NEW D, NEW H, NEW R, NEW end, NEW own,
         Owned(taken, e, D, H, R, end, own),
         NEW k \in HeapIdx, NEW j \in Idx, e[KernelDir][k] # NONE,
         e[e[KernelDir][k]][j] = NONE,
         NEW e2, NEW f, EntryIs(e, e2, e[KernelDir][k], j, f)
  PROVE  Owned(taken, e2, D, H, R, end, own)
<1> DEFINE t == e[KernelDir][k]
<1>0. /\ t \in Frames /\ t # KernelDir /\ t \notin D /\ own[t] = KERNEL
      /\ KernelDir \in Frames
  BY KernelTables, NoneOwned
<1>1. /\ e2 \in [Frames -> [Idx -> Nat]]
      /\ \A g \in Frames : g # t => e2[g] = e[g]
      /\ e2[t][j] = f /\ \A i \in Idx : i # j => e2[t][i] = e[t][i]
  BY DEF EntryIs
<1>2. e[KernelDir][k] = t /\ e[t][j] = NONE
  OBVIOUS
<1> HIDE DEF t
<1>3. UserOwned(e2, D, own)
  <2>1. SameUsers(own, own)
    BY DEF SameUsers
  <2>2. \A d \in D, i \in UserIdx : e2[d][i] = e[d][i]
    BY <1>0, <1>1 DEF Owned
  <2>3. \A d \in D, i \in UserIdx : e[d][i] # NONE => e2[e[d][i]] = e[e[d][i]]
    <3> TAKE d \in D, i \in UserIdx
    <3> HAVE e[d][i] # NONE
    <3>1. e[d][i] \in Frames /\ own[e[d][i]] = TABLE(d, i)
      BY TablesApart
    <3> QED BY <3>1, <1>0, <1>1, OwnerFacts
  <2> QED BY <2>1, <2>2, <2>3, UserStays DEF Owned
<1>4. e2[KernelDir] = e[KernelDir]
  BY <1>0, <1>1
<1>5. \A page \in HEAP_START .. (end - 1) :
        FrameOf(e2, KernelDir, page) = FrameOf(e, KernelDir, page)
  <2> TAKE page \in HEAP_START .. (end - 1)
  <2>1. page \in Nat /\ HEAP_START <= page /\ page <= HEAP_MAX
    BY LayoutFacts DEF Owned, KernelOwned
  <2>2. page \div ENTRIES \in HeapIdx /\ page % ENTRIES \in Idx
    BY <2>1, HeapPageFacts
  <2>3. FrameOf(e, KernelDir, page) # NONE
    BY DEF Owned, KernelOwned
  <2>4. /\ e[KernelDir][page \div ENTRIES] # NONE
        /\ e[e[KernelDir][page \div ENTRIES]][page % ENTRIES] # NONE
    BY <2>3 DEF FrameOf
  <2>5. e[KernelDir][page \div ENTRIES] \in Frames
    BY <2>2, <2>4, KernelTables
  <2>6. e2[e[KernelDir][page \div ENTRIES]][page % ENTRIES]
          = e[e[KernelDir][page \div ENTRIES]][page % ENTRIES]
    BY <2>2, <2>4, <2>5, <1>1, <1>2
  <2> QED BY <2>4, <2>6, <1>4 DEF FrameOf
<1>6. KernelPart(e2, R, end) = KernelPart(e, R, end)
  <2>1. HeapPages(e2, end) = HeapPages(e, end)
    BY <1>5 DEF HeapPages
  <2> QED BY <2>1, <1>4 DEF KernelPart
<1>7. KernelOwned(e2, R, end, own)
  BY <1>4, <1>5, <1>6 DEF Owned, KernelOwned
<1>8. Alike(e2, D)
  <2>1. \A d \in D : e2[d] = e[d]
    BY <1>0, <1>1 DEF Owned
  <2> QED BY <2>1, <1>4 DEF Owned, Alike
<1> QED BY <1>1, <1>3, <1>7, <1>8 DEF Owned

\* A held frame that is mapped at the end of the heap makes the heap longer.
LEMMA LengthenHeap ==
  ASSUME NEW taken, NEW e, NEW D, NEW H, NEW R, NEW end, NEW own,
         Owned(taken, e, D, H, R, end, own),
         HEAP_START <= end, end <= HEAP_MAX,
         NEW f \in H, FrameOf(e, KernelDir, end) = f
  PROVE  Owned(taken, e, D, H \ {f}, R, end + 1, [own EXCEPT ![f] = KERNEL])
<1> DEFINE own2 == [own EXCEPT ![f] = KERNEL]
<1>0. /\ own \in [Frames -> Owners] /\ own[f] = HELD /\ f \in Frames /\ f # NONE
      /\ end \in Nat /\ D \subseteq Frames
  <2>1. /\ own \in [Frames -> Owners] /\ own[f] = HELD /\ f \in Frames
        /\ end \in Nat /\ D \subseteq Frames
    BY DEF Owned, KernelOwned
  <2> QED BY <2>1, NoneOwned
<1>1. /\ own2 \in [Frames -> Owners] /\ own2[f] = KERNEL
      /\ \A g \in Frames : g # f => own2[g] = own[g]
  BY <1>0, OwnerFacts
<1> HIDE DEF own2
<1>2. UserOwned(e, D, own2)
  <2>1. SameUsers(own, own2)
    BY <1>0, <1>1 DEF SameUsers
  <2> QED BY <2>1, <1>0, UserStays DEF Owned
<1>3. HEAP_START .. (end + 1 - 1) = (HEAP_START .. (end - 1)) \cup {end}
  BY <1>0, LayoutFacts
<1>4. KernelPart(e, R, end + 1) = KernelPart(e, R, end) \cup {f}
  <2>1. HeapPages(e, end + 1) = HeapPages(e, end) \cup {f}
    BY <1>3 DEF HeapPages
  <2> QED BY <2>1 DEF KernelPart
<1>5. \A g \in Frames : own2[g] = KERNEL <=> g \in KernelPart(e, R, end + 1)
  BY <1>0, <1>1, <1>4 DEF Owned, KernelOwned
<1>6. \A page \in HEAP_START .. (end + 1 - 1) :
        FrameOf(e, KernelDir, page) \in Frames \ {NONE}
  BY <1>0, <1>3 DEF Owned, KernelOwned
<1>7. end + 1 \in Nat /\ end + 1 <= HEAP_MAX + 1
  BY <1>0, LayoutFacts
<1>8. KernelOwned(e, R, end + 1, own2)
  BY <1>5, <1>6, <1>7 DEF Owned, KernelOwned
<1>9. /\ \A g \in Frames : own2[g] = FREE <=> g \notin taken
      /\ \A g \in Frames : own2[g] = HELD <=> g \in H \ {f}
  BY <1>0, <1>1, OwnerFacts DEF Owned
<1>10. Owned(taken, e, D, H \ {f}, R, end + 1, own2)
  BY <1>1, <1>2, <1>8, <1>9 DEF Owned
<1> QED BY <1>10 DEF own2

\* e2 is e but for the heap's entries in directory d, which are the kernel's
\* (_isr_page_fault, __kmalloc).
DirRenewed(e, e2, d) ==
  /\ e2 \in [Frames -> [Idx -> Nat]]
  /\ \A g \in Frames : g # d => e2[g] = e[g]
  /\ \A i \in Idx : e2[d][i] = e[d][i] \/ (i \in HeapIdx /\ e2[d][i] = e[KernelDir][i])

LEMMA RenewDir ==
  ASSUME NEW taken, NEW e, NEW D, NEW H, NEW R, NEW end, NEW own,
         Owned(taken, e, D, H, R, end, own), NEW d \in D,
         NEW e2, DirRenewed(e, e2, d)
  PROVE  Owned(taken, e2, D, H, R, end, own)
<1>0. /\ d \in Frames /\ own[d] = DIR /\ d # KernelDir /\ KernelDir \in Frames
      /\ D \subseteq Frames
  <2>1. d \in Frames /\ own[d] = DIR /\ D \subseteq Frames
    BY DEF Owned, UserOwned
  <2> QED BY <2>1, NoneOwned
<1>1. /\ e2 \in [Frames -> [Idx -> Nat]]
      /\ \A g \in Frames : g # d => e2[g] = e[g]
      /\ \A i \in Idx : e2[d][i] = e[d][i] \/ (i \in HeapIdx /\ e2[d][i] = e[KernelDir][i])
  BY DEF DirRenewed
<1>2. UserOwned(e2, D, own)
  <2>1. SameUsers(own, own)
    BY DEF SameUsers
  <2>2. \A d2 \in D, i \in UserIdx : e2[d2][i] = e[d2][i]
    <3>1. \A i \in UserIdx : i \in Idx /\ i \notin HeapIdx
      BY LayoutFacts
    <3> QED BY <3>1, <1>0, <1>1
  <2>3. \A d2 \in D, i \in UserIdx : e[d2][i] # NONE => e2[e[d2][i]] = e[e[d2][i]]
    <3> TAKE d2 \in D, i \in UserIdx
    <3> HAVE e[d2][i] # NONE
    <3>1. e[d2][i] \in Frames /\ e[d2][i] \notin D
      BY TablesApart
    <3> QED BY <3>1, <1>1
  <2> QED BY <2>1, <2>2, <2>3, UserStays DEF Owned
<1>3. e2[KernelDir] = e[KernelDir]
  BY <1>0, <1>1
<1>4. KernelOwned(e2, R, end, own)
  <2>1. \A i \in HeapIdx : e[KernelDir][i] # NONE =>
          e2[e[KernelDir][i]] = e[e[KernelDir][i]]
    <3> TAKE i \in HeapIdx
    <3> HAVE e[KernelDir][i] # NONE
    <3>1. e[KernelDir][i] \in Frames /\ e[KernelDir][i] \notin D
      BY KernelTables
    <3> QED BY <3>1, <1>1
  <2> QED BY <2>1, <1>3, KernelStays DEF Owned
<1>5. Alike(e2, D)
  <2>1. ASSUME NEW d2 \in D, NEW i \in KernelIdx
        PROVE  \/ e2[d2][i] = e2[KernelDir][i]
               \/ i >= HEAP_START \div ENTRIES /\ e2[d2][i] = NONE
    <3>1. e2[d2][i] = e[d2][i] \/ e2[d2][i] = e[KernelDir][i]
      BY <1>0, <1>1, LayoutFacts
    <3> QED BY <3>1, <1>3 DEF Owned, Alike
  <2> QED BY <2>1 DEF Alike
<1> QED BY <1>1, <1>2, <1>4, <1>5 DEF Owned

\* While there are no processes, the kernel takes a frame for the RAM disk.
LEMMA TakeRamdisk ==
  ASSUME NEW taken, NEW e, NEW R, NEW end, NEW own,
         Owned(taken, e, {}, {}, R, end, own), NEW x
  PROVE  Owned(taken \cup ({x} \cap Frames), e, {}, {}, R \cup {x}, end,
               [g \in Frames |-> IF g = x THEN KERNEL ELSE own[g]])
<1> DEFINE own2 == [g \in Frames |-> IF g = x THEN KERNEL ELSE own[g]]
<1>0. \A g \in Frames : own[g] \in {FREE, KERNEL}
  <2> TAKE g \in Frames
  <2>1. own[g] \in Owners /\ own[g] # HELD /\ own[g] # DIR
    BY DEF Owned, UserOwned
  <2>2. ASSUME NEW d \in Frames, NEW k \in Idx PROVE own[g] # TABLE(d, k)
    BY DEF Owned, UserOwned
  <2>3. ASSUME NEW d \in Frames, NEW k \in Idx, NEW j \in Idx PROVE own[g] # PAGE(d, k, j)
    BY DEF Owned, UserOwned
  <2> QED BY <2>1, <2>2, <2>3 DEF Owners
<1>1. /\ own2 \in [Frames -> Owners]
      /\ \A g \in Frames : own2[g] = IF g = x THEN KERNEL ELSE own[g]
  BY OwnerFacts DEF Owned
<1> HIDE DEF own2
<1>2. UserOwned(e, {}, own2)
  <2>1. SameUsers(own, own2)
    BY <1>0, <1>1 DEF SameUsers
  <2> QED BY <2>1, UserStays DEF Owned
<1>3. KernelPart(e, R \cup {x}, end) = KernelPart(e, R, end) \cup ({x} \cap Frames)
  BY DEF KernelPart
<1>4. KernelOwned(e, R \cup {x}, end, own2)
  <2>1. \A g \in Frames : own2[g] = KERNEL <=> g \in KernelPart(e, R \cup {x}, end)
    BY <1>1, <1>3 DEF Owned, KernelOwned
  <2> QED BY <2>1 DEF Owned, KernelOwned
<1>5. /\ \A g \in Frames : own2[g] = FREE <=> g \notin taken \cup ({x} \cap Frames)
      /\ \A g \in Frames : own2[g] = HELD <=> g \in {}
  BY <1>1, OwnerFacts DEF Owned
<1>6. Owned(taken \cup ({x} \cap Frames), e, {}, {}, R \cup {x}, end, own2)
  BY <1>1, <1>2, <1>4, <1>5 DEF Owned, Alike
<1> QED BY <1>6 DEF own2

-----------------------------------------------------------------------------
(* The record.                                                             *)

IsMem(m) ==
  /\ DOMAIN m = {"taken", "i", "entry", "data", "got", "panic"}
  /\ DOMAIN m.data = Frames
  /\ ~m.panic => \A f \in Frames : DOMAIN m.data[f] = 0 .. (FRAME_SIZE - 1)

\* Unless it has panicked, the machine's memory has one owner for each frame.
Fine(m, D, H, R, end) ==
  /\ IsMem(m) /\ m.panic \in BOOLEAN
  /\ ~m.panic => /\ m.i \in Nat
                 /\ \E own : Owned(m.taken, m.entry, D, H, R, end, own)

LEMMA WordFacts ==
  /\ ELEMENTS \in Nat
  /\ \A w \in 0 .. (ELEMENTS - 1) :
       \A f \in w * BITS_IN_INTEGER .. (w + 1) * BITS_IN_INTEGER - 1 :
         f \in Frames /\ Word(f) = w
<1>1. BITS_IN_INTEGER \in Nat /\ BITS_IN_INTEGER > 0
  BY PagingAssumptions DEF PagingAssumption
<1>2. ELEMENTS \in Nat
  <2>1. \A a, B \in Nat : B > 0 => 4 * B \in Nat /\ 4 * B > 0 /\ a \div (4 * B) \in Nat
    OBVIOUS
  <2>2. ONE_MEGABYTE + memory_low + memory_hi \in Nat
    BY PagingAssumptions DEF PagingAssumption
  <2> QED BY <2>1, <2>2, <1>1 DEF ELEMENTS
<1>3. ASSUME NEW w \in 0 .. (ELEMENTS - 1),
             NEW f \in w * BITS_IN_INTEGER .. (w + 1) * BITS_IN_INTEGER - 1
      PROVE  f \in Frames /\ Word(f) = w
  <2>1. \A w1, E, B \in Nat : w1 + 1 <= E => (w1 + 1) * B <= E * B
    OBVIOUS
  <2>2. w \in Nat /\ w + 1 <= ELEMENTS /\ w * BITS_IN_INTEGER \in Nat /\ f \in Nat
    BY <1>1, <1>2
  <2>3. f \in Frames
    BY <2>1, <2>2, <1>1, <1>2 DEF Frames
  <2>4. \A w1, B, f1 \in Nat : B > 0 /\ w1 * B <= f1 /\ f1 <= (w1 + 1) * B - 1 => f1 \div B = w1
    OBVIOUS
  <2> QED BY <2>2, <2>3, <2>4, <1>1 DEF Word
<1> QED BY <1>2, <1>3

\* __phys_get_free_4k finds a free frame, or panics.
LEMMA GetFreeFacts ==
  ASSUME NEW m, IsMem(m), m.i \in Nat, m.taken \subseteq Frames
  PROVE  LET a == GetFree(m) IN
         /\ IsMem(a) /\ a.entry = m.entry /\ a.data = m.data
         /\ \/ a.panic = TRUE
            \/ /\ a.panic = m.panic /\ a.i \in Nat
               /\ a.got \in Frames \ m.taken /\ a.taken = m.taken \cup {a.got}
<1> DEFINE open == {k \in 0 .. (ELEMENTS - 1) : ~FullWord(m, (m.i + k) % ELEMENTS)}
           w    == (m.i + Min(open)) % ELEMENTS
           free == {g \in Frames \ m.taken : Word(g) = w}
           f    == Min(free)
<1>1. GetFree(m) = IF open = {} THEN [m EXCEPT !.panic = TRUE]
                   ELSE [m EXCEPT !.taken = @ \cup {f}, !.i = w, !.got = f]
  BY DEF GetFree
<1>2. CASE open = {}
  <2>1. GetFree(m) = [m EXCEPT !.panic = TRUE]
    BY <1>1, <1>2
  <2> QED BY <2>1 DEF IsMem
<1>3. CASE open # {}
  <2>1. \A S \in SUBSET Nat : S # {} => Min(S) \in S
    <3> TAKE S \in SUBSET Nat
    <3> HAVE S # {}
    <3>1. \E x \in S : \A y \in S : x <= y
      BY LeastElement
    <3> QED BY <3>1 DEF Min
  <2>2. Min(open) \in open
    <3>1. open \in SUBSET Nat
      BY WordFacts
    <3> QED BY <3>1, <2>1, <1>3
  <2>3. w \in 0 .. (ELEMENTS - 1) /\ ~FullWord(m, w)
    <3>1. \A a, k, E \in Nat : k <= E - 1 => (a + k) % E \in 0 .. (E - 1)
      OBVIOUS
    <3>2. \A k \in open : /\ k \in Nat /\ k <= ELEMENTS - 1
                          /\ ~FullWord(m, (m.i + k) % ELEMENTS)
      BY WordFacts
    <3> HIDE DEF open
    <3> QED BY <2>2, <3>1, <3>2, WordFacts
  <2> HIDE DEF w
  <2>4. PICK g \in w * BITS_IN_INTEGER .. (w + 1) * BITS_IN_INTEGER - 1 : g \notin m.taken
    BY <2>3 DEF FullWord
  <2>5. g \in free
    BY <2>3, <2>4, WordFacts
  <2>6. f \in free
    <3>1. free \in SUBSET Nat
      BY NoneFacts
    <3> QED BY <3>1, <2>1, <2>5
  <2>7. f \in Frames \ m.taken /\ w \in Nat
    BY <2>6, <2>3, WordFacts
  <2> HIDE DEF f, open, free
  <2>8. GetFree(m) = [m EXCEPT !.taken = @ \cup {f}, !.i = w, !.got = f]
    BY <1>1, <1>3
  <2> QED BY <2>7, <2>8 DEF IsMem
<1> QED BY <1>2, <1>3

\* What a step has got is held.
LEMMA Get ==
  ASSUME NEW m, NEW D, NEW H, NEW R, NEW end, Fine(m, D, H, R, end)
  PROVE  LET a == GetFree(m) IN
         /\ Fine(a, D, H \cup {a.got}, R, end)
         /\ a.entry = m.entry /\ a.data = m.data
         /\ m.panic => a.panic
         /\ ~a.panic => a.got \in Frames /\ a.got \notin m.taken /\ a.got \notin H
                        /\ a.got \notin D
<1> DEFINE a == GetFree(m)
<1>1. CASE m.panic
  <2>1. IsMem(a) /\ a.panic = TRUE /\ a.entry = m.entry /\ a.data = m.data
    BY <1>1 DEF GetFree, Fine, IsMem
  <2> QED BY <2>1, <1>1 DEF Fine
<1>2. CASE ~m.panic
  <2>1. PICK own : Owned(m.taken, m.entry, D, H, R, end, own)
    BY <1>2 DEF Fine
  <2>2. IsMem(m) /\ m.i \in Nat /\ m.taken \subseteq Frames /\ m.panic = FALSE
    BY <2>1, <1>2 DEF Fine, Owned
  <2> HIDE DEF a
  <2>3. /\ IsMem(a) /\ a.entry = m.entry /\ a.data = m.data
        /\ \/ a.panic = TRUE
           \/ /\ a.panic = FALSE /\ a.i \in Nat
              /\ a.got \in Frames \ m.taken /\ a.taken = m.taken \cup {a.got}
    BY <2>2, GetFreeFacts DEF a
  <2>4. CASE a.panic = TRUE
    BY <2>3, <2>4, <1>2 DEF Fine, a
  <2>5. CASE a.panic # TRUE
    <3>0. a.got \in Frames \ m.taken
      BY <2>3, <2>5
    <3>1. /\ Owned(m.taken \cup {a.got}, m.entry, D, H \cup {a.got}, R, end,
                   [own EXCEPT ![a.got] = HELD])
          /\ a.got \notin H
      BY <2>1, <3>0, TakeFrame
    <3>2. a.got \notin D
      BY <2>1, <3>0, OwnerFacts DEF Owned, UserOwned
    <3> QED BY <2>3, <2>5, <1>2, <3>0, <3>1, <3>2 DEF Fine, a
  <2> QED BY <2>4, <2>5
<1> QED BY <1>1, <1>2

\* A user's page lies in a table of a process.
LEMMA UserPageFacts ==
  ASSUME NEW page \in UserArea
  PROVE  page \in Nat /\ page \div ENTRIES \in UserIdx /\ page % ENTRIES \in Idx
<1>1. \A a, E, K \in Nat : E > 0 /\ E <= a /\ a <= K * E - 1 => a \div E \in 1 .. (K - 1)
  OBVIOUS
<1>2. \A a, E \in Nat : E > 0 => a % E \in 0 .. (E - 1)
  OBVIOUS
<1>3. KERNEL_PAGE_DIR_INDEX * ENTRIES \in Nat
  BY LayoutFacts
<1>4. page \in Nat /\ ENTRIES <= page /\ page <= KERNEL_PAGE_DIR_INDEX * ENTRIES - 1
  BY <1>3, LayoutFacts DEF UserArea
<1> QED BY <1>1, <1>2, <1>4, LayoutFacts DEF UserIdx, Idx, LAST

\* A table that is not there is made, as in __virt_map_page and
\* __virt_clone_directory.
AddTable(m, d, k) ==
  LET a == GetFree(m) IN
  [a EXCEPT !.entry[d][k] = a.got, !.entry[a.got] = Blank]

\* The place of a table of a process or of the kernel.
Place(D, d, k) ==
  \/ d \in D /\ k \in UserIdx
  \/ d = KernelDir /\ k \in HeapIdx

LEMMA NewTable ==
  ASSUME NEW m, NEW D, NEW H, NEW R, NEW end, Fine(m, D, H, R, end),
         NEW d, NEW k, Place(D, d, k), ~m.panic => m.entry[d][k] = NONE
  PROVE  LET n == AddTable(m, d, k) IN
         /\ Fine(n, D, H, R, end) /\ (m.panic => n.panic)
         /\ ~n.panic => \E f \in Frames \ {NONE} : /\ f \notin D
                                                   /\ TableIs(m.entry, n.entry, d, k, f)
<1> DEFINE a == GetFree(m)
           n == AddTable(m, d, k)
<1>1. /\ Fine(a, D, H \cup {a.got}, R, end) /\ a.entry = m.entry
      /\ m.panic => a.panic
      /\ ~a.panic => a.got \in Frames /\ a.got \notin H /\ a.got \notin D
  BY Get
<1>2. n = [a EXCEPT !.entry[d][k] = a.got, !.entry[a.got] = Blank]
  BY DEF AddTable
<1> HIDE DEF a, n
<1>3. /\ IsMem(n) /\ n.panic = a.panic /\ n.i = a.i /\ n.taken = a.taken
      /\ n.entry = [[a.entry EXCEPT ![d][k] = a.got] EXCEPT ![a.got] = Blank]
  BY <1>1, <1>2 DEF IsMem, Fine
<1>4. CASE a.panic
  BY <1>1, <1>3, <1>4 DEF Fine, n
<1>5. CASE ~a.panic
  <2>1. PICK own : Owned(a.taken, a.entry, D, H \cup {a.got}, R, end, own)
    BY <1>1, <1>5 DEF Fine
  <2>2. d \in Frames /\ k \in Idx /\ d # a.got /\ a.got # NONE
    <3>1. KernelDir \in Frames /\ own[KernelDir] = KERNEL /\ NONE \notin H \cup {a.got}
      BY <2>1, NoneOwned
    <3>2. own[a.got] = HELD /\ D \subseteq Frames
      BY <2>1, <1>1, <1>5 DEF Owned
    <3> QED BY <3>1, <3>2, <1>1, <1>5, OwnerFacts, LayoutFacts DEF Place
  <2>3. TableIs(a.entry, n.entry, d, k, a.got)
    <3>1. a.entry \in [Frames -> [Idx -> Nat]] /\ a.got \in Nat /\ a.got \in Frames
      BY <2>1, <1>1, <1>5, NoneFacts DEF Owned
    <3>2. Blank \in [Idx -> Nat] /\ \A i \in Idx : Blank[i] = NONE
      BY DEF Blank, Idx, NONE
    <3>3. n.entry \in [Frames -> [Idx -> Nat]]
      <4>1. [a.entry EXCEPT ![d][k] = a.got] \in [Frames -> [Idx -> Nat]]
        BY <2>2, <3>1
      <4> QED BY <4>1, <1>3, <3>2
    <3>4. /\ n.entry[a.got] = Blank
          /\ n.entry[d] = [a.entry[d] EXCEPT ![k] = a.got]
          /\ \A g \in Frames : g # d /\ g # a.got => n.entry[g] = a.entry[g]
      BY <1>3, <2>2, <3>1
    <3>5. n.entry[d][k] = a.got /\ \A i \in Idx : i # k => n.entry[d][i] = a.entry[d][i]
      BY <3>4, <2>2, <3>1
    <3> QED BY <3>2, <3>3, <3>4, <3>5 DEF TableIs
  <2>4. a.got \in H \cup {a.got} /\ a.entry[d][k] = NONE
    BY <1>1, <1>5 DEF Fine
  <2>5. (H \cup {a.got}) \ {a.got} = H
    BY <1>1, <1>5
  <2>6. \E own2 : Owned(n.taken, n.entry, D, H, R, end, own2)
    <3>1. CASE d \in D /\ k \in UserIdx
      <4>1. Owned(a.taken, n.entry, D, (H \cup {a.got}) \ {a.got}, R, end,
                  [own EXCEPT ![a.got] = TABLE(d, k)])
        BY <2>1, <2>3, <2>4, <3>1, LinkTable
      <4> QED BY <4>1, <2>5, <1>3
    <3>2. CASE d = KernelDir /\ k \in HeapIdx
      <4>1. Owned(a.taken, n.entry, D, (H \cup {a.got}) \ {a.got}, R, end,
                  [own EXCEPT ![a.got] = KERNEL])
        <5>1. a.entry[KernelDir][k] = NONE /\ TableIs(a.entry, n.entry, KernelDir, k, a.got)
          BY <2>3, <2>4, <3>2
        <5> QED BY <2>1, <2>4, <3>2, <5>1, LinkKernelTable
      <4> QED BY <4>1, <2>5, <1>3
    <3> QED BY <3>1, <3>2 DEF Place
  <2>7. Fine(n, D, H, R, end)
    BY <2>6, <1>1, <1>3, <1>5 DEF Fine
  <2> QED BY <2>2, <2>3, <2>7, <1>1, <1>3, <1>5 DEF n
<1> QED BY <1>4, <1>5 DEF Fine

\* Entry j of table t is written.
WriteEntry(m, t, j, f) == [m EXCEPT !.entry[t][j] = f]

LEMMA WriteEntryFacts ==
  ASSUME NEW m, IsMem(m), m.entry \in [Frames -> [Idx -> Nat]],
         NEW t \in Frames, NEW j \in Idx, NEW f \in Nat
  PROVE  LET n == WriteEntry(m, t, j, f) IN
         /\ IsMem(n) /\ n.panic = m.panic /\ n.i = m.i /\ n.taken = m.taken
         /\ EntryIs(m.entry, n.entry, t, j, f)
<1> DEFINE n == WriteEntry(m, t, j, f)
<1>1. /\ IsMem(n) /\ n.panic = m.panic /\ n.i = m.i /\ n.taken = m.taken
      /\ n.entry = [m.entry EXCEPT ![t][j] = f]
  BY DEF WriteEntry, IsMem
<1> HIDE DEF n
<1>2. n.entry \in [Frames -> [Idx -> Nat]]
  BY <1>1
<1>3. n.entry[t] = [m.entry[t] EXCEPT ![j] = f]
      /\ \A g \in Frames : g # t => n.entry[g] = m.entry[g]
  BY <1>1
<1>4. n.entry[t][j] = f /\ \A i \in Idx : i # j => n.entry[t][i] = m.entry[t][i]
  BY <1>3
<1>5. EntryIs(m.entry, n.entry, t, j, f)
  BY <1>2, <1>3, <1>4 DEF EntryIs
<1> QED BY <1>1, <1>5 DEF n

\* The two halves of __virt_map_page: the table, and the entry.
TableFor(m, d, k) == IF m.entry[d][k] # NONE THEN m ELSE AddTable(m, d, k)

LEMMA MapPageParts ==
  ASSUME NEW m, NEW d, NEW f, NEW page
  PROVE  LET n == TableFor(m, d, page \div ENTRIES)
             t == n.entry[d][page \div ENTRIES]
         IN  MapPage(m, d, f, page) =
               IF n.entry[t][page % ENTRIES] # NONE THEN [n EXCEPT !.panic = TRUE]
               ELSE WriteEntry(n, t, page % ENTRIES, f)
BY DEF MapPage, TableFor, AddTable, WriteEntry

LEMMA TableForFacts ==
  ASSUME NEW m, NEW D, NEW H, NEW R, NEW end, Fine(m, D, H, R, end),
         NEW d, NEW k, Place(D, d, k)
  PROVE  LET n == TableFor(m, d, k) IN
         /\ Fine(n, D, H, R, end) /\ (m.panic => n.panic)
         /\ ~n.panic => n.entry[d][k] # NONE
<1> DEFINE n == TableFor(m, d, k)
<1>1. CASE m.entry[d][k] # NONE
  BY <1>1 DEF TableFor
<1>2. CASE m.entry[d][k] = NONE
  <2>1. n = AddTable(m, d, k)
    BY <1>2 DEF TableFor
  <2>2. /\ Fine(n, D, H, R, end) /\ (m.panic => n.panic)
        /\ ~n.panic => \E f \in Frames \ {NONE} : /\ f \notin D
                                                  /\ TableIs(m.entry, n.entry, d, k, f)
    BY <2>1, <1>2, NewTable
  <2> QED BY <2>2 DEF TableIs
<1> QED BY <1>1, <1>2

\* __virt_map_page in the address space of a process.
LEMMA MapUserPage ==
  ASSUME NEW m, NEW D, NEW H, NEW R, NEW end, NEW f, Fine(m, D, H \cup {f}, R, end),
         f \notin H, NEW d \in D, NEW page \in UserArea
  PROVE  Fine(MapPage(m, d, f, page), D, H, R, end)
<1> DEFINE k == page \div ENTRIES
           j == page % ENTRIES
           n == TableFor(m, d, k)
           t == n.entry[d][k]
           x == MapPage(m, d, f, page)
<1>1. k \in UserIdx /\ j \in Idx /\ Place(D, d, k)
  <2>1. k \in UserIdx /\ j \in Idx
    BY UserPageFacts
  <2> QED BY <2>1 DEF Place
<1>2. Fine(n, D, H \cup {f}, R, end) /\ (~n.panic => t # NONE)
  BY <1>1, TableForFacts
<1>3. x = IF n.entry[t][j] # NONE THEN [n EXCEPT !.panic = TRUE]
          ELSE WriteEntry(n, t, j, f)
  BY MapPageParts
<1> HIDE DEF k, j, n, x
<1>4. CASE n.entry[t][j] # NONE
  <2>1. IsMem(x) /\ x.panic = TRUE
    BY <1>2, <1>3, <1>4 DEF Fine, IsMem
  <2> QED BY <2>1 DEF Fine, x
<1>5. CASE n.entry[t][j] = NONE /\ n.panic
  <2>1. IsMem(x) /\ x.panic = n.panic
    BY <1>2, <1>3, <1>5 DEF Fine, IsMem, WriteEntry
  <2> QED BY <2>1, <1>5, <1>2 DEF Fine, x
<1>6. CASE n.entry[t][j] = NONE /\ ~n.panic
  <2>1. PICK own : Owned(n.taken, n.entry, D, H \cup {f}, R, end, own)
    BY <1>2, <1>6 DEF Fine
  <2>2. t \in Frames
    BY <2>1, <1>1, <1>2, <1>6, TablesApart
  <2>3. f \in Nat /\ n.entry \in [Frames -> [Idx -> Nat]]
    BY <2>1, NoneFacts DEF Owned
  <2>4. /\ IsMem(x) /\ x.panic = n.panic /\ x.i = n.i /\ x.taken = n.taken
        /\ EntryIs(n.entry, x.entry, t, j, f)
    BY <1>1, <1>2, <1>3, <1>6, <2>2, <2>3, WriteEntryFacts DEF Fine
  <2>5. (H \cup {f}) \ {f} = H /\ f \in H \cup {f}
    OBVIOUS
  <2>6. Owned(n.taken, x.entry, D, (H \cup {f}) \ {f}, R, end,
              [own EXCEPT ![f] = PAGE(d, k, j)])
    BY <1>1, <1>2, <1>6, <2>1, <2>4, <2>5, LinkPage
  <2> QED BY <2>4, <2>5, <2>6, <1>2, <1>6 DEF Fine, x
<1> QED BY <1>4, <1>5, <1>6, <1>2 DEF Fine

LEMMA MapNewFine ==
  ASSUME NEW m, NEW D, NEW R, NEW end, Fine(m, D, {}, R, end),
         NEW d \in D, NEW page \in UserArea
  PROVE  Fine(MapNew(m, d, page), D, {}, R, end)
<1> DEFINE a == GetFree(m)
<1>1. Fine(a, D, {} \cup {a.got}, R, end)
  BY Get
<1>2. Fine(MapPage(a, d, a.got, page), D, {}, R, end)
  BY <1>1, MapUserPage
<1> QED BY <1>2 DEF MapNew

\* The same in the kernel's directory, for any frame.
LEMMA MapKernelPage ==
  ASSUME NEW m, NEW D, NEW H, NEW R, NEW end, Fine(m, D, H, R, end),
         NEW f, ~m.panic => f \in Nat, NEW page \in Nat, page \div ENTRIES \in HeapIdx
  PROVE  LET x == MapPage(m, KernelDir, f, page) IN
         /\ Fine(x, D, H, R, end)
         /\ ~x.panic => FrameOf(x.entry, KernelDir, page) = f
<1> DEFINE k == page \div ENTRIES
           j == page % ENTRIES
           n == TableFor(m, KernelDir, k)
           t == n.entry[KernelDir][k]
           x == MapPage(m, KernelDir, f, page)
<1>1. k \in HeapIdx /\ j \in Idx /\ Place(D, KernelDir, k)
  <2>1. \A a, E \in Nat : E > 0 => a % E \in 0 .. (E - 1)
    OBVIOUS
  <2> QED BY <2>1, LayoutFacts DEF Place, Idx, LAST
<1>2. Fine(n, D, H, R, end) /\ (m.panic => n.panic) /\ (~n.panic => t # NONE)
  BY <1>1, TableForFacts
<1>3. x = IF n.entry[t][j] # NONE THEN [n EXCEPT !.panic = TRUE]
          ELSE WriteEntry(n, t, j, f)
  BY MapPageParts
<1>0. FrameOf(x.entry, KernelDir, page) =
        IF x.entry[KernelDir][k] = NONE THEN NONE ELSE x.entry[x.entry[KernelDir][k]][j]
  BY DEF FrameOf
<1> HIDE DEF k, j, n, x
<1>4. CASE n.entry[t][j] # NONE
  <2>1. IsMem(x) /\ x.panic = TRUE
    BY <1>2, <1>3, <1>4 DEF Fine, IsMem
  <2> QED BY <2>1 DEF Fine, x
<1>5. CASE n.entry[t][j] = NONE /\ n.panic
  <2>1. IsMem(x) /\ x.panic = n.panic
    BY <1>2, <1>3, <1>5 DEF Fine, IsMem, WriteEntry
  <2> QED BY <2>1, <1>5, <1>2 DEF Fine, x
<1>6. CASE n.entry[t][j] = NONE /\ ~n.panic
  <2>1. PICK own : Owned(n.taken, n.entry, D, H, R, end, own)
    BY <1>2, <1>6 DEF Fine
  <2>2. t \in Frames /\ t # KernelDir /\ KernelDir \in Frames
    BY <2>1, <1>1, <1>2, <1>6, KernelTables, NoneOwned
  <2>3. n.entry \in [Frames -> [Idx -> Nat]] /\ f \in Nat
    BY <2>1, <1>2, <1>6 DEF Owned
  <2>4. /\ IsMem(x) /\ x.panic = n.panic /\ x.i = n.i /\ x.taken = n.taken
        /\ EntryIs(n.entry, x.entry, t, j, f)
    BY <1>1, <1>2, <1>3, <1>6, <2>2, <2>3, WriteEntryFacts DEF Fine
  <2>5. Owned(n.taken, x.entry, D, H, R, end, own)
    BY <1>1, <1>2, <1>6, <2>1, <2>4, WriteKernelEntry
  <2>6. x.entry[KernelDir] = n.entry[KernelDir] /\ x.entry[t][j] = f
    BY <2>2, <2>4 DEF EntryIs
  <2>7. FrameOf(x.entry, KernelDir, page) = f
    BY <2>6, <1>0, <1>2, <1>6
  <2> QED BY <2>4, <2>5, <2>7, <1>2, <1>6 DEF Fine, x
<1> QED BY <1>4, <1>5, <1>6, <1>2 DEF Fine

\* __virt_unmap_page: first the page ...
LEMMA ClearedFine ==
  ASSUME NEW m, NEW D, NEW H, NEW R, NEW end, Fine(m, D, H, R, end), ~m.panic,
         NEW d \in D, NEW page \in UserArea, m.entry[d][page \div ENTRIES] # NONE
  PROVE  LET n == Cleared(m, d, page)
             t == m.entry[d][page \div ENTRIES]
         IN  /\ Fine(n, D, H, R, end) /\ ~n.panic /\ t \in Frames /\ t \notin D
             /\ EntryIs(m.entry, n.entry, t, page % ENTRIES, NONE)
<1> DEFINE k == page \div ENTRIES
           j == page % ENTRIES
           t == m.entry[d][k]
           f == m.entry[t][j]
           n == Cleared(m, d, page)
<1>1. k \in UserIdx /\ j \in Idx
  BY UserPageFacts
<1>2. PICK own : Owned(m.taken, m.entry, D, H, R, end, own)
  BY DEF Fine
<1>3. n = [m EXCEPT !.taken = @ \ ({f} \ {NONE}), !.entry[t][j] = NONE]
  BY DEF Cleared
<1>4. t # NONE
  OBVIOUS
<1>5. f = m.entry[t][j] /\ t = m.entry[d][k]
  OBVIOUS
<1> HIDE DEF k, j, t, f, n
<1>6. t \in Frames /\ t \notin D
  BY <1>1, <1>2, <1>4, <1>5, TablesApart
<1>7. m.entry \in [Frames -> [Idx -> Nat]]
  BY <1>2 DEF Owned
<1>8. /\ IsMem(n) /\ n.panic = m.panic /\ n.i = m.i
      /\ n.taken = m.taken \ ({f} \ {NONE})
      /\ n.entry = WriteEntry(m, t, j, NONE).entry
  BY <1>3 DEF IsMem, Fine, WriteEntry
<1>9. EntryIs(m.entry, n.entry, t, j, NONE)
  <2>1. IsMem(m) /\ NONE \in Nat
    BY DEF Fine, NONE
  <2> QED BY <2>1, <1>1, <1>6, <1>7, <1>8, WriteEntryFacts
<1>10. \E own2 : Owned(n.taken, n.entry, D, H, R, end, own2)
  <2>1. CASE f # NONE
    <3>1. Owned(m.taken \ {f}, n.entry, D, H, R, end, [own EXCEPT ![f] = FREE])
      BY <2>1, <1>1, <1>2, <1>4, <1>5, <1>9, DropPage
    <3>2. n.taken = m.taken \ {f}
      BY <2>1, <1>8
    <3> QED BY <3>1, <3>2
  <2>2. CASE f = NONE
    <3>1. n.taken = m.taken
      BY <2>2, <1>8
    <3>2. \A i \in Idx : n.entry[t][i] = m.entry[t][i]
      BY <2>2, <1>5, <1>9 DEF EntryIs
    <3>3. n.entry[t] = m.entry[t]
      <4>1. n.entry[t] \in [Idx -> Nat] /\ m.entry[t] \in [Idx -> Nat]
        BY <1>6, <1>7, <1>9 DEF EntryIs
      <4> QED BY <4>1, <3>2
    <3>4. n.entry = m.entry
      <4>1. \A g \in Frames : n.entry[g] = m.entry[g]
        BY <3>3, <1>9 DEF EntryIs
      <4>2. n.entry \in [Frames -> [Idx -> Nat]]
        BY <1>9 DEF EntryIs
      <4> QED BY <4>1, <4>2, <1>7
    <3> QED BY <3>1, <3>4, <1>2
  <2> QED BY <2>1, <2>2
<1>11. Fine(n, D, H, R, end)
  BY <1>8, <1>10 DEF Fine
<1> QED BY <1>6, <1>8, <1>9, <1>11 DEF k, j, t, n

\* The user's pages of directory d before page are not there, nor are the
\* tables that would hold only such pages.
Clean(e, d, page) ==
  \A k \in UserIdx :
    /\ k < page \div ENTRIES => e[d][k] = NONE
    /\ k = page \div ENTRIES =>
         \/ e[d][k] = NONE
         \/ \A j \in Idx : j < page % ENTRIES => e[e[d][k]][j] = NONE

\* ... and then the table, with its last page.
LEMMA UnmapFine ==
  ASSUME NEW m, NEW D, NEW H, NEW R, NEW end, Fine(m, D, H, R, end),
         NEW d \in D, NEW page \in UserArea, ~m.panic => Clean(m.entry, d, page)
  PROVE  LET x == UnmapPage(m, d, page) IN
         /\ Fine(x, D, H, R, end) /\ (~m.panic => ~x.panic)
         /\ ~x.panic => Clean(x.entry, d, page + 1)
<1> DEFINE k == page \div ENTRIES
           j == page % ENTRIES
           t == m.entry[d][k]
           n == Cleared(m, d, page)
           x == UnmapPage(m, d, page)
<1>1. k \in UserIdx /\ j \in Idx /\ page \in Nat
  BY UserPageFacts
<1>2. x = IF t = NONE THEN m
          ELSE IF IsEmpty(n.entry[t]) THEN [Unset(n, t) EXCEPT !.entry[d][k] = NONE]
          ELSE n
  BY DEF UnmapPage
<1>3. t = m.entry[d][k]
  OBVIOUS
\* Where the next page is.
<1>4. \/ j = LAST /\ (page + 1) \div ENTRIES = k + 1 /\ (page + 1) % ENTRIES = 0
      \/ j # LAST /\ (page + 1) \div ENTRIES = k /\ (page + 1) % ENTRIES = j + 1
  <2>1. \A p, E \in Nat : E > 0 =>
          \/ p % E = E - 1 /\ (p + 1) \div E = (p \div E) + 1 /\ (p + 1) % E = 0
          \/ p % E # E - 1 /\ (p + 1) \div E = (p \div E) /\ (p + 1) % E = (p % E) + 1
    OBVIOUS
  <2> QED BY <2>1, <1>1, LayoutFacts DEF LAST
\* What is to be shown of the entries.
<1>5. ASSUME NEW e, \A i \in UserIdx : i < k => e[d][i] = NONE,
             \/ e[d][k] = NONE
             \/ /\ j # LAST
                /\ \A i \in Idx : i <= j => e[e[d][k]][i] = NONE
      PROVE  Clean(e, d, page + 1)
  <2>1. UserIdx \subseteq Nat /\ Idx \subseteq Nat /\ k \in Nat /\ j \in Nat
    BY <1>1 DEF UserIdx, Idx
  <2> HIDE DEF k, j
  <2>2. CASE j = LAST
    <3>1. (page + 1) \div ENTRIES = k + 1 /\ (page + 1) % ENTRIES = 0
      BY <2>2, <1>4
    <3> QED BY <2>1, <2>2, <3>1, <1>5 DEF Clean
  <2>3. CASE j # LAST
    <3>1. (page + 1) \div ENTRIES = k /\ (page + 1) % ENTRIES = j + 1
      BY <2>3, <1>4
    <3> QED BY <2>1, <3>1, <1>5 DEF Clean
  <2> QED BY <2>2, <2>3
<1>6. ~m.panic => /\ \A i \in UserIdx : i < k => m.entry[d][i] = NONE
                  /\ \/ m.entry[d][k] = NONE
                     \/ \A i \in Idx : i < j => m.entry[t][i] = NONE
  BY <1>1 DEF Clean
<1> HIDE DEF k, j, t, x
<1>7. CASE m.panic
  <2>1. IsMem(x) /\ x.panic
    <3>1. IsMem(n) /\ n.panic
      BY <1>7 DEF Cleared, Fine, IsMem
    <3> HIDE DEF n
    <3> QED BY <3>1, <1>2, <1>7 DEF Unset, Fine, IsMem
  <2>2. x.panic \in BOOLEAN
    <3>1. n.panic \in BOOLEAN
      BY DEF Cleared, Fine, IsMem
    <3>2. IsMem(n)
      BY DEF Cleared, Fine, IsMem
    <3> HIDE DEF n
    <3> QED BY <3>1, <3>2, <1>2 DEF Unset, Fine, IsMem
  <2> QED BY <2>1, <2>2, <1>7 DEF x, Fine
<1>8. CASE ~m.panic /\ t = NONE
  <2>1. x = m
    BY <1>2, <1>8
  <2>2. Clean(x.entry, d, page + 1)
    BY <2>1, <1>3, <1>5, <1>6, <1>8
  <2> QED BY <2>1, <2>2 DEF x
<1>9. CASE ~m.panic /\ t # NONE
  <2>1. /\ Fine(n, D, H, R, end) /\ ~n.panic /\ t \in Frames /\ t \notin D
        /\ EntryIs(m.entry, n.entry, t, j, NONE)
    BY <1>9, ClearedFine DEF t, k, j
  <2> HIDE DEF n
  <2>2. PICK own : Owned(n.taken, n.entry, D, H, R, end, own)
    BY <2>1 DEF Fine
  <2>3. n.entry[d] = m.entry[d]
    BY <2>1, <2>2 DEF EntryIs, Owned
  <2>4. CASE IsEmpty(n.entry[t])
    <3>1. x = [Unset(n, t) EXCEPT !.entry[d][k] = NONE]
      BY <2>4, <1>2, <1>9
    <3>2. /\ IsMem(x) /\ x.panic = n.panic /\ x.i = n.i /\ x.taken = n.taken \ {t}
          /\ x.entry = WriteEntry(n, d, k, NONE).entry
      BY <3>1, <2>1 DEF Fine, IsMem, Unset, WriteEntry
    <3>3. d \in Frames /\ k \in Idx /\ n.entry \in [Frames -> [Idx -> Nat]] /\ NONE \in Nat
      BY <2>2, <1>1, LayoutFacts DEF Owned, NONE
    <3>4. EntryIs(n.entry, x.entry, d, k, NONE)
      BY <3>2, <3>3, <2>1, WriteEntryFacts DEF Fine
    <3>5. n.entry[d][k] = t /\ \A i \in Idx : n.entry[t][i] = NONE
      BY <2>3, <2>4, <1>3 DEF IsEmpty, Idx
    <3>6. Owned(n.taken \ {t}, x.entry, D, H, R, end, [own EXCEPT ![t] = FREE])
      BY <2>2, <3>4, <3>5, <1>1, <1>9, DropTable
    <3>7. Fine(x, D, H, R, end)
      BY <3>2, <3>6, <2>1 DEF Fine
    <3>8. x.entry[d][k] = NONE /\ \A i \in UserIdx : i < k => x.entry[d][i] = NONE
      <4>1. \A i \in UserIdx : i < k => i \in Idx /\ i # k
        BY <1>1, LayoutFacts DEF UserIdx
      <4> QED BY <4>1, <3>4, <2>3, <1>6, <1>9 DEF EntryIs
    <3>9. Clean(x.entry, d, page + 1)
      BY <3>8, <1>5
    <3> QED BY <2>1, <3>2, <3>7, <3>9 DEF x
  <2>5. CASE ~IsEmpty(n.entry[t])
    <3>1. x = n
      BY <2>5, <1>2, <1>9
    <3>2. \A i \in Idx : i <= j => n.entry[t][i] = NONE
      <4>1. \A i \in Idx : i <= j => i < j \/ i = j
        BY <1>1 DEF Idx
      <4> QED BY <4>1, <2>1, <1>3, <1>6, <1>9 DEF EntryIs
    <3>3. j # LAST
      <4>1. j = LAST => \A i \in Idx : i <= j
        BY LayoutFacts DEF Idx
      <4> QED BY <4>1, <3>2, <2>5 DEF IsEmpty, Idx
    <3>4. Clean(n.entry, d, page + 1)
      BY <3>2, <3>3, <2>3, <1>3, <1>5, <1>6, <1>9
    <3> QED BY <3>1, <3>4, <2>1 DEF x
  <2> QED BY <2>4, <2>5
<1> QED BY <1>7, <1>8, <1>9

-----------------------------------------------------------------------------
(* Loops.                                                                  *)

\* The rounds of the loops of the code, as one operator: so that one induction
\* serves them all.
Step(loop, a, b, c, x, k) ==
  CASE loop = "reset"    -> UnmapPage(x, a, RESERVED_LO + k)
    [] loop = "map"      -> MapNew(x, a, b + k)
    [] loop = "table"    -> CopyPage(x, a, b, c, k)
    [] loop = "clone"    -> CopyTable(x, a, b, c + k)
    [] loop = "store"    -> StoreByte(x, a, b + k, c)
    [] loop = "ramdisk"  -> MapPage(Set(x, RAMDISK_PHYS + k), KernelDir,
                                    RAMDISK_PHYS + k, RAMDISK_VIRT + k)
    [] loop = "segment"  -> MapMissing(x, a, b + k)
    [] loop = "segments" -> LoadSegment(x, a, b[k + 1])
    [] loop = "heap"     -> MapHeapPage(x, a + k)
    [] loop = "walk"     -> WalkStep(a, x)

\* What n rounds that begin with m go through.
Steps(loop, a, b, c, m, n, g) ==
  g = [k \in 0 .. n |-> IF k = 0 THEN m ELSE Step(loop, a, b, c, g[k - 1], k - 1)]

LEMMA StepsExist ==
  ASSUME NEW loop, NEW a, NEW b, NEW c, NEW m, NEW n \in Nat
  PROVE  \E g : Steps(loop, a, b, c, m, n, g)
<1> DEFINE S == {k \in 0 .. n : \E g : Steps(loop, a, b, c, m, k, g)}
<1>1. 0 \in S
  <2> DEFINE g == [k \in 0 .. 0 |-> m]
  <2>1. g = [k \in 0 .. 0 |-> IF k = 0 THEN m ELSE Step(loop, a, b, c, g[k - 1], k - 1)]
    OBVIOUS
  <2>2. Steps(loop, a, b, c, m, 0, g)
    BY <2>1 DEF Steps
  <2> QED BY <2>2
<1>2. ASSUME NEW k \in 0 .. (n - 1), k \in S PROVE k + 1 \in S
  <2>1. PICK g : g = [i \in 0 .. k |->
                        IF i = 0 THEN m ELSE Step(loop, a, b, c, g[i - 1], i - 1)]
    BY <1>2 DEF Steps
  <2> DEFINE h == [i \in 0 .. (k + 1) |->
                     IF i = k + 1 THEN Step(loop, a, b, c, g[k], k) ELSE g[i]]
  <2>2. \A i \in 0 .. k : h[i] = g[i]
    OBVIOUS
  <2>3. h[k + 1] = Step(loop, a, b, c, h[k], k)
    BY <2>2
  <2>4. h[0] = m
    BY <2>1, <2>2
  <2>5. \A i \in 1 .. k : h[i] = Step(loop, a, b, c, h[i - 1], i - 1)
    BY <2>1, <2>2
  <2>6. \A i \in 0 .. (k + 1) :
          h[i] = IF i = 0 THEN m ELSE Step(loop, a, b, c, h[i - 1], i - 1)
    <3>1. \A i \in 0 .. (k + 1) : i = 0 \/ i = k + 1 \/ i \in 1 .. k
      OBVIOUS
    <3>2. (k + 1) - 1 = k
      OBVIOUS
    <3> HIDE DEF h
    <3> QED BY <3>1, <3>2, <2>3, <2>4, <2>5
  <2>7. h = [i \in 0 .. (k + 1) |-> h[i]]
    OBVIOUS
  <2> HIDE DEF h
  <2>8. h = [i \in 0 .. (k + 1) |->
               IF i = 0 THEN m ELSE Step(loop, a, b, c, h[i - 1], i - 1)]
    BY <2>6, <2>7
  <2>9. Steps(loop, a, b, c, m, k + 1, h)
    BY <2>8 DEF Steps
  <2> QED BY <2>9
<1> HIDE DEF S
<1>3. n \in S
  BY <1>1, <1>2, CountUp
<1> QED BY <1>3 DEF S

LEMMA StepsFacts ==
  ASSUME NEW loop, NEW a, NEW b, NEW c, NEW m, NEW n \in Nat, NEW g,
         Steps(loop, a, b, c, m, n, g)
  PROVE  g[0] = m /\ \A k \in 0 .. (n - 1) : g[k + 1] = Step(loop, a, b, c, g[k], k)
<1>1. \A k \in 0 .. n : g[k] = IF k = 0 THEN m ELSE Step(loop, a, b, c, g[k - 1], k - 1)
  BY DEF Steps
<1>2. g[0] = m
  BY <1>1
<1>3. ASSUME NEW k \in 0 .. (n - 1) PROVE g[k + 1] = Step(loop, a, b, c, g[k], k)
  <2>1. k + 1 \in 0 .. n /\ k + 1 # 0 /\ (k + 1) - 1 = k
    OBVIOUS
  <2> QED BY <2>1, <1>1
<1> QED BY <1>2, <1>3

LEMMA ResetSteps ==
  ASSUME NEW m, NEW d, KERNEL_PAGE_DIR_INDEX * ENTRIES - RESERVED_LO \in Nat
  PROVE  \E g : LET n == KERNEL_PAGE_DIR_INDEX * ENTRIES - RESERVED_LO IN
                Steps("reset", d, 0, 0, m, n, g) /\ ResetDirectory(m, d) = g[n]
<1> DEFINE n == KERNEL_PAGE_DIR_INDEX * ENTRIES - RESERVED_LO
<1>1. PICK g : Steps("reset", d, 0, 0, m, n, g)
  BY StepsExist
<1>2. g = [k \in 0 .. n |-> IF k = 0 THEN m ELSE UnmapPage(g[k - 1], d, RESERVED_LO + (k - 1))]
  BY <1>1 DEF Steps, Step
<1> QED BY <1>2 DEF ResetDirectory, Rounds, Steps, Step

\* The space of the users: from the second table to the kernel's first.
LEMMA AreaFacts ==
  /\ RESERVED_LO = ENTRIES
  /\ KERNEL_PAGE_DIR_INDEX * ENTRIES - RESERVED_LO \in Nat
  /\ \A k \in 0 .. (KERNEL_PAGE_DIR_INDEX * ENTRIES - RESERVED_LO - 1) :
       ENTRIES + k \in UserArea /\ (ENTRIES + k) + 1 = ENTRIES + (k + 1)
  /\ ENTRIES \div ENTRIES = 1 /\ ENTRIES % ENTRIES = 0
  /\ (KERNEL_PAGE_DIR_INDEX * ENTRIES) \div ENTRIES = KERNEL_PAGE_DIR_INDEX
  /\ ENTRIES + (KERNEL_PAGE_DIR_INDEX * ENTRIES - RESERVED_LO)
       = KERNEL_PAGE_DIR_INDEX * ENTRIES
<1>1. RESERVED_LO = ENTRIES
  BY PagingAssumptions DEF PagingAssumption
<1>2. \A K, E \in Nat : E > 0 /\ K > 1 =>
        K * E \in Nat /\ K * E >= E /\ (K * E) \div E = K /\ E \div E = 1 /\ E % E = 0
  OBVIOUS
<1>3. /\ KERNEL_PAGE_DIR_INDEX * ENTRIES \in Nat
      /\ KERNEL_PAGE_DIR_INDEX * ENTRIES >= ENTRIES
      /\ (KERNEL_PAGE_DIR_INDEX * ENTRIES) \div ENTRIES = KERNEL_PAGE_DIR_INDEX
      /\ ENTRIES \div ENTRIES = 1 /\ ENTRIES % ENTRIES = 0
  BY <1>2, LayoutFacts
<1>4. ASSUME NEW k \in 0 .. (KERNEL_PAGE_DIR_INDEX * ENTRIES - RESERVED_LO - 1)
      PROVE  ENTRIES + k \in UserArea /\ (ENTRIES + k) + 1 = ENTRIES + (k + 1)
  BY <1>1, <1>3, LayoutFacts DEF UserArea
<1> QED BY <1>1, <1>3, <1>4, LayoutFacts

\* __virt_reset_page_directory leaves nothing of the process.
LEMMA ResetFine ==
  ASSUME NEW m, NEW D, NEW H, NEW R, NEW end, Fine(m, D, H, R, end), NEW d \in D
  PROVE  LET x == ResetDirectory(m, d) IN
         /\ Fine(x, D, H, R, end) /\ (~m.panic => ~x.panic)
         /\ ~x.panic => \A k \in UserIdx : x.entry[d][k] = NONE
<1> DEFINE n == KERNEL_PAGE_DIR_INDEX * ENTRIES - RESERVED_LO
<1>1. n \in Nat
  BY AreaFacts
<1>2. PICK g : Steps("reset", d, 0, 0, m, n, g) /\ ResetDirectory(m, d) = g[n]
  BY <1>1, ResetSteps
<1>3. g[0] = m /\ \A k \in 0 .. (n - 1) : g[k + 1] = UnmapPage(g[k], d, ENTRIES + k)
  <2>1. g[0] = m /\ \A k \in 0 .. (n - 1) : g[k + 1] = Step("reset", d, 0, 0, g[k], k)
    BY <1>1, <1>2, StepsFacts
  <2> QED BY <2>1, AreaFacts DEF Step
<1> DEFINE S == {k \in 0 .. n : /\ Fine(g[k], D, H, R, end)
                                /\ ~m.panic => ~g[k].panic
                                /\ ~g[k].panic => Clean(g[k].entry, d, ENTRIES + k)}
<1>4. 0 \in S
  <2>1. Clean(m.entry, d, ENTRIES + 0)
    BY AreaFacts, LayoutFacts DEF Clean, UserIdx, Idx
  <2> QED BY <1>1, <1>3, <2>1
<1>5. ASSUME NEW k \in 0 .. (n - 1), k \in S PROVE k + 1 \in S
  <2>1. ENTRIES + k \in UserArea /\ (ENTRIES + k) + 1 = ENTRIES + (k + 1)
    BY AreaFacts
  <2>2. /\ Fine(UnmapPage(g[k], d, ENTRIES + k), D, H, R, end)
        /\ ~g[k].panic => ~UnmapPage(g[k], d, ENTRIES + k).panic
        /\ ~UnmapPage(g[k], d, ENTRIES + k).panic =>
             Clean(UnmapPage(g[k], d, ENTRIES + k).entry, d, (ENTRIES + k) + 1)
    BY <2>1, <1>5, UnmapFine
  <2>3. g[k + 1] = UnmapPage(g[k], d, ENTRIES + k) /\ k + 1 \in 0 .. n
    BY <1>1, <1>3
  <2>4. /\ Fine(g[k], D, H, R, end) /\ (~m.panic => ~g[k].panic)
    BY <1>5
  <2>5. ~m.panic => ~g[k + 1].panic
    BY <2>2, <2>3, <2>4
  <2>6. /\ Fine(g[k + 1], D, H, R, end)
        /\ ~g[k + 1].panic => Clean(g[k + 1].entry, d, ENTRIES + (k + 1))
    BY <2>1, <2>2, <2>3
  <2> QED BY <2>3, <2>5, <2>6
<1> HIDE DEF S
<1>6. n \in S
  BY <1>1, <1>4, <1>5, CountUp
<1>7. /\ Fine(g[n], D, H, R, end) /\ (~m.panic => ~g[n].panic)
      /\ ~g[n].panic => Clean(g[n].entry, d, ENTRIES + n)
  BY <1>6 DEF S
<1>8. Clean(g[n].entry, d, ENTRIES + n) => \A k \in UserIdx : g[n].entry[d][k] = NONE
  BY AreaFacts, LayoutFacts DEF Clean, UserIdx
<1> QED BY <1>2, <1>7, <1>8

\* __virt_dealloc_page_directory.
LEMMA DeallocFine ==
  ASSUME NEW m, NEW D, NEW H, NEW R, NEW end, Fine(m, D, H, R, end), NEW d \in D
  PROVE  LET x == DeallocDirectory(m, d) IN
         Fine(x, D \ {d}, H, R, end) /\ (~m.panic => ~x.panic)
<1> DEFINE x == ResetDirectory(m, d)
           y == DeallocDirectory(m, d)
<1>1. /\ Fine(x, D, H, R, end) /\ (~m.panic => ~x.panic)
      /\ (~x.panic => \A k \in UserIdx : x.entry[d][k] = NONE)
  BY ResetFine
<1>2. y = [x EXCEPT !.taken = @ \ {d}]
  BY DEF DeallocDirectory, Unset
<1> HIDE DEF x, y
<1>3. /\ IsMem(y) /\ y.panic = x.panic /\ y.i = x.i /\ y.entry = x.entry
      /\ y.taken = x.taken \ {d}
  BY <1>1, <1>2 DEF Fine, IsMem
<1>4. ASSUME ~x.panic PROVE \E own : Owned(y.taken, y.entry, D \ {d}, H, R, end, own)
  <2>1. PICK own : Owned(x.taken, x.entry, D, H, R, end, own)
    BY <1>1, <1>4 DEF Fine
  <2>2. Owned(x.taken \ {d}, x.entry, D \ {d}, H, R, end, [own EXCEPT ![d] = FREE])
    BY <1>1, <1>4, <2>1, DropDir
  <2> QED BY <2>2, <1>3
<1> QED BY <1>1, <1>3, <1>4 DEF Fine, y

LEMMA MapPagesSteps ==
  ASSUME NEW m, NEW d, NEW page, NEW n \in Nat
  PROVE  \E g : Steps("map", d, page, 0, m, n, g) /\ MapPages(m, d, page, n) = g[n]
<1>1. PICK g : Steps("map", d, page, 0, m, n, g)
  BY StepsExist
<1>2. g = [k \in 0 .. n |-> IF k = 0 THEN m ELSE MapNew(g[k - 1], d, page + (k - 1))]
  BY <1>1 DEF Steps, Step
<1> QED BY <1>2 DEF MapPages, Rounds, Steps, Step

LEMMA MapPagesFine ==
  ASSUME NEW m, NEW D, NEW R, NEW end, Fine(m, D, {}, R, end), NEW d \in D,
         NEW page, NEW n \in Nat, \A k \in 0 .. (n - 1) : page + k \in UserArea
  PROVE  Fine(MapPages(m, d, page, n), D, {}, R, end)
<1>1. PICK g : Steps("map", d, page, 0, m, n, g) /\ MapPages(m, d, page, n) = g[n]
  BY MapPagesSteps
<1>2. g[0] = m /\ \A k \in 0 .. (n - 1) : g[k + 1] = MapNew(g[k], d, page + k)
  <2>1. g[0] = m /\ \A k \in 0 .. (n - 1) : g[k + 1] = Step("map", d, page, 0, g[k], k)
    BY <1>1, StepsFacts
  <2> QED BY <2>1 DEF Step
<1> DEFINE S == {k \in 0 .. n : Fine(g[k], D, {}, R, end)}
<1>3. 0 \in S
  BY <1>2
<1>4. ASSUME NEW k \in 0 .. (n - 1), k \in S PROVE k + 1 \in S
  <2>1. Fine(MapNew(g[k], d, page + k), D, {}, R, end)
    BY <1>4, MapNewFine
  <2>2. g[k + 1] = MapNew(g[k], d, page + k) /\ k + 1 \in 0 .. n
    BY <1>2
  <2> QED BY <2>1, <2>2
<1> HIDE DEF S
<1>5. n \in S
  BY <1>3, <1>4, CountUp
<1> QED BY <1>1, <1>5 DEF S

-----------------------------------------------------------------------------
(* __virt_clone_directory.                                                 *)

\* The entries from j on of table k of directory c are empty.
EmptyFrom(e, c, k, j) ==
  e[c][k] # NONE /\ \A i \in Idx : i >= j => e[e[c][k]][i] = NONE

LEMMA CopyPageFine ==
  ASSUME NEW m, NEW D, NEW H, NEW R, NEW end, Fine(m, D, H, R, end),
         NEW d, NEW c \in D, NEW k \in UserIdx, NEW j \in Idx,
         ~m.panic => d \in D /\ m.entry[d][k] # NONE /\ EmptyFrom(m.entry, c, k, j)
  PROVE  LET x == CopyPage(m, d, c, k, j) IN
         /\ Fine(x, D, H, R, end)
         /\ ~x.panic => /\ ~m.panic /\ x.entry[c] = m.entry[c] /\ x.entry[d] = m.entry[d]
                        /\ EmptyFrom(x.entry, c, k, j + 1)
<1> DEFINE a == GetFree(m)
           from == m.entry[m.entry[d][k]][j]
           t == m.entry[c][k]
           data == m.data[from]
           x == CopyPage(m, d, c, k, j)
<1>1. x = IF from = NONE THEN m
          ELSE [a EXCEPT !.entry[t][j] = a.got, !.data[a.got] = data]
  BY DEF CopyPage
<1>2. /\ Fine(a, D, H \cup {a.got}, R, end) /\ a.entry = m.entry
      /\ m.panic => a.panic
      /\ ~a.panic => a.got \in Frames /\ a.got \notin H /\ a.got \notin D
  BY Get
<1>3. j \in Nat
  BY DEF Idx
<1>4. t = m.entry[c][k]
  OBVIOUS
<1> HIDE DEF a, from, t, data, x
<1>5. CASE from = NONE
  BY <1>1, <1>3, <1>5 DEF EmptyFrom, x, Idx
<1>6. CASE from # NONE
  <2>0. ~a.panic => DOMAIN data = 0 .. (FRAME_SIZE - 1)
    <3>1. ASSUME ~a.panic PROVE from \in Frames
      <4>1. ~m.panic /\ from # NONE
        BY <1>2, <1>6, <3>1
      <4>2. PICK own : Owned(m.taken, m.entry, D, H, R, end, own)
        BY <4>1 DEF Fine
      <4> QED BY <4>1, <4>2 DEF Owned, UserOwned, from
    <3> QED BY <3>1, <1>2 DEF Fine, IsMem, data
  <2>1. /\ IsMem(x) /\ x.panic = a.panic /\ x.i = a.i /\ x.taken = a.taken
        /\ x.entry = WriteEntry(a, t, j, a.got).entry
    BY <1>1, <1>2, <1>6, <2>0 DEF Fine, IsMem, WriteEntry
  <2>2. CASE a.panic
    BY <2>1, <2>2, <1>2 DEF Fine, x
  <2>3. CASE ~a.panic
    <3>1. PICK own : Owned(a.taken, a.entry, D, H \cup {a.got}, R, end, own)
      BY <1>2, <2>3 DEF Fine
    <3>2. t # NONE /\ a.entry[c][k] = t /\ a.entry[t][j] = NONE
      BY <1>2, <1>3, <1>4, <2>3 DEF EmptyFrom
    <3>3. t \in Frames /\ t \notin D
      BY <3>1, <3>2, TablesApart
    <3>4. a.entry \in [Frames -> [Idx -> Nat]] /\ a.got \in Nat
      BY <3>1, <1>2, <2>3, NoneFacts DEF Owned
    <3>5. EntryIs(a.entry, x.entry, t, j, a.got)
      BY <2>1, <3>3, <3>4, <1>2, WriteEntryFacts DEF Fine
    <3>6. a.got \in H \cup {a.got} /\ (H \cup {a.got}) \ {a.got} = H
      BY <1>2, <2>3
    <3>7. Owned(a.taken, x.entry, D, (H \cup {a.got}) \ {a.got}, R, end,
                [own EXCEPT ![a.got] = PAGE(c, k, j)])
      BY <3>1, <3>2, <3>5, <3>6, LinkPage
    <3>8. Fine(x, D, H, R, end)
      BY <2>1, <2>3, <3>6, <3>7, <1>2 DEF Fine
    <3>9. x.entry[c] = m.entry[c] /\ x.entry[d] = m.entry[d]
      <4>1. c \in D /\ d \in D /\ D \subseteq Frames
        BY <3>1, <1>2, <2>3 DEF Owned
      <4> QED BY <4>1, <3>3, <3>5, <1>2 DEF EntryIs
    <3>10. EmptyFrom(x.entry, c, k, j + 1)
      <4>1. x.entry[c][k] = t
        BY <3>9, <1>4
      <4>2. \A i \in Idx : i >= j + 1 => i # j /\ i >= j
        BY <1>3 DEF Idx
      <4>3. \A i \in Idx : i >= j => m.entry[t][i] = NONE
        BY <1>2, <1>4, <2>3 DEF EmptyFrom
      <4>4. \A i \in Idx : i # j => x.entry[t][i] = m.entry[t][i]
        BY <3>5, <1>2 DEF EntryIs
      <4> QED BY <4>1, <4>2, <4>3, <4>4, <3>2 DEF EmptyFrom
    <3> QED BY <3>8, <3>9, <3>10, <1>2, <2>3 DEF x
  <2> QED BY <2>2, <2>3
<1> QED BY <1>5, <1>6

LEMMA CopyTableSteps ==
  ASSUME NEW m, NEW d, NEW c, NEW k, m.entry[d][k] # NONE, ENTRIES \in Nat
  PROVE  \E g : /\ Steps("table", d, c, k, AddTable(m, c, k), ENTRIES, g)
                /\ CopyTable(m, d, c, k) = g[ENTRIES]
<1> DEFINE a == AddTable(m, c, k)
<1>1. PICK g : Steps("table", d, c, k, a, ENTRIES, g)
  BY StepsExist
<1>2. g = [j \in 0 .. ENTRIES |-> IF j = 0 THEN a ELSE CopyPage(g[j - 1], d, c, k, j - 1)]
  BY <1>1 DEF Steps, Step
<1> DEFINE h == CHOOSE f : f = [j \in 0 .. ENTRIES |->
                  IF j = 0 THEN a ELSE CopyPage(f[j - 1], d, c, k, j - 1)]
<1>3. CopyTable(m, d, c, k) = h[ENTRIES]
  BY DEF CopyTable, Rounds, AddTable
<1>4. Steps("table", d, c, k, a, ENTRIES, h)
  BY <1>2 DEF Steps, Step
<1> QED BY <1>3, <1>4

LEMMA CopyTableFine ==
  ASSUME NEW m, NEW D, NEW H, NEW R, NEW end, Fine(m, D, H, R, end),
         NEW d \in D \cup {KernelDir}, NEW c \in D, NEW k \in UserIdx,
         ~m.panic => m.entry[c][k] = NONE
  PROVE  LET x == CopyTable(m, d, c, k) IN
         /\ Fine(x, D, H, R, end)
         /\ ~x.panic => /\ ~m.panic
                        /\ \A i \in Idx : i # k => x.entry[c][i] = m.entry[c][i]
<1>1. CASE m.entry[d][k] = NONE
  <2>1. CopyTable(m, d, c, k) = m
    BY <1>1 DEF CopyTable
  <2> QED BY <2>1
<1>2. CASE m.entry[d][k] # NONE
  <2> DEFINE a == AddTable(m, c, k)
  <2>1. PICK g : Steps("table", d, c, k, a, ENTRIES, g) /\ CopyTable(m, d, c, k) = g[ENTRIES]
    BY <1>2, CopyTableSteps, LayoutFacts
  <2>2. g[0] = a /\ \A j \in 0 .. (ENTRIES - 1) : g[j + 1] = CopyPage(g[j], d, c, k, j)
    <3>1. g[0] = a /\ \A j \in 0 .. (ENTRIES - 1) : g[j + 1] = Step("table", d, c, k, g[j], j)
      BY <2>1, StepsFacts, LayoutFacts
    <3> QED BY <3>1 DEF Step
  <2>3. /\ Fine(a, D, H, R, end) /\ (m.panic => a.panic)
        /\ ~a.panic => \E f \in Frames \ {NONE} : /\ f \notin D
                                                  /\ TableIs(m.entry, a.entry, c, k, f)
    <3>1. Place(D, c, k)
      BY DEF Place
    <3> QED BY <3>1, NewTable
  <2>9. ~a.panic => d \in D /\ a.entry[d][k] # NONE
    <3> SUFFICES ASSUME ~a.panic PROVE d \in D /\ a.entry[d][k] # NONE
      OBVIOUS
    <3>1. PICK own : Owned(m.taken, m.entry, D, H, R, end, own)
      BY <2>3 DEF Fine
    <3>2. d \in D /\ d \in Frames /\ d # c
      BY <1>2, <2>3, <3>1 DEF Owned, KernelOwned
    <3>3. PICK f \in Frames \ {NONE} : f \notin D /\ TableIs(m.entry, a.entry, c, k, f)
      BY <2>3
    <3> QED BY <1>2, <3>2, <3>3 DEF TableIs
  <2> HIDE DEF a
  <2> DEFINE S == {j \in 0 .. ENTRIES :
                     /\ Fine(g[j], D, H, R, end)
                     /\ ~g[j].panic => /\ ~a.panic /\ g[j].entry[c] = a.entry[c]
                                       /\ g[j].entry[d] = a.entry[d]
                                       /\ EmptyFrom(g[j].entry, c, k, j)}
  <2>4. 0 \in S
    <3>1. ~a.panic => EmptyFrom(a.entry, c, k, 0)
      BY <2>3 DEF TableIs, EmptyFrom
    <3> QED BY <2>2, <2>3, <3>1, LayoutFacts
  <2>5. ASSUME NEW j \in 0 .. (ENTRIES - 1), j \in S PROVE j + 1 \in S
    <3>1. j \in Idx
      BY DEF Idx, LAST
    <3>2. /\ Fine(g[j], D, H, R, end)
          /\ ~g[j].panic => /\ ~a.panic /\ g[j].entry[c] = a.entry[c]
                            /\ g[j].entry[d] = a.entry[d]
                            /\ EmptyFrom(g[j].entry, c, k, j)
      BY <2>5
    <3>3. /\ Fine(g[j + 1], D, H, R, end)
          /\ ~g[j + 1].panic => /\ ~g[j].panic /\ g[j + 1].entry[c] = g[j].entry[c]
                                /\ g[j + 1].entry[d] = g[j].entry[d]
                                /\ EmptyFrom(g[j + 1].entry, c, k, j + 1)
      <4>1. g[j + 1] = CopyPage(g[j], d, c, k, j)
        BY <2>2
      <4>2. ~g[j].panic => d \in D /\ g[j].entry[d][k] # NONE
        BY <2>9, <3>2
      <4> QED BY <4>1, <4>2, <3>1, <3>2, CopyPageFine
    <3>4. j + 1 \in 0 .. ENTRIES
      BY LayoutFacts
    <3> QED BY <3>2, <3>3, <3>4
  <2> HIDE DEF S
  <2>6. ENTRIES \in S
    BY <2>4, <2>5, CountUp, LayoutFacts
  <2>7. /\ Fine(g[ENTRIES], D, H, R, end)
        /\ ~g[ENTRIES].panic => ~a.panic /\ g[ENTRIES].entry[c] = a.entry[c]
    BY <2>6 DEF S
  <2>8. ~a.panic => \A i \in Idx : i # k => a.entry[c][i] = m.entry[c][i]
    BY <2>3 DEF TableIs
  <2> QED BY <2>1, <2>3, <2>7, <2>8
<1> QED BY <1>1, <1>2

\* The copy, with what it shares with directory d.
NewSpace(m, d) ==
  LET a == GetFree(m) IN [a EXCEPT !.entry[a.got] = Shared(m, d, a.got)]

LEMMA NewSpaceFine ==
  ASSUME NEW m, NEW D, NEW R, NEW end, Fine(m, D, {}, R, end), NEW d \in D \cup {KernelDir}
  PROVE  LET n == NewSpace(m, d)
             c == GetFree(m).got
         IN  /\ Fine(n, D \cup {c}, {}, R, end)
             /\ ~n.panic => /\ ~m.panic /\ c \in Frames \ {NONE} /\ c \notin D
                            /\ \A k \in UserIdx : n.entry[c][k] = NONE
<1> DEFINE a == GetFree(m)
           c == a.got
           n == NewSpace(m, d)
<1>1. /\ Fine(a, D, {} \cup {c}, R, end) /\ a.entry = m.entry
      /\ m.panic => a.panic
      /\ ~a.panic => c \in Frames /\ c \notin D
  BY Get
<1>2. n = [a EXCEPT !.entry[c] = Shared(m, d, c)]
  BY DEF NewSpace
<1> HIDE DEF a, n
<1>3. /\ IsMem(n) /\ n.panic = a.panic /\ n.i = a.i /\ n.taken = a.taken
      /\ n.entry = [a.entry EXCEPT ![c] = Shared(m, d, c)]
  BY <1>1, <1>2 DEF IsMem, Fine
<1>4. CASE a.panic
  BY <1>1, <1>3, <1>4 DEF Fine, n, a
<1>5. CASE ~a.panic
  <2>1. PICK own : Owned(a.taken, a.entry, D, {} \cup {c}, R, end, own)
    BY <1>1, <1>5 DEF Fine
  <2>2. c \in Frames /\ c # NONE /\ c \in Nat /\ d \in Frames
    <3>1. NONE \notin {} \cup {c} /\ KernelDir \in Frames
      BY <2>1, NoneOwned
    <3>2. D \subseteq Frames
      BY <2>1 DEF Owned
    <3> QED BY <3>1, <3>2, <1>1, <1>5, NoneFacts
  <2>3. DirIs(a.entry, n.entry, d, c)
    <3>1. a.entry \in [Frames -> [Idx -> Nat]] /\ m.entry = a.entry
      BY <2>1, <1>1 DEF Owned
    <3>2. Shared(m, d, c) \in [Idx -> Nat]
      BY <2>2, <3>1 DEF Shared, Idx, NONE
    <3>3. n.entry \in [Frames -> [Idx -> Nat]]
      BY <3>1, <3>2, <1>3
    <3>4. n.entry[c] = Shared(m, d, c) /\ \A g \in Frames : g # c => n.entry[g] = a.entry[g]
      BY <2>2, <3>1, <1>3
    <3>5. \A k \in UserIdx : Shared(m, d, c)[k] = NONE
      <4>1. \A k \in UserIdx : k \in Idx /\ k # LAST /\ k # 0 /\ ~ (k >= KERNEL_PAGE_DIR_INDEX)
        BY LayoutFacts DEF UserIdx, Idx
      <4> QED BY <4>1 DEF Shared, Idx
    <3>6. \A k \in KernelIdx : Shared(m, d, c)[k] = a.entry[d][k]
      <4>1. \A k \in KernelIdx : k \in Idx /\ k # LAST /\ (k = 0 \/ k >= KERNEL_PAGE_DIR_INDEX)
        BY LayoutFacts DEF KernelIdx, Idx
      <4> QED BY <4>1, <3>1 DEF Shared, Idx
    <3> QED BY <3>3, <3>4, <3>5, <3>6 DEF DirIs
  <2>4. Owned(a.taken, n.entry, D \cup {c}, ({} \cup {c}) \ {c}, R, end, [own EXCEPT ![c] = DIR])
    BY <2>1, <2>3, NewDir
  <2>5. ({} \cup {c}) \ {c} = {}
    OBVIOUS
  <2>6. Fine(n, D \cup {c}, {}, R, end)
    BY <2>4, <2>5, <1>1, <1>3, <1>5 DEF Fine
  <2>7. \A k \in UserIdx : n.entry[c][k] = NONE
    BY <2>3 DEF DirIs
  <2> QED BY <2>2, <2>6, <2>7, <1>1, <1>5 DEF n, a
<1> QED BY <1>4, <1>5, <1>1 DEF Fine

LEMMA CloneSteps ==
  ASSUME NEW m, NEW d, KERNEL_PAGE_DIR_INDEX - RESERVED_LO \div ENTRIES \in Nat
  PROVE  LET c == GetFree(m).got
             first == RESERVED_LO \div ENTRIES
             n == KERNEL_PAGE_DIR_INDEX - first
         IN  /\ CloneDirectory(m, d).copied = c
             /\ \E g : /\ Steps("clone", d, c, first, NewSpace(m, d), n, g)
                       /\ CloneDirectory(m, d).mem = g[n]
<1> DEFINE c == GetFree(m).got
           a == NewSpace(m, d)
           first == RESERVED_LO \div ENTRIES
           n == KERNEL_PAGE_DIR_INDEX - first
<1>1. PICK g : Steps("clone", d, c, first, a, n, g)
  BY StepsExist
<1>2. g = [k \in 0 .. n |-> IF k = 0 THEN a ELSE CopyTable(g[k - 1], d, c, first + (k - 1))]
  BY <1>1 DEF Steps, Step
<1>3. CloneDirectory(m, d).mem = Rounds(LAMBDA x, k : CopyTable(x, d, c, first + k), a, n)
  BY DEF CloneDirectory, NewSpace
<1>4. CloneDirectory(m, d).copied = c
  BY DEF CloneDirectory
<1> QED BY <1>2, <1>3, <1>4 DEF Rounds, Steps, Step

LEMMA CloneFine ==
  ASSUME NEW m, NEW D, NEW R, NEW end, Fine(m, D, {}, R, end), NEW d \in D \cup {KernelDir}
  PROVE  LET x == CloneDirectory(m, d) IN
         /\ Fine(x.mem, D \cup {x.copied}, {}, R, end)
         /\ ~x.mem.panic => x.copied \in Frames \ {NONE} /\ x.copied \notin D
<1> DEFINE c == GetFree(m).got
           a == NewSpace(m, d)
           n == KERNEL_PAGE_DIR_INDEX - 1
<1>0. RESERVED_LO \div ENTRIES = 1 /\ n \in Nat
  BY AreaFacts, LayoutFacts
<1>1. PICK g : /\ Steps("clone", d, c, 1, a, n, g)
               /\ CloneDirectory(m, d).mem = g[n]
               /\ CloneDirectory(m, d).copied = c
  <2>1. KERNEL_PAGE_DIR_INDEX - RESERVED_LO \div ENTRIES = n
    BY <1>0
  <2>2. KERNEL_PAGE_DIR_INDEX - RESERVED_LO \div ENTRIES \in Nat
    BY <1>0, <2>1
  <2>3. /\ CloneDirectory(m, d).copied = c
        /\ \E g : /\ Steps("clone", d, c, RESERVED_LO \div ENTRIES, a,
                           KERNEL_PAGE_DIR_INDEX - RESERVED_LO \div ENTRIES, g)
                  /\ CloneDirectory(m, d).mem
                       = g[KERNEL_PAGE_DIR_INDEX - RESERVED_LO \div ENTRIES]
    BY <2>2, CloneSteps
  <2> HIDE DEF a, c, n
  <2> QED BY <2>1, <2>3, <1>0
<1>2. g[0] = a /\ \A k \in 0 .. (n - 1) : g[k + 1] = CopyTable(g[k], d, c, 1 + k)
  <2>1. g[0] = a /\ \A k \in 0 .. (n - 1) : g[k + 1] = Step("clone", d, c, 1, g[k], k)
    BY <1>0, <1>1, StepsFacts
  <2> QED BY <2>1 DEF Step
<1>3. /\ Fine(a, D \cup {c}, {}, R, end)
      /\ ~a.panic => /\ ~m.panic /\ c \in Frames \ {NONE} /\ c \notin D
                     /\ \A k \in UserIdx : a.entry[c][k] = NONE
  BY NewSpaceFine
<1> HIDE DEF a, c
<1> DEFINE S == {k \in 0 .. n :
                   /\ Fine(g[k], D \cup {c}, {}, R, end)
                   /\ ~g[k].panic => /\ ~a.panic
                                     /\ \A i \in UserIdx : i > k => g[k].entry[c][i] = NONE}
<1>4. 0 \in S
  BY <1>0, <1>2, <1>3
<1>5. ASSUME NEW k \in 0 .. (n - 1), k \in S PROVE k + 1 \in S
  <2>1. /\ 1 + k \in UserIdx /\ 1 + k = k + 1 /\ k + 1 \in 0 .. n
        /\ \A i \in UserIdx : i > k + 1 => i > k /\ i # k + 1 /\ i \in Idx
    BY <1>0, LayoutFacts DEF UserIdx
  <2>2. /\ Fine(g[k], D \cup {c}, {}, R, end)
        /\ ~g[k].panic => /\ ~a.panic
                          /\ \A i \in UserIdx : i > k => g[k].entry[c][i] = NONE
    BY <1>5
  <2>3. ~g[k].panic => g[k].entry[c][1 + k] = NONE
    <3>1. 1 + k > k
      OBVIOUS
    <3> QED BY <2>1, <2>2, <3>1
  <2>4. /\ Fine(g[k + 1], D \cup {c}, {}, R, end)
        /\ ~g[k + 1].panic =>
             /\ ~g[k].panic
             /\ \A i \in Idx : i # 1 + k => g[k + 1].entry[c][i] = g[k].entry[c][i]
    <3> DEFINE y == g[k]
               x == CopyTable(y, d, c, 1 + k)
    <3>1. g[k + 1] = x /\ c \in D \cup {c} /\ d \in (D \cup {c}) \cup {KernelDir}
      BY <1>2
    <3>2. Fine(y, D \cup {c}, {}, R, end) /\ (~y.panic => y.entry[c][1 + k] = NONE)
      BY <2>2, <2>3
    <3> HIDE DEF y
    <3>3. /\ Fine(x, D \cup {c}, {}, R, end)
          /\ ~x.panic => /\ ~y.panic
                         /\ \A i \in Idx : i # 1 + k => x.entry[c][i] = y.entry[c][i]
      BY <2>1, <3>1, <3>2, CopyTableFine
    <3> QED BY <3>1, <3>3 DEF y
  <2> QED BY <2>1, <2>2, <2>4
<1> HIDE DEF S
<1>6. n \in S
  BY <1>0, <1>4, <1>5, CountUp
<1>7. Fine(g[n], D \cup {c}, {}, R, end) /\ (~g[n].panic => ~a.panic)
  BY <1>6 DEF S
<1> QED BY <1>1, <1>3, <1>7

-----------------------------------------------------------------------------
(* What a clone holds.                                                     *)

\* Frame from has been copied to entry j of table t.  Nothing that was in use has
\* changed but that entry.
PageCopied(m, x, t, j, from) ==
  /\ m.taken \subseteq x.taken
  /\ \A g \in Frames : g # t => x.entry[g] = m.entry[g]
  /\ \A g \in m.taken : x.data[g] = m.data[g]
  /\ \A i \in Idx : i # j => x.entry[t][i] = m.entry[t][i]
  /\ IF from = NONE THEN x.entry[t][j] = NONE
     ELSE /\ x.entry[t][j] \in x.taken \ {NONE}
          /\ x.data[x.entry[t][j]] = m.data[from]

LEMMA CopyPageCopies ==
  ASSUME NEW m, NEW D, NEW H, NEW R, NEW end, Fine(m, D, H, R, end),
         NEW d, NEW c \in D, NEW k \in UserIdx, NEW j \in Idx, NEW t,
         t = m.entry[c][k], ~m.panic, EmptyFrom(m.entry, c, k, j),
         NEW from, from = m.entry[m.entry[d][k]][j],
         NEW x, x = CopyPage(m, d, c, k, j), ~x.panic
  PROVE  PageCopied(m, x, t, j, from)
<1> DEFINE a == GetFree(m)
<1>1. x = IF from = NONE THEN m
          ELSE [a EXCEPT !.entry[t][j] = a.got, !.data[a.got] = m.data[from]]
  BY DEF CopyPage
<1>2. /\ Fine(a, D, H \cup {a.got}, R, end) /\ a.entry = m.entry /\ a.data = m.data
      /\ ~a.panic => a.got \in Frames /\ a.got \notin m.taken
  BY Get
<1>3. m.entry[t][j] = NONE /\ j \in Nat /\ t # NONE
  BY DEF EmptyFrom, Idx
<1>4. CASE from = NONE
  BY <1>1, <1>3, <1>4 DEF PageCopied
<1>5. CASE from # NONE
  <2>0. a.taken = m.taken \cup {a.got}
    <3>1. PICK own : Owned(m.taken, m.entry, D, H, R, end, own)
      BY DEF Fine
    <3>2. ~a.panic
      BY <1>1, <1>2, <1>5 DEF Fine, IsMem
    <3>3. IsMem(m) /\ m.i \in Nat /\ m.taken \subseteq Frames
      BY <3>1 DEF Fine, Owned
    <3> QED BY <3>2, <3>3, GetFreeFacts
  <2> HIDE DEF a
  <2>1. x = [a EXCEPT !.entry[t][j] = a.got, !.data[a.got] = m.data[from]]
    BY <1>1, <1>5
  <2>2. /\ x.panic = a.panic /\ x.taken = a.taken
        /\ x.entry = WriteEntry(a, t, j, a.got).entry
        /\ x.data = [a.data EXCEPT ![a.got] = m.data[from]]
    BY <2>1, <1>2 DEF Fine, IsMem, WriteEntry
  <2>3. ~a.panic /\ a.got \in Frames /\ a.got \notin m.taken
    BY <2>2, <1>2
  <2>4. PICK own : Owned(a.taken, a.entry, D, H \cup {a.got}, R, end, own)
    BY <1>2, <2>3 DEF Fine
  <2>5. t \in Frames
    BY <2>4, <1>2, <1>3, TablesApart
  <2>6. a.entry \in [Frames -> [Idx -> Nat]] /\ a.got \in Nat
    BY <2>3, <2>4, NoneFacts DEF Owned
  <2>7. EntryIs(a.entry, x.entry, t, j, a.got)
    BY <2>2, <2>5, <2>6, <1>2, WriteEntryFacts DEF Fine
  <2>8. a.got # NONE
    BY <2>4, NoneOwned
  <2>9. DOMAIN a.data = Frames
    BY <1>2 DEF Fine, IsMem
  <2>10. x.data[a.got] = m.data[from]
    BY <2>2, <2>3, <2>9
  <2>11. \A g \in m.taken : x.data[g] = m.data[g]
    <3>1. m.taken \subseteq Frames
      BY <2>0, <2>4 DEF Owned
    <3> QED BY <3>1, <2>2, <2>3, <2>9, <1>2
  <2>12. m.taken \subseteq x.taken /\ a.got \in x.taken
    BY <2>0, <2>2
  <2>13. /\ \A g \in Frames : g # t => x.entry[g] = m.entry[g]
         /\ x.entry[t][j] = a.got /\ \A i \in Idx : i # j => x.entry[t][i] = m.entry[t][i]
    BY <2>7, <1>2 DEF EntryIs
  <2> QED BY <2>8, <2>10, <2>11, <2>12, <2>13, <1>5 DEF PageCopied
<1> QED BY <1>4, <1>5

\* Table k of directory c has in x what that of directory d has in m: in frames
\* that are in use, and not empty where that is not.
TableCopied(m, x, d, c, k, n) ==
  \A j \in Idx : j < n =>
    LET f == m.entry[m.entry[d][k]][j]
        g == x.entry[x.entry[c][k]][j]
    IN  IF f = NONE THEN g = NONE
        ELSE g \in x.taken \ {NONE} /\ x.data[g] = m.data[f]

\* What was in use stays as it is, but for directory c.
Kept(m, x, c) ==
  /\ m.taken \subseteq x.taken
  /\ \A g \in m.taken : /\ g # c => x.entry[g] = m.entry[g]
                        /\ x.data[g] = m.data[g]

\* The new table is a frame that was not in use.
LEMMA NewTableKeeps ==
  ASSUME NEW m, NEW D, NEW H, NEW R, NEW end, Fine(m, D, H, R, end), ~m.panic,
         NEW c \in D, NEW k \in UserIdx, m.entry[c][k] = NONE,
         NEW n, n = AddTable(m, c, k), ~n.panic
  PROVE  /\ Kept(m, n, c)
         /\ n.entry[c][k] \in n.taken \ m.taken
         /\ EmptyFrom(n.entry, c, k, 0)
         /\ \A i \in Idx : i # k => n.entry[c][i] = m.entry[c][i]
<1> DEFINE a == GetFree(m)
<1>1. /\ a.entry = m.entry /\ a.data = m.data /\ IsMem(a)
      /\ ~a.panic => a.got \in Frames /\ a.got \notin m.taken /\ a.got \notin D
      /\ Fine(a, D, H \cup {a.got}, R, end)
  BY Get DEF Fine
<1>2. PICK own : Owned(m.taken, m.entry, D, H, R, end, own)
  BY DEF Fine
<1>3. IsMem(m) /\ m.i \in Nat /\ m.taken \subseteq Frames
  BY <1>2 DEF Fine, Owned
<1>4. a.panic = TRUE \/ a.taken = m.taken \cup {a.got}
  BY <1>3, GetFreeFacts
<1>5. n = [a EXCEPT !.entry[c][k] = a.got, !.entry[a.got] = Blank]
  BY DEF AddTable
<1> HIDE DEF a
<1>6. /\ n.panic = a.panic /\ n.taken = a.taken /\ n.data = a.data
      /\ n.entry = [[a.entry EXCEPT ![c][k] = a.got] EXCEPT ![a.got] = Blank]
  BY <1>1, <1>5 DEF IsMem
<1>7. ~a.panic /\ a.got \in Frames /\ a.got \notin m.taken /\ a.got \notin D
  BY <1>1, <1>6
<1>8. PICK own2 : Owned(a.taken, a.entry, D, H \cup {a.got}, R, end, own2)
  BY <1>1, <1>7 DEF Fine
<1>9. a.got # NONE /\ D \subseteq Frames /\ a.entry \in [Frames -> [Idx -> Nat]]
  <2>1. NONE \notin H \cup {a.got}
    BY <1>8, NoneOwned
  <2> QED BY <2>1, <1>8 DEF Owned
<1>10. c \in Frames /\ c # a.got /\ k \in Idx
  BY <1>7, <1>9, LayoutFacts
<1>11. /\ n.entry[a.got] = Blank
       /\ n.entry[c] = [a.entry[c] EXCEPT ![k] = a.got]
       /\ \A g \in Frames : g # c /\ g # a.got => n.entry[g] = a.entry[g]
  BY <1>6, <1>7, <1>9, <1>10
<1>12. n.entry[c][k] = a.got /\ \A i \in Idx : i # k => n.entry[c][i] = m.entry[c][i]
  BY <1>1, <1>9, <1>10, <1>11
<1>13. EmptyFrom(n.entry, c, k, 0)
  <2>1. \A i \in Idx : Blank[i] = NONE
    BY DEF Blank, Idx, NONE
  <2> QED BY <2>1, <1>9, <1>11, <1>12 DEF EmptyFrom
<1>14. n.taken = m.taken \cup {a.got}
  BY <1>4, <1>6, <1>7
<1>15. Kept(m, n, c)
  BY <1>1, <1>3, <1>6, <1>7, <1>11, <1>14 DEF Kept
<1> QED BY <1>7, <1>12, <1>13, <1>14, <1>15

\* The directory, the tables and the pages of a process are in use.
LEMMA SpaceTaken ==
  ASSUME NEW m, NEW D, NEW H, NEW R, NEW end, Fine(m, D, H, R, end), ~m.panic,
         NEW d \in D
  PROVE  /\ d \in m.taken /\ m.taken \subseteq Frames
         /\ \A k \in UserIdx : m.entry[d][k] # NONE =>
              /\ m.entry[d][k] \in m.taken \ D
              /\ \A j \in Idx : m.entry[m.entry[d][k]][j] # NONE =>
                   m.entry[m.entry[d][k]][j] \in m.taken
<1>1. PICK own : Owned(m.taken, m.entry, D, H, R, end, own)
  BY DEF Fine
<1>2. d \in m.taken /\ m.taken \subseteq Frames
  BY <1>1, OwnerFacts DEF Owned, UserOwned
<1>3. ASSUME NEW k \in UserIdx, m.entry[d][k] # NONE PROVE m.entry[d][k] \in m.taken \ D
  BY <1>1, <1>3, TablesApart
<1>4. ASSUME NEW k \in UserIdx, m.entry[d][k] # NONE,
             NEW j \in Idx, m.entry[m.entry[d][k]][j] # NONE
      PROVE  m.entry[m.entry[d][k]][j] \in m.taken
  <2> DEFINE f == m.entry[m.entry[d][k]][j]
  <2>1. f \in Frames /\ own[f] = PAGE(d, k, j)
    BY <1>1, <1>4 DEF Owned, UserOwned
  <2>2. own[f] # FREE
    BY <2>1, OwnerFacts
  <2> QED BY <1>1, <2>1, <2>2 DEF Owned
<1> QED BY <1>2, <1>3, <1>4

\* What directory d has in m under entry k, directory c has in x.
Same(m, x, d, c, k) ==
  IF m.entry[d][k] = NONE THEN x.entry[c][k] = NONE
  ELSE x.entry[c][k] # NONE /\ TableCopied(m, x, d, c, k, ENTRIES)

LEMMA CopyTableCopies ==
  ASSUME NEW m, NEW D, NEW H, NEW R, NEW end, Fine(m, D, H, R, end), ~m.panic,
         NEW d \in D, NEW c \in D, d # c, NEW k \in UserIdx, m.entry[c][k] = NONE,
         NEW x, x = CopyTable(m, d, c, k), ~x.panic
  PROVE  /\ Kept(m, x, c) /\ Same(m, x, d, c, k)
         /\ \A i \in Idx : i # k => x.entry[c][i] = m.entry[c][i]
<1>1. CASE m.entry[d][k] = NONE
  <2>1. x = m
    BY <1>1 DEF CopyTable
  <2> QED BY <2>1, <1>1 DEF Kept, Same
<1>2. CASE m.entry[d][k] # NONE
  <2> DEFINE a == AddTable(m, c, k)
             from == m.entry[d][k]
  <2>1. PICK g : Steps("table", d, c, k, a, ENTRIES, g) /\ x = g[ENTRIES]
    BY <1>2, CopyTableSteps, LayoutFacts
  <2>2. g[0] = a /\ \A j \in 0 .. (ENTRIES - 1) : g[j + 1] = CopyPage(g[j], d, c, k, j)
    <3>1. g[0] = a /\ \A j \in 0 .. (ENTRIES - 1) : g[j + 1] = Step("table", d, c, k, g[j], j)
      BY <2>1, StepsFacts, LayoutFacts
    <3> QED BY <3>1 DEF Step
  <2>3. Fine(a, D, H, R, end)
    <3>1. Place(D, c, k)
      BY DEF Place
    <3> QED BY <3>1, NewTable
  <2>4. ~a.panic => /\ Kept(m, a, c)
                    /\ a.entry[c][k] \in a.taken \ m.taken
                    /\ EmptyFrom(a.entry, c, k, 0)
                    /\ \A i \in Idx : i # k => a.entry[c][i] = m.entry[c][i]
    BY NewTableKeeps
  <2>5. /\ d \in m.taken /\ from \in m.taken /\ from # c /\ m.taken \subseteq Frames
        /\ \A j \in Idx : m.entry[from][j] # NONE => m.entry[from][j] \in m.taken
    BY <1>2, SpaceTaken
  <2> HIDE DEF a, from
  <2> DEFINE S == {j \in 0 .. ENTRIES :
                     /\ Fine(g[j], D, H, R, end)
                     /\ ~g[j].panic => /\ ~a.panic /\ g[j].entry[c] = a.entry[c]
                                       /\ EmptyFrom(g[j].entry, c, k, j)
                                       /\ Kept(m, g[j], c)
                                       /\ TableCopied(m, g[j], d, c, k, j)}
  <2>6. 0 \in S
    <3>1. \A y : TableCopied(m, y, d, c, k, 0)
      BY DEF TableCopied, Idx
    <3> QED BY <2>2, <2>3, <2>4, <3>1, LayoutFacts
  <2>7. ASSUME NEW j \in 0 .. (ENTRIES - 1), j \in S PROVE j + 1 \in S
    <3>1. j \in Idx /\ j + 1 \in 0 .. ENTRIES
      BY LayoutFacts DEF Idx, LAST
    <3>2. PICK y, z : y = g[j] /\ z = g[j + 1]
      OBVIOUS
    <3>3. /\ Fine(y, D, H, R, end)
          /\ ~y.panic => /\ ~a.panic /\ y.entry[c] = a.entry[c]
                         /\ EmptyFrom(y.entry, c, k, j)
                         /\ Kept(m, y, c) /\ TableCopied(m, y, d, c, k, j)
      BY <2>7, <3>2
    <3>4. z = CopyPage(y, d, c, k, j)
      BY <2>2, <3>2
    <3>5. /\ Fine(z, D, H, R, end)
          /\ ~z.panic => /\ ~y.panic /\ z.entry[c] = y.entry[c]
                         /\ EmptyFrom(z.entry, c, k, j + 1)
      <4>1. ~y.panic => y.entry[d][k] # NONE
        BY <1>2, <2>5, <3>3 DEF Kept
      <4> QED BY <4>1, <3>1, <3>3, <3>4, CopyPageFine
    <3>6. ASSUME ~z.panic
          PROVE  Kept(m, z, c) /\ TableCopied(m, z, d, c, k, j + 1)
      <4>1. /\ ~y.panic /\ ~a.panic /\ y.entry[c] = a.entry[c] /\ z.entry[c] = y.entry[c]
            /\ EmptyFrom(y.entry, c, k, j)
            /\ Kept(m, y, c) /\ TableCopied(m, y, d, c, k, j)
        BY <3>3, <3>5, <3>6
      <4> PICK t : t = y.entry[c][k]
        OBVIOUS
      <4>2. t \notin m.taken /\ z.entry[c][k] = t
        BY <2>4, <4>1
      <4>3. y.entry[y.entry[d][k]][j] = m.entry[from][j]
        BY <2>5, <4>1 DEF Kept, from
      <4>4. /\ y.taken \subseteq z.taken
            /\ \A f \in Frames : f # t => z.entry[f] = y.entry[f]
            /\ \A f \in y.taken : z.data[f] = y.data[f]
            /\ \A i \in Idx : i # j => z.entry[t][i] = y.entry[t][i]
            /\ IF m.entry[from][j] = NONE THEN z.entry[t][j] = NONE
               ELSE /\ z.entry[t][j] \in z.taken \ {NONE}
                    /\ z.data[z.entry[t][j]] = y.data[m.entry[from][j]]
        <5> PICK f : f = m.entry[from][j]
          OBVIOUS
        <5>1. Fine(y, D, H, R, end) /\ ~y.panic /\ EmptyFrom(y.entry, c, k, j) /\ j \in Idx
          BY <3>1, <3>3, <4>1
        <5>2. f = y.entry[y.entry[d][k]][j] /\ ~z.panic /\ t = y.entry[c][k]
          BY <3>6, <4>3
        <5> HIDE DEF S
        <5>3. PageCopied(y, z, t, j, f)
          BY ONLY <3>4, <5>1, <5>2, CopyPageCopies, k \in UserIdx, c \in D
        <5> QED BY <5>3 DEF PageCopied
      <4>5. Kept(m, z, c)
        BY <2>5, <4>1, <4>2, <4>4 DEF Kept
      <4>6. m.entry[from][j] # NONE => y.data[m.entry[from][j]] = m.data[m.entry[from][j]]
        BY <2>5, <3>1, <4>1 DEF Kept
      <4>7. ASSUME NEW i \in Idx, i < j + 1
            PROVE  IF m.entry[from][i] = NONE THEN z.entry[t][i] = NONE
                   ELSE /\ z.entry[t][i] \in z.taken \ {NONE}
                        /\ z.data[z.entry[t][i]] = m.data[m.entry[from][i]]
        <5>1. CASE i = j
          BY <4>4, <4>6, <5>1
        <5>2. CASE i # j
          <6>1. i < j
            BY <4>7, <5>2, <3>1 DEF Idx
          <6>2. IF m.entry[from][i] = NONE THEN y.entry[t][i] = NONE
                ELSE /\ y.entry[t][i] \in y.taken \ {NONE}
                     /\ y.data[y.entry[t][i]] = m.data[m.entry[from][i]]
            BY <6>1, <4>1 DEF TableCopied, from
          <6> QED BY <6>2, <5>2, <4>4
        <5> QED BY <5>1, <5>2
      <4>8. TableCopied(m, z, d, c, k, j + 1)
        BY <4>2, <4>7 DEF TableCopied, from
      <4> QED BY <4>5, <4>8
    <3>7. /\ Fine(z, D, H, R, end)
          /\ ~z.panic => /\ ~a.panic /\ z.entry[c] = a.entry[c]
                         /\ EmptyFrom(z.entry, c, k, j + 1)
                         /\ Kept(m, z, c) /\ TableCopied(m, z, d, c, k, j + 1)
      BY <3>3, <3>5, <3>6
    <3> QED BY <3>1, <3>2, <3>7
  <2> HIDE DEF S
  <2>8. ENTRIES \in S
    BY <2>6, <2>7, CountUp, LayoutFacts
  <2>9. /\ ~a.panic /\ x.entry[c] = a.entry[c]
        /\ EmptyFrom(x.entry, c, k, ENTRIES)
        /\ Kept(m, x, c) /\ TableCopied(m, x, d, c, k, ENTRIES)
    BY <2>1, <2>8 DEF S
  <2>10. Same(m, x, d, c, k)
    BY <2>9, <1>2 DEF Same, EmptyFrom
  <2> QED BY <2>4, <2>9, <2>10
<1> QED BY <1>1, <1>2

\* The original stays what it was while other tables are copied ...
LEMMA SameSince ==
  ASSUME NEW m, NEW D, NEW H, NEW R, NEW end, Fine(m, D, H, R, end), ~m.panic,
         NEW d \in D, NEW c, d # c, NEW k \in UserIdx,
         m.entry[d][k] # NONE => m.entry[d][k] # c,
         NEW y, Kept(m, y, c), NEW x, Same(y, x, d, c, k)
  PROVE  Same(m, x, d, c, k)
<1>1. /\ d \in m.taken
      /\ m.entry[d][k] # NONE =>
           /\ m.entry[d][k] \in m.taken
           /\ \A j \in Idx : m.entry[m.entry[d][k]][j] # NONE =>
                m.entry[m.entry[d][k]][j] \in m.taken
  BY SpaceTaken
<1>2. y.entry[d][k] = m.entry[d][k]
  BY <1>1 DEF Kept
<1>3. CASE m.entry[d][k] = NONE
  BY <1>2, <1>3 DEF Same
<1>4. CASE m.entry[d][k] # NONE
  <2>1. x.entry[c][k] # NONE /\ TableCopied(y, x, d, c, k, ENTRIES)
    BY <1>2, <1>4 DEF Same
  <2>2. y.entry[y.entry[d][k]] = m.entry[m.entry[d][k]]
    BY <1>1, <1>2, <1>4 DEF Kept
  <2>3. \A j \in Idx : LET f == m.entry[m.entry[d][k]][j] IN
                       f # NONE => y.data[f] = m.data[f]
    BY <1>1, <1>4 DEF Kept
  <2>4. TableCopied(m, x, d, c, k, ENTRIES)
    BY <2>1, <2>2, <2>3 DEF TableCopied
  <2> QED BY <2>1, <2>4, <1>4 DEF Same
<1> QED BY <1>3, <1>4

\* ... and so does a table that has been copied.
LEMMA SameStays ==
  ASSUME NEW m, NEW d, NEW k \in UserIdx,
         NEW y, NEW D, NEW H, NEW R, NEW end, Fine(y, D, H, R, end), ~y.panic,
         NEW c \in D, Same(m, y, d, c, k),
         NEW x, Kept(y, x, c), x.entry[c][k] = y.entry[c][k]
  PROVE  Same(m, x, d, c, k)
<1>1. y.entry[c][k] # NONE => y.entry[c][k] \in y.taken /\ y.entry[c][k] # c
  BY SpaceTaken
<1>2. CASE m.entry[d][k] = NONE
  BY <1>2 DEF Same
<1>3. CASE m.entry[d][k] # NONE
  <2>1. y.entry[c][k] # NONE /\ TableCopied(m, y, d, c, k, ENTRIES)
    BY <1>3 DEF Same
  <2>2. x.entry[x.entry[c][k]] = y.entry[y.entry[c][k]]
    BY <1>1, <2>1 DEF Kept
  <2>3. \A g \in y.taken : g \in x.taken /\ x.data[g] = y.data[g]
    BY DEF Kept
  <2>4. TableCopied(m, x, d, c, k, ENTRIES)
    BY <2>1, <2>2, <2>3 DEF TableCopied
  <2> QED BY <2>1, <2>4, <1>3 DEF Same
<1> QED BY <1>2, <1>3


\* The copy's directory is a frame that was not in use, too.
LEMMA NewSpaceKeeps ==
  ASSUME NEW m, NEW D, NEW R, NEW end, Fine(m, D, {}, R, end), ~m.panic, NEW d,
         NEW c, c = GetFree(m).got, NEW n, n = NewSpace(m, d), ~n.panic
  PROVE  Kept(m, n, c) /\ c \notin m.taken
<1> DEFINE a == GetFree(m)
<1>1. IsMem(m) /\ m.i \in Nat /\ m.taken \subseteq Frames
  BY DEF Fine, Owned
<1>2. /\ a.entry = m.entry /\ a.data = m.data /\ IsMem(a)
      /\ \/ a.panic = TRUE
         \/ /\ a.taken = m.taken \cup {a.got} /\ a.got \in Frames \ m.taken
  BY <1>1, GetFreeFacts
<1>3. n = [a EXCEPT !.entry[c] = Shared(m, d, c)]
  BY DEF NewSpace
<1>4. c = a.got
  OBVIOUS
<1> HIDE DEF a
<1>5. /\ n.panic = a.panic /\ n.taken = a.taken /\ n.data = a.data
      /\ n.entry = [a.entry EXCEPT ![c] = Shared(m, d, c)]
  BY <1>2, <1>3 DEF IsMem
<1>6. m.entry \in [Frames -> [Idx -> Nat]]
  BY DEF Fine, Owned
<1> QED BY <1>1, <1>2, <1>4, <1>5, <1>6 DEF Kept

LEMMA KeptOn ==
  ASSUME NEW m, NEW y, NEW x, NEW c, Kept(m, y, c), Kept(y, x, c)
  PROVE  Kept(m, x, c)
BY DEF Kept

LEMMA CloneCopies ==
  ASSUME NEW m, NEW D, NEW R, NEW end, Fine(m, D, {}, R, end), ~m.panic, NEW d \in D,
         NEW c, c = CloneDirectory(m, d).copied,
         NEW x, x = CloneDirectory(m, d).mem, ~x.panic
  PROVE  /\ Kept(m, x, c)
         /\ \A k \in UserIdx : Same(m, x, d, c, k)
<1> DEFINE a == NewSpace(m, d)
           n == KERNEL_PAGE_DIR_INDEX - 1
           E == D \cup {c}
<1>0. RESERVED_LO \div ENTRIES = 1 /\ n \in Nat
  BY AreaFacts, LayoutFacts
<1>1. PICK g : /\ Steps("clone", d, c, 1, a, n, g) /\ x = g[n] /\ c = GetFree(m).got
  <2>1. KERNEL_PAGE_DIR_INDEX - RESERVED_LO \div ENTRIES = n
    BY <1>0
  <2>2. KERNEL_PAGE_DIR_INDEX - RESERVED_LO \div ENTRIES \in Nat
    BY <1>0, <2>1
  <2>3. /\ CloneDirectory(m, d).copied = GetFree(m).got
        /\ \E g : /\ Steps("clone", d, GetFree(m).got, RESERVED_LO \div ENTRIES, a,
                           KERNEL_PAGE_DIR_INDEX - RESERVED_LO \div ENTRIES, g)
                  /\ CloneDirectory(m, d).mem
                       = g[KERNEL_PAGE_DIR_INDEX - RESERVED_LO \div ENTRIES]
    BY <2>2, CloneSteps
  <2> HIDE DEF a, n
  <2> QED BY <2>1, <2>3, <1>0
<1>2. g[0] = a /\ \A k \in 0 .. (n - 1) : g[k + 1] = CopyTable(g[k], d, c, 1 + k)
  <2>1. g[0] = a /\ \A k \in 0 .. (n - 1) : g[k + 1] = Step("clone", d, c, 1, g[k], k)
    BY <1>0, <1>1, StepsFacts
  <2> QED BY <2>1 DEF Step
<1>3. /\ Fine(a, E, {}, R, end)
      /\ ~a.panic => /\ c \in Frames \ {NONE} /\ c \notin D
                     /\ \A k \in UserIdx : a.entry[c][k] = NONE
  <2>1. d \in D \cup {KernelDir}
    OBVIOUS
  <2> QED BY <1>1, <2>1, NewSpaceFine
<1>4. ~a.panic => Kept(m, a, c) /\ c \notin m.taken
  BY <1>1, NewSpaceKeeps
<1> HIDE DEF a
<1>5. d \in E /\ c \in E
  OBVIOUS
<1> HIDE DEF E
<1> DEFINE S == {k \in 0 .. n :
                   /\ Fine(g[k], E, {}, R, end)
                   /\ ~g[k].panic =>
                        /\ ~a.panic /\ Kept(a, g[k], c)
                        /\ \A i \in UserIdx : i > k => g[k].entry[c][i] = NONE
                        /\ \A i \in UserIdx : i <= k => Same(a, g[k], d, c, i)}
<1>6. 0 \in S
  <2>1. Kept(a, a, c)
    BY DEF Kept
  <2>2. \A i \in UserIdx : i > 0 /\ ~(i <= 0)
    BY LayoutFacts DEF UserIdx
  <2> QED BY <1>0, <1>2, <1>3, <2>1, <2>2
<1>7. ASSUME NEW k \in 0 .. (n - 1), k \in S PROVE k + 1 \in S
  <2>1. /\ 1 + k \in UserIdx /\ k + 1 = 1 + k /\ k + 1 \in 0 .. n /\ 1 + k > k
        /\ \A i \in UserIdx : /\ i \in Idx
                              /\ i > k + 1 => i > k /\ i # 1 + k
                              /\ i <= k + 1 => i = 1 + k \/ (i <= k /\ i # 1 + k)
    BY <1>0, LayoutFacts DEF UserIdx
  <2>2. PICK y, z : y = g[k] /\ z = g[k + 1]
    OBVIOUS
  <2>3. /\ Fine(y, E, {}, R, end)
        /\ ~y.panic => /\ ~a.panic /\ Kept(a, y, c)
                       /\ \A i \in UserIdx : i > k => y.entry[c][i] = NONE
                       /\ \A i \in UserIdx : i <= k => Same(a, y, d, c, i)
    BY <1>7, <2>2
  <2>4. z = CopyTable(y, d, c, 1 + k)
    BY <1>2, <2>2
  <2>5. ~y.panic => y.entry[c][1 + k] = NONE
    BY <2>1, <2>3
  <2>6. Fine(z, E, {}, R, end) /\ (~z.panic => ~y.panic)
    BY <1>5, <2>1, <2>3, <2>4, <2>5, CopyTableFine
  <2>7. ASSUME ~z.panic
        PROVE  /\ Kept(a, z, c)
               /\ \A i \in UserIdx : i > k + 1 => z.entry[c][i] = NONE
               /\ \A i \in UserIdx : i <= k + 1 => Same(a, z, d, c, i)
    <3>1. /\ ~y.panic /\ ~a.panic /\ Kept(a, y, c) /\ y.entry[c][1 + k] = NONE
          /\ \A i \in UserIdx : i > k => y.entry[c][i] = NONE
          /\ \A i \in UserIdx : i <= k => Same(a, y, d, c, i)
      BY <2>3, <2>5, <2>6, <2>7
    <3>2. d # c
      BY <1>3, <3>1
    <3>3. /\ Kept(y, z, c) /\ Same(y, z, d, c, 1 + k)
          /\ \A i \in Idx : i # 1 + k => z.entry[c][i] = y.entry[c][i]
      <4> HIDE DEF S
      <4> QED BY <1>5, <2>1, <2>3, <2>4, <2>7, <3>1, <3>2, CopyTableCopies
    <3>4. Kept(a, z, c)
      BY <3>1, <3>3, KeptOn
    <3>5. Same(a, z, d, c, 1 + k)
      <4>1. a.entry[d][1 + k] # NONE => a.entry[d][1 + k] # c
        BY <1>3, <1>5, <2>1, <3>1, SpaceTaken
      <4> HIDE DEF S
      <4> QED BY <1>3, <1>5, <2>1, <3>1, <3>2, <3>3, <4>1, SameSince
    <3>6. ASSUME NEW i \in UserIdx, i <= k, i # 1 + k PROVE Same(a, z, d, c, i)
      <4>1. z.entry[c][i] = y.entry[c][i] /\ Same(a, y, d, c, i)
        BY <2>1, <3>1, <3>3, <3>6
      <4> HIDE DEF S
      <4> QED BY <1>5, <2>3, <3>1, <3>3, <4>1, SameStays
    <3> QED BY <2>1, <3>1, <3>3, <3>4, <3>5, <3>6
  <2>8. /\ Fine(z, E, {}, R, end)
        /\ ~z.panic => /\ ~a.panic /\ Kept(a, z, c)
                       /\ \A i \in UserIdx : i > k + 1 => z.entry[c][i] = NONE
                       /\ \A i \in UserIdx : i <= k + 1 => Same(a, z, d, c, i)
    BY <2>3, <2>6, <2>7
  <2> QED BY <2>1, <2>2, <2>8
<1> HIDE DEF S
<1>8. n \in S
  BY <1>0, <1>6, <1>7, CountUp
<1>9. /\ ~a.panic /\ Kept(a, x, c)
      /\ \A i \in UserIdx : i <= n => Same(a, x, d, c, i)
  BY <1>1, <1>8 DEF S
<1>10. \A i \in UserIdx : Same(a, x, d, c, i)
  BY <1>9, LayoutFacts DEF UserIdx
<1>11. \A i \in UserIdx : Same(m, x, d, c, i)
  <2> TAKE i \in UserIdx
  <2>1. d # c /\ Kept(m, a, c) /\ Same(a, x, d, c, i)
    BY <1>3, <1>4, <1>9, <1>10
  <2>2. m.entry[d][i] # NONE => m.entry[d][i] # c
    BY <1>4, <1>9, SpaceTaken
  <2> QED BY <2>1, <2>2, SameSince
<1> QED BY <1>4, <1>9, <1>11, KeptOn

-----------------------------------------------------------------------------
(* exec.                                                                   *)

\* What a step writes into pages, or gives up.
LEMMA SameFine ==
  ASSUME NEW m, NEW D, NEW H, NEW R, NEW end, Fine(m, D, H, R, end),
         NEW x, IsMem(x), x.panic \in BOOLEAN,
         ~x.panic => /\ ~m.panic /\ x.i = m.i /\ x.taken = m.taken
                     /\ x.entry = m.entry
  PROVE  Fine(x, D, H, R, end)
BY DEF Fine

LEMMA PanicFine ==
  ASSUME NEW m, NEW D, NEW H, NEW R, NEW end, IsMem(m)
  PROVE  Fine([m EXCEPT !.panic = TRUE], D, H, R, end)
BY DEF Fine, IsMem

LEMMA StoreByteFine ==
  ASSUME NEW m, NEW D, NEW H, NEW R, NEW end, Fine(m, D, H, R, end),
         NEW d, NEW addr, NEW value
  PROVE  Fine(StoreByte(m, d, addr, value), D, H, R, end)
<1> DEFINE f == Frame(m, d, addr \div FRAME_SIZE)
           x == StoreByte(m, d, addr, value)
<1>1. x = IF f = NONE THEN [m EXCEPT !.panic = TRUE]
          ELSE [m EXCEPT !.data[f][addr % FRAME_SIZE] = value]
  BY DEF StoreByte
<1> HIDE DEF f, x
<1>2. CASE f = NONE
  <2>1. x = [m EXCEPT !.panic = TRUE]
    BY <1>1, <1>2
  <2> QED BY <2>1, PanicFine DEF Fine, x
<1>3. CASE f # NONE
  <2>1. x = [m EXCEPT !.data[f][addr % FRAME_SIZE] = value]
    BY <1>1, <1>3
  <2>2. /\ IsMem(x) /\ x.panic = m.panic /\ x.i = m.i /\ x.taken = m.taken
        /\ x.entry = m.entry
    BY <2>1 DEF Fine, IsMem
  <2> QED BY <2>2, SameFine DEF Fine, x
<1> QED BY <1>2, <1>3

LEMMA StoreBytesSteps ==
  ASSUME NEW m, NEW d, NEW addr, NEW value, NEW n \in Nat
  PROVE  \E g : Steps("store", d, addr, value, m, n, g)
                /\ StoreBytes(m, d, addr, n, value) = g[n]
<1>1. PICK g : Steps("store", d, addr, value, m, n, g)
  BY StepsExist
<1>2. g = [k \in 0 .. n |-> IF k = 0 THEN m ELSE StoreByte(g[k - 1], d, addr + (k - 1), value)]
  BY <1>1 DEF Steps, Step
<1> QED BY <1>2 DEF StoreBytes, Rounds, Steps, Step

LEMMA StoreBytesFine ==
  ASSUME NEW m, NEW D, NEW H, NEW R, NEW end, Fine(m, D, H, R, end),
         NEW d, NEW addr, NEW value, NEW n \in Nat
  PROVE  Fine(StoreBytes(m, d, addr, n, value), D, H, R, end)
<1>1. PICK g : /\ Steps("store", d, addr, value, m, n, g)
               /\ StoreBytes(m, d, addr, n, value) = g[n]
  BY StoreBytesSteps
<1>2. g[0] = m /\ \A k \in 0 .. (n - 1) : g[k + 1] = StoreByte(g[k], d, addr + k, value)
  <2>1. g[0] = m /\ \A k \in 0 .. (n - 1) : g[k + 1] = Step("store", d, addr, value, g[k], k)
    BY <1>1, StepsFacts
  <2> QED BY <2>1 DEF Step
<1> DEFINE S == {k \in 0 .. n : Fine(g[k], D, H, R, end)}
<1>3. 0 \in S
  BY <1>2
<1>4. ASSUME NEW k \in 0 .. (n - 1), k \in S PROVE k + 1 \in S
  <2>1. Fine(StoreByte(g[k], d, addr + k, value), D, H, R, end)
    BY <1>4, StoreByteFine
  <2>2. g[k + 1] = StoreByte(g[k], d, addr + k, value) /\ k + 1 \in 0 .. n
    BY <1>2
  <2> QED BY <2>1, <2>2
<1> HIDE DEF S
<1>5. n \in S
  BY <1>3, <1>4, CountUp
<1> QED BY <1>1, <1>5 DEF S

LEMMA MapSegmentSteps ==
  ASSUME NEW m, NEW d, NEW s, (s.memsz + FRAME_SIZE - 1) \div FRAME_SIZE \in Nat
  PROVE  \E g : LET n == (s.memsz + FRAME_SIZE - 1) \div FRAME_SIZE IN
                /\ Steps("segment", d, s.vaddr \div FRAME_SIZE, 0, m, n, g)
                /\ MapSegment(m, d, s) = g[n]
<1> DEFINE n == (s.memsz + FRAME_SIZE - 1) \div FRAME_SIZE
<1>1. PICK g : Steps("segment", d, s.vaddr \div FRAME_SIZE, 0, m, n, g)
  BY StepsExist
<1>2. g = [k \in 0 .. n |->
             IF k = 0 THEN m
             ELSE MapMissing(g[k - 1], d, (s.vaddr \div FRAME_SIZE) + (k - 1))]
  BY <1>1 DEF Steps, Step
<1> QED BY <1>2 DEF MapSegment, Rounds, Steps, Step

\* The pages of a segment.
LEMMA SegmentPages ==
  ASSUME NEW s, Linked(s), s.load
  PROVE  LET n == (s.memsz + FRAME_SIZE - 1) \div FRAME_SIZE
             p == s.vaddr \div FRAME_SIZE
         IN  n \in Nat /\ \A k \in 0 .. (n - 1) : p + k \in UserArea
<1> DEFINE n == (s.memsz + FRAME_SIZE - 1) \div FRAME_SIZE
           p == s.vaddr \div FRAME_SIZE
<1>1. \A a, F \in Nat : F > 0 => (a + F - 1) \div F \in Nat /\ a \div F \in Nat
  OBVIOUS
<1>2. FRAME_SIZE \in Nat /\ FRAME_SIZE > 0
  BY PagingAssumptions DEF PagingAssumption
<1>3. /\ s.memsz \in Nat /\ s.vaddr \in Nat /\ RESERVED_LO <= p
      /\ p + n <= KERNEL_PAGE_DIR_INDEX * ENTRIES
  BY DEF Linked
<1>4. n \in Nat /\ p \in Nat
  BY <1>1, <1>2, <1>3
<1>5. KERNEL_PAGE_DIR_INDEX * ENTRIES \in Nat /\ RESERVED_LO = ENTRIES
  BY AreaFacts, LayoutFacts
<1> HIDE DEF n, p
<1>6. n \in Nat /\ \A k \in 0 .. (n - 1) : p + k \in UserArea
  BY <1>3, <1>4, <1>5, LayoutFacts DEF UserArea
<1> QED BY <1>6 DEF n, p

LEMMA MapSegmentFine ==
  ASSUME NEW m, NEW D, NEW R, NEW end, Fine(m, D, {}, R, end), NEW d \in D,
         NEW s, Linked(s), s.load
  PROVE  Fine(MapSegment(m, d, s), D, {}, R, end)
<1> DEFINE n == (s.memsz + FRAME_SIZE - 1) \div FRAME_SIZE
           p == s.vaddr \div FRAME_SIZE
<1>1. n \in Nat /\ \A k \in 0 .. (n - 1) : p + k \in UserArea
  BY SegmentPages
<1>2. PICK g : Steps("segment", d, p, 0, m, n, g) /\ MapSegment(m, d, s) = g[n]
  BY <1>1, MapSegmentSteps
<1> HIDE DEF n, p
<1>3. g[0] = m /\ \A k \in 0 .. (n - 1) : g[k + 1] = MapMissing(g[k], d, p + k)
  <2>1. g[0] = m /\ \A k \in 0 .. (n - 1) : g[k + 1] = Step("segment", d, p, 0, g[k], k)
    BY <1>1, <1>2, StepsFacts
  <2> QED BY <2>1 DEF Step
<1> DEFINE S == {k \in 0 .. n : Fine(g[k], D, {}, R, end)}
<1>4. 0 \in S
  BY <1>1, <1>3
<1>5. ASSUME NEW k \in 0 .. (n - 1), k \in S PROVE k + 1 \in S
  <2>1. Fine(g[k], D, {}, R, end) /\ p + k \in UserArea
    BY <1>1, <1>5
  <2>2. Fine(MapNew(g[k], d, p + k), D, {}, R, end)
    BY <2>1, MapNewFine
  <2>3. Fine(MapMissing(g[k], d, p + k), D, {}, R, end)
    BY <2>1, <2>2 DEF MapMissing
  <2>4. g[k + 1] = MapMissing(g[k], d, p + k) /\ k + 1 \in 0 .. n
    BY <1>1, <1>3
  <2> QED BY <2>3, <2>4
<1> HIDE DEF S
<1>6. n \in S
  BY <1>1, <1>4, <1>5, CountUp
<1> QED BY <1>2, <1>6 DEF S

LEMMA LoadSegmentFine ==
  ASSUME NEW m, NEW D, NEW R, NEW end, Fine(m, D, {}, R, end), NEW d \in D,
         NEW s, Linked(s)
  PROVE  Fine(LoadSegment(m, d, s), D, {}, R, end)
<1>1. CASE ~s.load \/ s.memsz = 0
  <2>1. LoadSegment(m, d, s) \in {m, [m EXCEPT !.panic = TRUE]}
    BY <1>1 DEF LoadSegment
  <2> QED BY <2>1, PanicFine DEF Fine
<1>2. CASE s.load /\ BadAddress(s)
  <2>1. LoadSegment(m, d, s) = [m EXCEPT !.panic = TRUE]
    BY <1>2 DEF LoadSegment
  <2> QED BY <2>1, PanicFine DEF Fine
<1>3. CASE s.load /\ ~BadAddress(s) /\ s.memsz # 0
  <2> DEFINE n == MapSegment(m, d, s)
             c == StoreBytes(n, d, s.vaddr + (s.memsz - s.filesz), s.memsz - s.filesz, "zero")
  <2>1. LoadSegment(m, d, s) = StoreBytes(c, d, s.vaddr, s.filesz, "file")
    BY <1>3 DEF LoadSegment
  <2>2. s.filesz \in Nat /\ s.memsz - s.filesz \in Nat
    BY DEF Linked
  <2>3. Fine(n, D, {}, R, end)
    BY <1>3, MapSegmentFine
  <2> HIDE DEF n
  <2>4. Fine(c, D, {}, R, end)
    BY <2>2, <2>3, StoreBytesFine
  <2> HIDE DEF c
  <2> QED BY <2>1, <2>2, <2>4, StoreBytesFine
<1> QED BY <1>1, <1>2, <1>3

LEMMA LoadSteps ==
  ASSUME NEW m, NEW d, NEW prog, ~Refused(prog), Len(prog.segments) \in Nat
  PROVE  \E g : /\ Steps("segments", d, prog.segments, 0, ResetDirectory(m, d),
                         Len(prog.segments), g)
                /\ Load(m, d, prog) = MapStack(g[Len(prog.segments)], d)
<1> DEFINE n == Len(prog.segments)
           r == ResetDirectory(m, d)
<1>1. PICK g : Steps("segments", d, prog.segments, 0, r, n, g)
  BY StepsExist
<1>2. g = [k \in 0 .. n |-> IF k = 0 THEN r
                            ELSE LoadSegment(g[k - 1], d, prog.segments[(k - 1) + 1])]
  BY <1>1 DEF Steps, Step
<1>3. Load(m, d, prog) =
        MapStack(Rounds(LAMBDA x, k : LoadSegment(x, d, prog.segments[k + 1]), r, n), d)
  BY DEF Load
<1>4. \E h : /\ Steps("segments", d, prog.segments, 0, r, n, h)
             /\ Rounds(LAMBDA x, k : LoadSegment(x, d, prog.segments[k + 1]), r, n) = h[n]
  BY <1>2 DEF Rounds, Steps, Step
<1> QED BY <1>3, <1>4

\* _elf_load_from_file.
LEMMA LoadFine ==
  ASSUME NEW m, NEW D, NEW R, NEW end, Fine(m, D, {}, R, end), NEW d \in D,
         NEW prog \in Programs
  PROVE  Fine(Load(m, d, prog), D, {}, R, end)
<1>1. CASE Refused(prog)
  <2>1. Load(m, d, prog) = [m EXCEPT !.panic = TRUE]
    BY <1>1 DEF Load
  <2> QED BY <2>1, PanicFine DEF Fine
<1>2. CASE ~Refused(prog)
  <2> DEFINE n == Len(prog.segments)
             r == ResetDirectory(m, d)
  <2>1. n \in Nat /\ \A k \in 1 .. n : Linked(prog.segments[k])
    BY MemoryAssumptions DEF MemoryAssumption
  <2>2. PICK g : /\ Steps("segments", d, prog.segments, 0, r, n, g)
                 /\ Load(m, d, prog) = MapStack(g[n], d)
    BY <1>2, <2>1, LoadSteps
  <2>3. Fine(r, D, {}, R, end)
    BY ResetFine
  <2> HIDE DEF n, r
  <2>4. g[0] = r /\ \A k \in 0 .. (n - 1) : g[k + 1] = LoadSegment(g[k], d, prog.segments[k + 1])
    <3>1. /\ g[0] = r
          /\ \A k \in 0 .. (n - 1) : g[k + 1] = Step("segments", d, prog.segments, 0, g[k], k)
      BY <2>1, <2>2, StepsFacts
    <3> QED BY <3>1 DEF Step
  <2> DEFINE S == {k \in 0 .. n : Fine(g[k], D, {}, R, end)}
  <2>5. 0 \in S
    BY <2>1, <2>3, <2>4
  <2>6. ASSUME NEW k \in 0 .. (n - 1), k \in S PROVE k + 1 \in S
    <3>1. Linked(prog.segments[k + 1])
      BY <2>1
    <3>2. Fine(LoadSegment(g[k], d, prog.segments[k + 1]), D, {}, R, end)
      BY <3>1, <2>6, LoadSegmentFine
    <3>3. g[k + 1] = LoadSegment(g[k], d, prog.segments[k + 1]) /\ k + 1 \in 0 .. n
      BY <2>1, <2>4
    <3> QED BY <3>2, <3>3
  <2>a. \A k \in 0 .. (n - 1) : k \in S => k + 1 \in S
    BY <2>6
  <2>b. n \in Nat
    BY <2>1
  <2> HIDE DEF S
  <2>c. \A k \in 0 .. n : k \in S
    BY <2>5, <2>a, <2>b, CountUp
  <2>7. n \in S
    BY <2>b, <2>c
  <2>8. Fine(g[n], D, {}, R, end)
    BY <2>7 DEF S
  <2>9. /\ USER_STACK_PAGES \in Nat /\ USER_STACK_PAGES * FRAME_SIZE \in Nat
        /\ \A k \in 0 .. (USER_STACK_PAGES - 1) : USER_STACK_LOCATION + k \in UserArea
    <3>1. \A a, b \in Nat : a * b \in Nat
      OBVIOUS
    <3>2. /\ USER_STACK_PAGES \in Nat /\ USER_STACK_LOCATION \in Nat /\ FRAME_SIZE \in Nat
          /\ RESERVED_LO <= USER_STACK_LOCATION
          /\ USER_STACK_LOCATION + USER_STACK_PAGES <= KERNEL_PAGE_DIR_INDEX * ENTRIES
      BY PagingAssumptions, MemoryAssumptions DEF PagingAssumption, MemoryAssumption
    <3>3. KERNEL_PAGE_DIR_INDEX * ENTRIES \in Nat
      BY <3>1, LayoutFacts
    <3> QED BY <3>1, <3>2, <3>3, AreaFacts, LayoutFacts DEF UserArea
  <2>10. Fine(MapPages(g[n], d, USER_STACK_LOCATION, USER_STACK_PAGES), D, {}, R, end)
    BY <2>8, <2>9, MapPagesFine
  <2>11. Fine(MapStack(g[n], d), D, {}, R, end)
    BY <2>9, <2>10, StoreBytesFine DEF MapStack
  <2> QED BY <2>2, <2>11
<1> QED BY <1>1, <1>2

-----------------------------------------------------------------------------
(* The heap of the kernel.                                                 *)

LEMMA MapNewHeap ==
  ASSUME NEW m, NEW D, NEW R, NEW end \in Nat, Fine(m, D, {}, R, end),
         HEAP_START <= end, end <= HEAP_MAX
  PROVE  Fine(MapNew(m, KernelDir, end), D, {}, R, end + 1)
<1> DEFINE a == GetFree(m)
           f == a.got
           x == MapNew(m, KernelDir, end)
<1>1. Fine(a, D, {} \cup {f}, R, end) /\ (~a.panic => f \in Nat)
  BY Get, NoneFacts
<1>2. end \div ENTRIES \in HeapIdx
  BY HeapPageFacts
<1>3. x = MapPage(a, KernelDir, f, end)
  BY DEF MapNew
<1> HIDE DEF a, f, x
<1>4. /\ Fine(x, D, {} \cup {f}, R, end)
      /\ ~x.panic => FrameOf(x.entry, KernelDir, end) = f
  BY <1>1, <1>2, <1>3, MapKernelPage
<1>5. ASSUME ~x.panic PROVE \E own : Owned(x.taken, x.entry, D, {}, R, end + 1, own)
  <2>1. PICK own : Owned(x.taken, x.entry, D, {} \cup {f}, R, end, own)
    BY <1>4, <1>5 DEF Fine
  <2>2. f \in {} \cup {f} /\ ({} \cup {f}) \ {f} = {}
    OBVIOUS
  <2>3. Owned(x.taken, x.entry, D, ({} \cup {f}) \ {f}, R, end + 1, [own EXCEPT ![f] = KERNEL])
    BY <1>4, <1>5, <2>1, <2>2, LengthenHeap
  <2> QED BY <2>2, <2>3
<1> QED BY <1>4, <1>5 DEF Fine, x

\* A page for the heap, or the panic at its maximum (__kmalloc).
LEMMA MapHeapPageFine ==
  ASSUME NEW m, NEW D, NEW R, NEW end \in Nat, Fine(m, D, {}, R, end), HEAP_START <= end
  PROVE  Fine(MapHeapPage(m, end), D, {}, R, end + 1)
<1>1. CASE end > HEAP_MAX
  <2>1. MapHeapPage(m, end) = [m EXCEPT !.panic = TRUE]
    BY <1>1 DEF MapHeapPage
  <2> QED BY <2>1, PanicFine DEF Fine
<1>2. CASE ~ (end > HEAP_MAX)
  <2>1. MapHeapPage(m, end) = MapNew(m, KernelDir, end) /\ end <= HEAP_MAX
    BY <1>2, LayoutFacts DEF MapHeapPage, HeapDir
  <2> QED BY <2>1, MapNewHeap
<1> QED BY <1>1, <1>2

Grown(m, from, n) == Rounds(LAMBDA x, k : MapHeapPage(x, from + k), m, n)

LEMMA GrownSteps ==
  ASSUME NEW m, NEW from, NEW n \in Nat
  PROVE  \E g : Steps("heap", from, 0, 0, m, n, g) /\ Grown(m, from, n) = g[n]
<1>1. PICK g : Steps("heap", from, 0, 0, m, n, g)
  BY StepsExist
<1>2. g = [k \in 0 .. n |-> IF k = 0 THEN m ELSE MapHeapPage(g[k - 1], from + (k - 1))]
  BY <1>1 DEF Steps, Step
<1> QED BY <1>2 DEF Grown, Rounds, Steps, Step

LEMMA GrownFine ==
  ASSUME NEW m, NEW D, NEW R, NEW end \in Nat, Fine(m, D, {}, R, end), HEAP_START <= end,
         NEW n \in Nat
  PROVE  Fine(Grown(m, end, n), D, {}, R, end + n)
<1>1. PICK g : Steps("heap", end, 0, 0, m, n, g) /\ Grown(m, end, n) = g[n]
  BY GrownSteps
<1>2. g[0] = m /\ \A k \in 0 .. (n - 1) : g[k + 1] = MapHeapPage(g[k], end + k)
  <2>1. g[0] = m /\ \A k \in 0 .. (n - 1) : g[k + 1] = Step("heap", end, 0, 0, g[k], k)
    BY <1>1, StepsFacts
  <2> QED BY <2>1 DEF Step
<1> DEFINE S == {k \in 0 .. n : Fine(g[k], D, {}, R, end + k)}
<1>3. 0 \in S
  <2>1. end + 0 = end
    OBVIOUS
  <2> QED BY <1>2, <2>1
<1>4. ASSUME NEW k \in 0 .. (n - 1), k \in S PROVE k + 1 \in S
  <2>1. /\ end + k \in Nat /\ HEAP_START <= end + k /\ k + 1 \in 0 .. n
        /\ (end + k) + 1 = end + (k + 1)
    BY LayoutFacts
  <2>2. Fine(MapHeapPage(g[k], end + k), D, {}, R, (end + k) + 1)
    BY <1>4, <2>1, MapHeapPageFine
  <2>3. Fine(g[k + 1], D, {}, R, end + (k + 1))
    BY <1>2, <2>1, <2>2
  <2> QED BY <2>1, <2>3
<1> HIDE DEF S
<1>5. n \in S
  BY <1>3, <1>4, CountUp
<1> QED BY <1>1, <1>5 DEF S

\* The entries of the heap are copied (_isr_page_fault, __kmalloc).
LEMMA RenewFine ==
  ASSUME NEW m, NEW D, NEW R, NEW end, Fine(m, D, {}, R, end), NEW d \in D
  PROVE  Fine(CopyHeapEntries(m, KernelDir, d), D, {}, R, end)
<1> DEFINE x == CopyHeapEntries(m, KernelDir, d)
           row == [k \in 0 .. LAST |-> IF k \in HeapEntries THEN m.entry[KernelDir][k]
                                       ELSE m.entry[d][k]]
<1>1. x = [m EXCEPT !.entry[d] = row]
  BY DEF CopyHeapEntries
<1> HIDE DEF x, row
<1>2. /\ IsMem(x) /\ x.panic = m.panic /\ x.i = m.i /\ x.taken = m.taken
      /\ x.entry = [m.entry EXCEPT ![d] = row]
  BY <1>1 DEF Fine, IsMem
<1>3. ASSUME ~m.panic PROVE \E own : Owned(x.taken, x.entry, D, {}, R, end, own)
  <2>1. PICK own : Owned(m.taken, m.entry, D, {}, R, end, own)
    BY <1>3 DEF Fine
  <2>2. d \in Frames /\ KernelDir \in Frames /\ m.entry \in [Frames -> [Idx -> Nat]]
    <3>1. d \in Frames /\ m.entry \in [Frames -> [Idx -> Nat]]
      BY <2>1 DEF Owned
    <3> QED BY <2>1, <3>1, NoneOwned
  <2>3. DirRenewed(m.entry, x.entry, d)
    <3>1. row \in [Idx -> Nat]
      BY <2>2 DEF row, Idx
    <3>2. x.entry[d] = row /\ \A g \in Frames : g # d => x.entry[g] = m.entry[g]
      BY <1>2, <2>2
    <3>3. x.entry \in [Frames -> [Idx -> Nat]]
      BY <1>2, <2>2, <3>1
    <3>4. \A i \in Idx : \/ row[i] = m.entry[d][i]
                         \/ i \in HeapIdx /\ row[i] = m.entry[KernelDir][i]
      <4>1. \A i \in HeapEntries : i \in HeapIdx
        BY LayoutFacts DEF HeapEntries, HeapIdx
      <4> QED BY <4>1 DEF row, Idx
    <3> QED BY <3>2, <3>3, <3>4 DEF DirRenewed
  <2> QED BY <1>2, <2>1, <2>3, RenewDir
<1> QED BY <1>2, <1>3 DEF Fine, x

-----------------------------------------------------------------------------
(* Start-up.                                                               *)

\* __virt_initialize_paging: the frames that it takes, ...
LEMMA FirstFrames ==
  LET u == Uninitialized
      a == GetFree(GetFree(GetFree(u)))
  IN  /\ IsMem(a) /\ a.panic \in BOOLEAN /\ a.entry = u.entry
      /\ ~a.panic => /\ a.i \in Nat
                     /\ a.taken = InitialBitmap \cup {KernelDir, FirstTable, KernelTable}
                     /\ {KernelDir, FirstTable, KernelTable} \subseteq Frames
                     /\ KernelDir # FirstTable /\ KernelDir # KernelTable
                     /\ FirstTable # KernelTable
<1> DEFINE u == Uninitialized
           a1 == GetFree(u)
           a2 == GetFree(a1)
           a3 == GetFree(a2)
<1>1. /\ IsMem(u) /\ u.panic \in BOOLEAN /\ ~u.panic /\ u.i = 0
      /\ u.taken = InitialBitmap /\ InitialBitmap \subseteq Frames
  <2>1. DOMAIN Zeros = 0 .. (FRAME_SIZE - 1)
    BY DEF Zeros
  <2>2. /\ u.data = [f \in Frames |-> Zeros] /\ ~u.panic /\ u.panic \in BOOLEAN /\ u.i = 0
        /\ u.taken = InitialBitmap
        /\ DOMAIN u = {"taken", "i", "entry", "data", "got", "panic"}
    BY DEF Uninitialized
  <2> QED BY <2>1, <2>2 DEF IsMem, InitialBitmap
<1>2. KernelDir = a1.got /\ FirstTable = a2.got /\ KernelTable = a3.got
  BY DEF KernelDir, FirstTable, KernelTable
<1> HIDE DEF u
<1>3. ASSUME NEW m, IsMem(m), m.panic \in BOOLEAN,
             ~m.panic => m.i \in Nat /\ m.taken \subseteq Frames
      PROVE  LET a == GetFree(m) IN
             /\ IsMem(a) /\ a.panic \in BOOLEAN /\ a.entry = m.entry /\ (m.panic => a.panic)
             /\ ~a.panic => /\ a.i \in Nat /\ a.got \in Frames \ m.taken
                            /\ a.taken = m.taken \cup {a.got}
  <2>1. CASE m.panic
    BY <1>3, <2>1 DEF GetFree, IsMem
  <2>2. CASE ~m.panic
    BY <1>3, <2>2, GetFreeFacts
  <2> QED BY <2>1, <2>2
<1>4. /\ IsMem(a1) /\ a1.panic \in BOOLEAN /\ a1.entry = u.entry
      /\ ~a1.panic => /\ a1.i \in Nat /\ a1.got \in Frames \ u.taken
                      /\ a1.taken = u.taken \cup {a1.got}
  <2>1. u.panic \in BOOLEAN /\ (~u.panic => u.i \in Nat /\ u.taken \subseteq Frames)
    BY <1>1
  <2> QED BY <1>1, <1>3, <2>1
<1> HIDE DEF a1
<1>5. /\ IsMem(a2) /\ a2.panic \in BOOLEAN /\ a2.entry = a1.entry /\ (a1.panic => a2.panic)
      /\ ~a2.panic => /\ a2.i \in Nat /\ a2.got \in Frames \ a1.taken
                      /\ a2.taken = a1.taken \cup {a2.got}
  <2>1. ~a1.panic => a1.i \in Nat /\ a1.taken \subseteq Frames
    BY <1>1, <1>4
  <2> QED BY <1>3, <1>4, <2>1
<1> HIDE DEF a2
<1>6. /\ IsMem(a3) /\ a3.panic \in BOOLEAN /\ a3.entry = a2.entry /\ (a2.panic => a3.panic)
      /\ ~a3.panic => /\ a3.i \in Nat /\ a3.got \in Frames \ a2.taken
                      /\ a3.taken = a2.taken \cup {a3.got}
  <2>1. ~a2.panic => a2.i \in Nat /\ a2.taken \subseteq Frames
    BY <1>1, <1>4, <1>5
  <2> QED BY <1>3, <1>5, <2>1
<1> HIDE DEF a3
<1>7. ~a3.panic => /\ a3.taken = InitialBitmap \cup {a1.got, a2.got, a3.got}
                   /\ {a1.got, a2.got, a3.got} \subseteq Frames
                   /\ a1.got # a2.got /\ a1.got # a3.got /\ a2.got # a3.got
  BY <1>1, <1>4, <1>5, <1>6
<1> QED BY <1>2, <1>4, <1>5, <1>6, <1>7 DEF a3, a2, a1, u

\* ... and what it enters in them.
LEMMA InitializeFine == Fine(InitializePaging, {}, {}, {}, HEAP_START)
<1> DEFINE a == GetFree(GetFree(GetFree(Uninitialized)))
           first == [k \in 0 .. LAST |-> IF k < ONE_MEGABYTE THEN k ELSE NONE]
           second == [k \in 0 .. LAST |-> IF k < KERNEL_SIZE THEN ONE_MEGABYTE + k ELSE NONE]
           dir == [k \in 0 .. LAST |-> CASE k = 0                     -> FirstTable
                                         [] k = KERNEL_PAGE_DIR_INDEX -> KernelTable
                                         [] k = LAST                  -> KernelDir
                                         [] OTHER                     -> NONE]
           x == InitializePaging
           own == [f \in Frames |-> IF f \in x.taken THEN KERNEL ELSE FREE]
<1>1. x = [a EXCEPT !.entry[FirstTable] = first, !.entry[KernelTable] = second,
                    !.entry[KernelDir] = dir]
  BY DEF InitializePaging
<1>2. /\ IsMem(a) /\ a.panic \in BOOLEAN /\ a.entry = [f \in Frames |-> Blank]
      /\ ~a.panic => /\ a.i \in Nat
                     /\ a.taken = InitialBitmap \cup {KernelDir, FirstTable, KernelTable}
                     /\ {KernelDir, FirstTable, KernelTable} \subseteq Frames
                     /\ KernelDir # FirstTable /\ KernelDir # KernelTable
                     /\ FirstTable # KernelTable
  <2>1. Uninitialized.entry = [f \in Frames |-> Blank]
    BY DEF Uninitialized
  <2> QED BY <2>1, FirstFrames
<1> HIDE DEF a, x, first, second, dir
<1>3. /\ IsMem(x) /\ x.panic = a.panic /\ x.i = a.i /\ x.taken = a.taken
      /\ x.entry = [[[a.entry EXCEPT ![FirstTable] = first] EXCEPT ![KernelTable] = second]
                     EXCEPT ![KernelDir] = dir]
  BY <1>1, <1>2 DEF IsMem
<1>4. CASE a.panic
  BY <1>2, <1>3, <1>4 DEF Fine, x
<1>5. CASE ~a.panic
  <2>1. KernelDir \in Frames /\ FirstTable \in Frames /\ KernelTable \in Frames
    BY <1>2, <1>5
  <2>2. x.entry[KernelDir] = dir
    BY <2>1, <1>2, <1>3
  <2>3. x.entry \in [Frames -> [Idx -> Nat]]
    <3>1. /\ first \in [Idx -> Nat] /\ second \in [Idx -> Nat] /\ dir \in [Idx -> Nat]
          /\ Blank \in [Idx -> Nat]
      <4>1. first \in [Idx -> Nat]
        BY DEF first, Idx, NONE
      <4>2. second \in [Idx -> Nat]
        BY PagingAssumptions DEF PagingAssumption, second, Idx, NONE
      <4>3. dir \in [Idx -> Nat]
        BY <2>1, NoneFacts DEF dir, Idx, NONE
      <4>4. Blank \in [Idx -> Nat]
        BY DEF Blank, Idx, NONE
      <4> QED BY <4>1, <4>2, <4>3, <4>4
    <3>2. a.entry \in [Frames -> [Idx -> Nat]]
      BY <3>1, <1>2
    <3>3. [a.entry EXCEPT ![FirstTable] = first] \in [Frames -> [Idx -> Nat]]
      BY <3>1, <3>2
    <3>4. [[a.entry EXCEPT ![FirstTable] = first] EXCEPT ![KernelTable] = second]
            \in [Frames -> [Idx -> Nat]]
      BY <3>1, <3>3
    <3> QED BY <3>1, <3>4, <1>3
  <2>4. \A k \in HeapIdx : x.entry[KernelDir][k] = NONE
    <3>1. \A k \in HeapIdx : k \in Idx /\ k # 0 /\ k # KERNEL_PAGE_DIR_INDEX /\ k # LAST
      BY LayoutFacts DEF HeapIdx, Idx
    <3> QED BY <3>1, <2>2 DEF dir, Idx
  <2>5. HEAP_START .. (HEAP_START - 1) = {}
    BY LayoutFacts
  <2>6. KernelPart(x.entry, {}, HEAP_START) = x.taken
    <3>1. HeapPages(x.entry, HEAP_START) = {}
      BY <2>5 DEF HeapPages
    <3>2. {x.entry[KernelDir][k] : k \in HeapIdx} \ {NONE} = {}
      BY <2>4
    <3>3. x.taken = InitialBitmap \cup {KernelDir, FirstTable, KernelTable}
      BY <1>2, <1>3, <1>5
    <3> QED BY <3>1, <3>2, <3>3 DEF KernelPart
  <2>7. /\ x.taken \subseteq Frames /\ own \in [Frames -> Owners]
        /\ \A f \in Frames : own[f] = IF f \in x.taken THEN KERNEL ELSE FREE
    BY <1>2, <1>3, <1>5, OwnerFacts DEF InitialBitmap
  <2> HIDE DEF own
  <2>8. UserOwned(x.entry, {}, own)
    BY <2>7, OwnerFacts DEF UserOwned
  <2>9. KernelOwned(x.entry, {}, HEAP_START, own)
    <3>1. \A f \in Frames : own[f] = KERNEL <=> f \in KernelPart(x.entry, {}, HEAP_START)
      BY <2>6, <2>7, OwnerFacts
    <3>2. HEAP_START \in Nat /\ HEAP_START <= HEAP_MAX + 1
      BY PagingAssumptions DEF PagingAssumption
    <3>3. \A k \in UserIdx : x.entry[KernelDir][k] = NONE
      <4>1. \A k \in UserIdx : k \in Idx /\ k # 0 /\ k # KERNEL_PAGE_DIR_INDEX /\ k # LAST
        BY LayoutFacts DEF UserIdx, Idx
      <4> QED BY <4>1, <2>2 DEF dir, Idx
    <3> QED BY <2>1, <2>4, <2>5, <3>1, <3>2, <3>3 DEF KernelOwned
  <2>10. Owned(x.taken, x.entry, {}, {}, {}, HEAP_START, own)
    <3>1. \A f \in Frames : (own[f] = FREE <=> f \notin x.taken) /\ own[f] # HELD
      BY <2>7, OwnerFacts
    <3> QED BY <2>3, <2>7, <2>8, <2>9, <3>1 DEF Owned, Alike
  <2> QED BY <2>10, <1>2, <1>3, <1>5 DEF Fine, x
<1> QED BY <1>4, <1>5, <1>2

\* __kmem_init_kmalloc.
LEMMA InitKmallocFine ==
  ASSUME NEW m, Fine(m, {}, {}, {}, HEAP_START)
  PROVE  Fine(InitKmalloc(m), {}, {}, {}, HEAP_START + HEAP_INITIAL_PAGES)
<1> DEFINE n == HEAP_INITIAL_PAGES
<1>1. /\ n \in Nat /\ HEAP_START \in Nat /\ HEAP_MAX \in Nat
      /\ HEAP_START + n <= HEAP_MAX
  BY PagingAssumptions, MemoryAssumptions DEF PagingAssumption, MemoryAssumption
<1>2. PICK g : Steps("map", KernelDir, HEAP_START, 0, m, n, g) /\ InitKmalloc(m) = g[n]
  BY <1>1, MapPagesSteps DEF InitKmalloc
<1> HIDE DEF n
<1>3. g[0] = m /\ \A k \in 0 .. (n - 1) : g[k + 1] = MapNew(g[k], KernelDir, HEAP_START + k)
  <2>1. /\ g[0] = m
        /\ \A k \in 0 .. (n - 1) : g[k + 1] = Step("map", KernelDir, HEAP_START, 0, g[k], k)
    BY <1>1, <1>2, StepsFacts
  <2> QED BY <2>1 DEF Step
<1> DEFINE S == {k \in 0 .. n : Fine(g[k], {}, {}, {}, HEAP_START + k)}
<1>4. 0 \in S
  <2>1. HEAP_START + 0 = HEAP_START
    BY <1>1
  <2> QED BY <1>1, <1>3, <2>1
<1>5. ASSUME NEW k \in 0 .. (n - 1), k \in S PROVE k + 1 \in S
  <2>1. /\ HEAP_START + k \in Nat /\ HEAP_START <= HEAP_START + k /\ k + 1 \in 0 .. n
        /\ HEAP_START + k <= HEAP_MAX /\ (HEAP_START + k) + 1 = HEAP_START + (k + 1)
    BY <1>1
  <2>2. Fine(MapNew(g[k], KernelDir, HEAP_START + k), {}, {}, {}, (HEAP_START + k) + 1)
    BY <1>5, <2>1, MapNewHeap
  <2>3. Fine(g[k + 1], {}, {}, {}, HEAP_START + (k + 1))
    BY <1>3, <2>1, <2>2
  <2> QED BY <2>1, <2>3
<1> HIDE DEF S
<1>6. n \in S
  BY <1>1, <1>4, <1>5, CountUp
<1> QED BY <1>2, <1>6 DEF S, n

\* The first k frames of the RAM disk.
Ramdisk(k) == {RAMDISK_PHYS + i : i \in 0 .. (k - 1)}

LEMMA RamdiskFacts ==
  /\ RAMDISK_PHYS \in Nat /\ RAMDISK_PAGES \in Nat /\ Ramdisk(0) = {}
  /\ \A k \in Nat : Ramdisk(k + 1) = Ramdisk(k) \cup {RAMDISK_PHYS + k}
  /\ \A k \in 0 .. (RAMDISK_PAGES - 1) :
       RAMDISK_VIRT + k \in Nat /\ (RAMDISK_VIRT + k) \div ENTRIES \in HeapIdx
<1>1. /\ RAMDISK_PHYS \in Nat /\ RAMDISK_PAGES \in Nat /\ RAMDISK_VIRT \in Nat
      /\ HEAP_MAX <= RAMDISK_VIRT /\ RAMDISK_VIRT + RAMDISK_PAGES <= HEAP_MAX + ENTRIES
      /\ HEAP_MAX % ENTRIES = 0
  BY PagingAssumptions, MemoryAssumptions DEF PagingAssumption, MemoryAssumption
<1>2. ASSUME NEW k \in Nat PROVE Ramdisk(k + 1) = Ramdisk(k) \cup {RAMDISK_PHYS + k}
  <2>1. 0 .. ((k + 1) - 1) = (0 .. (k - 1)) \cup {k}
    OBVIOUS
  <2> QED BY <2>1 DEF Ramdisk
<1>3. Ramdisk(0) = {}
  BY DEF Ramdisk
<1>4. ASSUME NEW k \in 0 .. (RAMDISK_PAGES - 1)
      PROVE  RAMDISK_VIRT + k \in Nat /\ (RAMDISK_VIRT + k) \div ENTRIES \in HeapIdx
  <2>1. \A a, b, E \in Nat : E > 0 /\ b % E = 0 /\ b <= a /\ a < b + E => a \div E = b \div E
    OBVIOUS
  <2>2. RAMDISK_VIRT + k \in Nat /\ HEAP_MAX <= RAMDISK_VIRT + k
        /\ RAMDISK_VIRT + k < HEAP_MAX + ENTRIES
    BY <1>1, LayoutFacts
  <2>3. (RAMDISK_VIRT + k) \div ENTRIES = HEAP_MAX \div ENTRIES
    BY <1>1, <2>1, <2>2, LayoutFacts
  <2> QED BY <2>2, <2>3, LayoutFacts DEF HeapIdx
<1> QED BY <1>1, <1>2, <1>3, <1>4

LEMMA InitRamdiskSteps ==
  ASSUME NEW m, RAMDISK_PAGES \in Nat
  PROVE  \E g : Steps("ramdisk", 0, 0, 0, m, RAMDISK_PAGES, g)
                /\ InitRamdisk(m) = g[RAMDISK_PAGES]
<1>1. PICK g : Steps("ramdisk", 0, 0, 0, m, RAMDISK_PAGES, g)
  BY StepsExist
<1>2. g = [k \in 0 .. RAMDISK_PAGES |->
             IF k = 0 THEN m
             ELSE MapPage(Set(g[k - 1], RAMDISK_PHYS + (k - 1)), KernelDir,
                          RAMDISK_PHYS + (k - 1), RAMDISK_VIRT + (k - 1))]
  BY <1>1 DEF Steps, Step
<1> QED BY <1>2 DEF InitRamdisk, Rounds, Steps, Step

LEMMA SetFine ==
  ASSUME NEW m, NEW R, NEW end, Fine(m, {}, {}, R, end), NEW f
  PROVE  Fine(Set(m, f), {}, {}, R \cup {f}, end)
<1> DEFINE x == Set(m, f)
<1>1. /\ IsMem(x) /\ x.panic = m.panic /\ x.i = m.i /\ x.entry = m.entry
      /\ x.taken = m.taken \cup ({f} \cap Frames)
  BY DEF Set, Fine, IsMem
<1>2. ASSUME ~m.panic PROVE \E own : Owned(x.taken, x.entry, {}, {}, R \cup {f}, end, own)
  <2>1. PICK own : Owned(m.taken, m.entry, {}, {}, R, end, own)
    BY <1>2 DEF Fine
  <2>2. Owned(m.taken \cup ({f} \cap Frames), m.entry, {}, {}, R \cup {f}, end,
              [g \in Frames |-> IF g = f THEN KERNEL ELSE own[g]])
    BY <2>1, TakeRamdisk
  <2> QED BY <1>1, <2>2
<1> QED BY <1>1, <1>2 DEF Fine

\* _init_himem_ramdisk.
LEMMA InitRamdiskFine ==
  ASSUME NEW m, NEW end, Fine(m, {}, {}, {}, end)
  PROVE  Fine(InitRamdisk(m), {}, {}, Ramdisk(RAMDISK_PAGES), end)
<1> DEFINE n == RAMDISK_PAGES
<1>1. n \in Nat /\ RAMDISK_PHYS \in Nat
  BY RamdiskFacts
<1>2. PICK g : Steps("ramdisk", 0, 0, 0, m, n, g) /\ InitRamdisk(m) = g[n]
  BY <1>1, InitRamdiskSteps
<1>3. /\ g[0] = m
      /\ \A k \in 0 .. (n - 1) :
           g[k + 1] = MapPage(Set(g[k], RAMDISK_PHYS + k), KernelDir,
                              RAMDISK_PHYS + k, RAMDISK_VIRT + k)
  <2>1. g[0] = m /\ \A k \in 0 .. (n - 1) : g[k + 1] = Step("ramdisk", 0, 0, 0, g[k], k)
    BY <1>1, <1>2, StepsFacts
  <2> QED BY <2>1 DEF Step
<1> DEFINE S == {k \in 0 .. n : Fine(g[k], {}, {}, Ramdisk(k), end)}
<1>4. 0 \in S
  <2>1. Ramdisk(0) = {} /\ 0 \in 0 .. n
    BY <1>1, RamdiskFacts
  <2>2. Fine(g[0], {}, {}, Ramdisk(0), end)
    BY <1>3, <2>1
  <2> QED BY <2>1, <2>2
<1>5. ASSUME NEW k \in 0 .. (n - 1), k \in S PROVE k + 1 \in S
  <2>1. /\ k \in Nat /\ k + 1 \in 0 .. n /\ RAMDISK_PHYS + k \in Nat
        /\ RAMDISK_VIRT + k \in Nat /\ (RAMDISK_VIRT + k) \div ENTRIES \in HeapIdx
        /\ Ramdisk(k + 1) = Ramdisk(k) \cup {RAMDISK_PHYS + k}
    BY <1>1, RamdiskFacts
  <2>2. Fine(Set(g[k], RAMDISK_PHYS + k), {}, {}, Ramdisk(k + 1), end)
    BY <1>5, <2>1, SetFine
  <2>3. Fine(MapPage(Set(g[k], RAMDISK_PHYS + k), KernelDir, RAMDISK_PHYS + k,
                     RAMDISK_VIRT + k), {}, {}, Ramdisk(k + 1), end)
    BY <2>1, <2>2, MapKernelPage
  <2>4. Fine(g[k + 1], {}, {}, Ramdisk(k + 1), end)
    BY <1>3, <2>3
  <2> QED BY <2>1, <2>4
<1> HIDE DEF S
<1>6. n \in S
  BY <1>1, <1>4, <1>5, CountUp
<1> QED BY <1>2, <1>6 DEF S

\* _init.
LEMMA BootedFine ==
  /\ Fine(Booted.mem, {Booted.dir}, {}, Ramdisk(RAMDISK_PAGES),
          HEAP_START + HEAP_INITIAL_PAGES)
  /\ ~Booted.mem.panic => Booted.dir \in Nat \ {NONE}
<1> DEFINE R == Ramdisk(RAMDISK_PAGES)
           end == HEAP_START + HEAP_INITIAL_PAGES
           b == InitRamdisk(InitKmalloc(InitializePaging))
           c == CloneDirectory(b, KernelDir)
           x == Load(c.mem, c.copied, INITPROC)
<1>1. Booted.mem = [x EXCEPT !.got = NONE] /\ Booted.dir = c.copied
  BY DEF Booted
<1>2. Fine(b, {}, {}, R, end)
  BY InitializeFine, InitKmallocFine, InitRamdiskFine
<1> HIDE DEF b, R, end
<1>3. Fine(c.mem, {} \cup {c.copied}, {}, R, end)
  BY <1>2, CloneFine
<1> HIDE DEF c
<1>4. Fine(x, {} \cup {c.copied}, {}, R, end)
  <2>1. INITPROC \in Programs
    BY MemoryAssumptions DEF MemoryAssumption
  <2> QED BY <2>1, <1>3, LoadFine
<1> HIDE DEF x
<1>5. {} \cup {c.copied} = {c.copied}
  OBVIOUS
<1> DEFINE y == [x EXCEPT !.got = NONE]
<1>6. /\ IsMem(y) /\ y.panic = x.panic /\ y.i = x.i /\ y.taken = x.taken
      /\ y.entry = x.entry
  BY <1>4 DEF Fine, IsMem
<1> HIDE DEF y
<1>7. Fine(y, {c.copied}, {}, R, end)
  BY <1>4, <1>5, <1>6 DEF Fine
<1>8. ASSUME ~y.panic PROVE c.copied \in Nat \ {NONE}
  <2>1. PICK own : Owned(y.taken, y.entry, {c.copied}, {}, R, end, own)
    BY <1>7, <1>8 DEF Fine
  <2>2. {c.copied} \subseteq Frames
    BY <2>1 DEF Owned
  <2>3. NONE \notin {c.copied}
    BY <2>1, NoneOwned
  <2> QED BY <2>2, <2>3, NoneFacts
<1> QED BY <1>1, <1>7, <1>8 DEF y, R, end

-----------------------------------------------------------------------------
(* The invariant.                                                          *)

\* The directories of the processes.
Dirs == {pdir[p] : p \in Live}

SpaceInv ==
  memPhase # "panic" =>
    /\ Fine(mem, Dirs, {}, Ramdisk(RAMDISK_PAGES), heapEnd) /\ ~mem.panic
    /\ pdir \in [Procs -> Nat] /\ running \in Procs
    /\ \A p, q \in Live : pdir[p] = pdir[q] => p = q
    /\ memPhase \in {"user", "dispatch"}
    /\ memPhase = "user" => pdir[running] # NONE /\ loaded = pdir[running]
    /\ memPhase = "dispatch" => pdir[running] = NONE
    /\ heapEnd \in Nat /\ HEAP_START <= heapEnd
    /\ messageLoc \in Nat /\ MESSAGE_LOCATION_START <= messageLoc

LEMMA InitSpace == MemInit => SpaceInv
<1> SUFFICES ASSUME MemInit, memPhase # "panic" PROVE SpaceInv
  BY DEF SpaceInv
<1>1. initproc \in Procs /\ HEAP_INITIAL_PAGES \in Nat /\ MESSAGE_LOCATION_START \in Nat
  BY MemoryAssumptions DEF MemoryAssumption
<1>2. ~Booted.mem.panic /\ memPhase = "user"
  BY DEF MemInit
<1>3. Booted.dir \in Nat \ {NONE}
  BY <1>2, BootedFine
<1>4. /\ pdir = [p \in Procs |-> IF p = initproc THEN Booted.dir ELSE NONE]
      /\ mem = Booted.mem /\ loaded = Booted.dir /\ running = initproc
      /\ heapEnd = HEAP_START + HEAP_INITIAL_PAGES /\ messageLoc = MESSAGE_LOCATION_START
  BY DEF MemInit
<1>5. pdir \in [Procs -> Nat] /\ pdir[initproc] = Booted.dir
  BY <1>1, <1>3, <1>4 DEF NONE
<1>6. Live = {initproc}
  BY <1>1, <1>3, <1>4 DEF Live
<1>7. Dirs = {Booted.dir}
  BY <1>5, <1>6 DEF Dirs
<1>8. Fine(mem, Dirs, {}, Ramdisk(RAMDISK_PAGES), heapEnd)
  BY <1>4, <1>7, BootedFine
<1>9. heapEnd \in Nat /\ HEAP_START <= heapEnd
  BY <1>1, <1>4, LayoutFacts
<1> QED BY <1>1, <1>2, <1>3, <1>4, <1>5, <1>6, <1>8, <1>9 DEF SpaceInv

\* What a handler leaves when it has not panicked.
LEMMA BecomesFine ==
  ASSUME NEW m, NEW D, NEW R, NEW end, Fine(m, D, {}, R, end), ~m.panic
  PROVE  Fine([m EXCEPT !.got = NONE], D, {}, R, end) /\ ~[m EXCEPT !.got = NONE].panic
<1> DEFINE x == [m EXCEPT !.got = NONE]
<1>1. /\ IsMem(x) /\ x.panic = m.panic /\ x.i = m.i /\ x.taken = m.taken
      /\ x.entry = m.entry
  BY DEF Fine, IsMem
<1> HIDE DEF x
<1>2. Fine(x, D, {}, R, end) /\ ~x.panic
  BY <1>1 DEF Fine
<1> QED BY <1>2 DEF x

\* A step that leaves the directories where they are.
LEMMA SpaceStays ==
  ASSUME SpaceInv, memPhase = "user", memPhase' = "user",
         UNCHANGED <<pdir, running>>, loaded' = pdir[running],
         Fine(mem', Dirs, {}, Ramdisk(RAMDISK_PAGES), heapEnd'), ~mem'.panic,
         heapEnd' \in Nat, HEAP_START <= heapEnd',
         messageLoc' \in Nat, MESSAGE_LOCATION_START <= messageLoc'
  PROVE  SpaceInv'
<1>1. Live' = Live /\ Dirs' = Dirs
  BY DEF Live, Dirs
<1>2. /\ pdir' = pdir /\ running' = running
      /\ pdir \in [Procs -> Nat] /\ running \in Procs
      /\ \A p, q \in Live : pdir[p] = pdir[q] => p = q
      /\ pdir[running] # NONE
  BY DEF SpaceInv
<1>3. Fine(mem', Dirs', {}, Ramdisk(RAMDISK_PAGES), heapEnd')
  BY <1>1
<1> QED BY <1>1, <1>2, <1>3 DEF SpaceInv

LEMMA ForkKeeps == ASSUME SpaceInv, NEW p \in Procs, ForkSpace(p) PROVE SpaceInv'
<1> DEFINE R == Ramdisk(RAMDISK_PAGES)
           x == CloneDirectory(mem, loaded)
           c == x.copied
<1> SUFFICES ASSUME memPhase' # "panic" PROVE SpaceInv'
  BY DEF SpaceInv
<1>0. /\ memPhase = "user" /\ pdir[p] = NONE /\ Becomes(x.mem)
      /\ pdir' = [pdir EXCEPT ![p] = c] /\ loaded' = pdir[running]
      /\ UNCHANGED <<running, heapEnd, messageLoc>>
  BY DEF ForkSpace
<1>1. /\ Fine(mem, Dirs, {}, R, heapEnd) /\ pdir \in [Procs -> Nat] /\ running \in Procs
      /\ \A q, r \in Live : pdir[q] = pdir[r] => q = r
      /\ pdir[running] # NONE /\ loaded = pdir[running]
      /\ heapEnd \in Nat /\ HEAP_START <= heapEnd
      /\ messageLoc \in Nat /\ MESSAGE_LOCATION_START <= messageLoc
  BY <1>0 DEF SpaceInv
<1>2. loaded \in Dirs \cup {KernelDir}
  BY <1>1 DEF Dirs, Live
<1>3. /\ Fine(x.mem, Dirs \cup {c}, {}, R, heapEnd)
      /\ ~x.mem.panic => c \in Frames \ {NONE} /\ c \notin Dirs
  BY <1>1, <1>2, CloneFine
<1> HIDE DEF x, R
<1>4. ~x.mem.panic /\ mem' = [x.mem EXCEPT !.got = NONE] /\ memPhase' = "user"
  BY <1>0 DEF Becomes
<1>5. Fine(mem', Dirs \cup {c}, {}, R, heapEnd) /\ ~mem'.panic
  BY <1>3, <1>4, BecomesFine
<1>6. c \in Nat /\ c # NONE /\ c \notin Dirs
  BY <1>3, <1>4, NoneFacts
<1> HIDE DEF c
<1>7. pdir' \in [Procs -> Nat] /\ pdir'[p] = c /\ \A q \in Procs : q # p => pdir'[q] = pdir[q]
  BY <1>0, <1>1, <1>6
<1>8. Live' = Live \cup {p} /\ p \notin Live
  BY <1>0, <1>6, <1>7 DEF Live
<1>9. Dirs' = Dirs \cup {c}
  BY <1>7, <1>8 DEF Dirs, Live
<1>10. \A q, r \in Live' : pdir'[q] = pdir'[r] => q = r
  <2>1. \A q \in Live : q \in Procs /\ pdir'[q] = pdir[q] /\ pdir[q] # c
    BY <1>6, <1>7, <1>8 DEF Dirs, Live
  <2> QED BY <2>1, <1>1, <1>7, <1>8
<1>11. running # p /\ pdir'[running] = pdir[running]
  BY <1>0, <1>1, <1>7
<1>12. Fine(mem', Dirs', {}, R, heapEnd')
  BY <1>0, <1>5, <1>9
<1> QED BY <1>0, <1>1, <1>4, <1>5, <1>7, <1>10, <1>11, <1>12 DEF SpaceInv, R

LEMMA ExecKeeps == ASSUME SpaceInv, NEW prog \in Programs, Exec(prog) PROVE SpaceInv'
<1> DEFINE R == Ramdisk(RAMDISK_PAGES)
           x == Load(mem, loaded, prog)
<1> SUFFICES ASSUME memPhase' # "panic" PROVE SpaceInv'
  BY DEF SpaceInv
<1>0. /\ memPhase = "user" /\ Becomes(x)
      /\ UNCHANGED <<pdir, running, loaded, heapEnd, messageLoc>>
  BY DEF Exec
<1>1. /\ Fine(mem, Dirs, {}, R, heapEnd) /\ running \in Procs
      /\ pdir[running] # NONE /\ loaded = pdir[running]
      /\ heapEnd \in Nat /\ HEAP_START <= heapEnd
      /\ messageLoc \in Nat /\ MESSAGE_LOCATION_START <= messageLoc
  BY <1>0 DEF SpaceInv
<1>2. loaded \in Dirs
  BY <1>1 DEF Dirs, Live
<1>3. Fine(x, Dirs, {}, R, heapEnd)
  BY <1>1, <1>2, LoadFine
<1> HIDE DEF x
<1>4. ~x.panic /\ mem' = [x EXCEPT !.got = NONE] /\ memPhase' = "user"
  BY <1>0 DEF Becomes
<1>5. Fine(mem', Dirs, {}, R, heapEnd) /\ ~mem'.panic
  BY <1>3, <1>4, BecomesFine
<1>6. /\ heapEnd' = heapEnd /\ messageLoc' = messageLoc /\ loaded' = pdir[running]
      /\ UNCHANGED <<pdir, running>>
  BY <1>0, <1>1
<1> QED BY <1>0, <1>1, <1>4, <1>5, <1>6, SpaceStays

LEMMA ExitKeeps == ASSUME SpaceInv, ExitSpace PROVE SpaceInv'
<1> DEFINE R == Ramdisk(RAMDISK_PAGES)
           x == DeallocDirectory(mem, loaded)
<1>0. /\ memPhase = "user" /\ mem' = x /\ pdir' = [pdir EXCEPT ![running] = NONE]
      /\ memPhase' = "dispatch" /\ UNCHANGED <<running, heapEnd, messageLoc>>
  BY DEF ExitSpace
<1>1. /\ Fine(mem, Dirs, {}, R, heapEnd) /\ ~mem.panic
      /\ pdir \in [Procs -> Nat] /\ running \in Procs
      /\ \A q, r \in Live : pdir[q] = pdir[r] => q = r
      /\ pdir[running] # NONE /\ loaded = pdir[running]
      /\ heapEnd \in Nat /\ HEAP_START <= heapEnd
      /\ messageLoc \in Nat /\ MESSAGE_LOCATION_START <= messageLoc
  BY <1>0 DEF SpaceInv
<1>2. loaded \in Dirs
  BY <1>1 DEF Dirs, Live
<1>3. Fine(x, Dirs \ {loaded}, {}, R, heapEnd) /\ ~x.panic
  BY <1>1, <1>2, DeallocFine
<1> HIDE DEF x
<1>4. /\ pdir' \in [Procs -> Nat] /\ pdir'[running] = NONE
      /\ \A q \in Procs : q # running => pdir'[q] = pdir[q]
  BY <1>0, <1>1 DEF NONE
<1>5. Live' = Live \ {running} /\ running \in Live /\ Live \subseteq Procs
  BY <1>1, <1>4 DEF Live
<1>6. Dirs' = Dirs \ {loaded}
  <2>1. \A q \in Live : q # running => pdir[q] # loaded
    BY <1>1, <1>5
  <2> QED BY <2>1, <1>1, <1>4, <1>5 DEF Dirs
<1>7. \A q, r \in Live' : pdir'[q] = pdir'[r] => q = r
  BY <1>1, <1>4, <1>5
<1>8. Fine(mem', Dirs', {}, R, heapEnd') /\ ~mem'.panic
  BY <1>0, <1>3, <1>6
<1> QED BY <1>0, <1>1, <1>4, <1>7, <1>8 DEF SpaceInv

LEMMA DispatchKeeps == ASSUME SpaceInv, NEW p \in Procs, DispatchTo(p) PROVE SpaceInv'
<1>0. /\ memPhase \in {"user", "dispatch"} /\ pdir[p] # NONE /\ running' = p
      /\ loaded' = pdir[p] /\ memPhase' = "user"
      /\ mem' = mem /\ pdir' = pdir /\ heapEnd' = heapEnd /\ messageLoc' = messageLoc
  BY DEF DispatchTo
<1>1. Live' = Live /\ Dirs' = Dirs
  BY <1>0 DEF Live, Dirs
<1>2. memPhase # "panic"
  BY <1>0
<1> QED BY <1>0, <1>1, <1>2 DEF SpaceInv

LEMMA WriteKeeps == ASSUME SpaceInv, NEW addr, WriteByte(addr) PROVE SpaceInv'
<1> DEFINE R == Ramdisk(RAMDISK_PAGES)
           x == StoreByte(mem, loaded, addr, "own")
<1>0. /\ memPhase = "user" /\ memPhase' = memPhase /\ mem' = x
      /\ Frame(mem, loaded, addr \div FRAME_SIZE) # NONE
      /\ UNCHANGED <<pdir, running, loaded, heapEnd, messageLoc>>
  BY DEF WriteByte
<1>1. /\ Fine(mem, Dirs, {}, R, heapEnd) /\ ~mem.panic /\ loaded = pdir[running]
      /\ heapEnd \in Nat /\ HEAP_START <= heapEnd
      /\ messageLoc \in Nat /\ MESSAGE_LOCATION_START <= messageLoc
  BY <1>0 DEF SpaceInv
<1>2. Fine(x, Dirs, {}, R, heapEnd)
  BY <1>1, StoreByteFine
<1>3. ~x.panic
  <2>1. IsMem(mem)
    BY <1>1 DEF Fine
  <2> QED BY <2>1, <1>0, <1>1 DEF StoreByte, IsMem
<1> HIDE DEF x
<1>4. /\ heapEnd' = heapEnd /\ messageLoc' = messageLoc /\ loaded' = pdir[running]
      /\ memPhase' = "user" /\ UNCHANGED <<pdir, running>>
  BY <1>0, <1>1
<1>5. Fine(mem', Dirs, {}, R, heapEnd') /\ ~mem'.panic
  BY <1>0, <1>2, <1>3
<1> QED BY <1>0, <1>1, <1>4, <1>5, SpaceStays

LEMMA MessageKeeps == ASSUME SpaceInv, NEW p \in Procs, MessagePage(p) PROVE SpaceInv'
<1> DEFINE R == Ramdisk(RAMDISK_PAGES)
           x == MapNew(mem, pdir[p], messageLoc)
<1> SUFFICES ASSUME memPhase' # "panic" PROVE SpaceInv'
  BY DEF SpaceInv
<1>0. /\ memPhase = "user" /\ pdir[p] # NONE /\ Becomes(x)
      /\ messageLoc < MESSAGE_LOCATION_START + MaxMessages /\ messageLoc' = messageLoc + 1
      /\ loaded' = pdir[running] /\ UNCHANGED <<pdir, running, heapEnd>>
  BY DEF MessagePage
<1>1. /\ Fine(mem, Dirs, {}, R, heapEnd)
      /\ heapEnd \in Nat /\ HEAP_START <= heapEnd
      /\ messageLoc \in Nat /\ MESSAGE_LOCATION_START <= messageLoc
  BY <1>0 DEF SpaceInv
<1>2. pdir[p] \in Dirs
  BY <1>0 DEF Dirs, Live
<1>3. messageLoc \in UserArea
  <2>1. /\ MESSAGE_LOCATION_START \in Nat /\ MaxMessages \in Nat
        /\ RESERVED_LO <= MESSAGE_LOCATION_START
        /\ MESSAGE_LOCATION_START + MaxMessages <= KERNEL_PAGE_DIR_INDEX * ENTRIES
    BY MemoryAssumptions DEF MemoryAssumption
  <2>2. KERNEL_PAGE_DIR_INDEX * ENTRIES \in Nat
    BY LayoutFacts
  <2> QED BY <2>1, <2>2, <1>0, <1>1, AreaFacts, LayoutFacts DEF UserArea
<1>4. Fine(x, Dirs, {}, R, heapEnd)
  BY <1>1, <1>2, <1>3, MapNewFine
<1> HIDE DEF x
<1>5. ~x.panic /\ mem' = [x EXCEPT !.got = NONE] /\ memPhase' = "user"
  BY <1>0 DEF Becomes
<1>6. Fine(mem', Dirs, {}, R, heapEnd') /\ ~mem'.panic
  BY <1>0, <1>4, <1>5, BecomesFine
<1>7. messageLoc' \in Nat /\ MESSAGE_LOCATION_START <= messageLoc'
  <2>1. MESSAGE_LOCATION_START \in Nat
    BY MemoryAssumptions DEF MemoryAssumption
  <2> QED BY <2>1, <1>0, <1>1
<1> QED BY <1>0, <1>1, <1>5, <1>6, <1>7, SpaceStays

LEMMA GrowKeeps == ASSUME SpaceInv, NEW n \in GrowBy, GrowHeap(n) PROVE SpaceInv'
<1> DEFINE R == Ramdisk(RAMDISK_PAGES)
           g == Grown(mem, heapEnd, n)
           x == CopyHeapEntries(g, KernelDir, pdir[running])
<1> SUFFICES ASSUME memPhase' # "panic" PROVE SpaceInv'
  BY DEF SpaceInv
<1>0. /\ memPhase = "user" /\ Becomes(x) /\ heapEnd' = heapEnd + n
      /\ loaded' = pdir[running] /\ UNCHANGED <<pdir, running, messageLoc>>
  BY DEF GrowHeap, Grown, HeapDir
<1>1. /\ Fine(mem, Dirs, {}, R, heapEnd) /\ pdir[running] # NONE /\ running \in Procs
      /\ heapEnd \in Nat /\ HEAP_START <= heapEnd
      /\ messageLoc \in Nat /\ MESSAGE_LOCATION_START <= messageLoc
  BY <1>0 DEF SpaceInv
<1>2. pdir[running] \in Dirs
  BY <1>1 DEF Dirs, Live
<1>3. n \in Nat
  BY MemoryAssumptions DEF MemoryAssumption
<1>4. Fine(g, Dirs, {}, R, heapEnd + n)
  BY <1>1, <1>3, GrownFine
<1> HIDE DEF g
<1>5. Fine(x, Dirs, {}, R, heapEnd + n)
  BY <1>2, <1>4, RenewFine
<1> HIDE DEF x
<1>6. ~x.panic /\ mem' = [x EXCEPT !.got = NONE] /\ memPhase' = "user"
  BY <1>0 DEF Becomes
<1>7. Fine(mem', Dirs, {}, R, heapEnd') /\ ~mem'.panic
  BY <1>0, <1>5, <1>6, BecomesFine
<1>8. /\ heapEnd' \in Nat /\ HEAP_START <= heapEnd' /\ messageLoc' = messageLoc
      /\ UNCHANGED <<pdir, running>>
  BY <1>0, <1>1, <1>3, LayoutFacts
<1> QED BY <1>0, <1>1, <1>6, <1>7, <1>8, SpaceStays

LEMMA FaultKeeps == ASSUME SpaceInv, NEW page, PageFault(page) PROVE SpaceInv'
<1> DEFINE R == Ramdisk(RAMDISK_PAGES)
           x == CopyHeapEntries(mem, KernelDir, pdir[running])
<1>0. /\ memPhase = "user" /\ memPhase' = "user" /\ mem' = x
      /\ loaded' = pdir[running] /\ UNCHANGED <<pdir, running, heapEnd, messageLoc>>
  BY DEF PageFault
<1>1. /\ Fine(mem, Dirs, {}, R, heapEnd) /\ ~mem.panic
      /\ pdir[running] # NONE /\ running \in Procs
      /\ heapEnd \in Nat /\ HEAP_START <= heapEnd
      /\ messageLoc \in Nat /\ MESSAGE_LOCATION_START <= messageLoc
  BY <1>0 DEF SpaceInv
<1>2. pdir[running] \in Dirs
  BY <1>1 DEF Dirs, Live
<1>3. Fine(x, Dirs, {}, R, heapEnd)
  BY <1>1, <1>2, RenewFine
<1>4. ~x.panic
  BY <1>1 DEF CopyHeapEntries, Fine, IsMem
<1> HIDE DEF x
<1>5. Fine(mem', Dirs, {}, R, heapEnd') /\ ~mem'.panic
  BY <1>0, <1>3, <1>4
<1>6. heapEnd' = heapEnd /\ messageLoc' = messageLoc /\ UNCHANGED <<pdir, running>>
  BY <1>0
<1> QED BY <1>0, <1>1, <1>5, <1>6, SpaceStays

LEMMA NextSpace == SpaceInv /\ [MemNext]_memVars => SpaceInv'
<1> SUFFICES ASSUME SpaceInv, [MemNext]_memVars PROVE SpaceInv'
  OBVIOUS
<1>1. CASE UNCHANGED memVars
  <2>1. /\ mem' = mem /\ pdir' = pdir /\ running' = running /\ loaded' = loaded
        /\ heapEnd' = heapEnd /\ messageLoc' = messageLoc /\ memPhase' = memPhase
    BY <1>1 DEF memVars
  <2>2. Live' = Live /\ Dirs' = Dirs
    BY <2>1 DEF Live, Dirs
  <2> QED BY <2>1, <2>2 DEF SpaceInv
<1>2. ASSUME NEW p \in Procs, ForkSpace(p) PROVE SpaceInv'
  BY <1>2, ForkKeeps
<1>3. ASSUME NEW p \in Procs, DispatchTo(p) PROVE SpaceInv'
  BY <1>3, DispatchKeeps
<1>4. ASSUME NEW p \in Procs, MessagePage(p) PROVE SpaceInv'
  BY <1>4, MessageKeeps
<1>5. ASSUME NEW prog \in Programs, Exec(prog) PROVE SpaceInv'
  BY <1>5, ExecKeeps
<1>6. CASE ExitSpace
  BY <1>6, ExitKeeps
<1>7. ASSUME NEW addr \in UserBytes, WriteByte(addr) PROVE SpaceInv'
  BY <1>7, WriteKeeps
<1>8. ASSUME NEW n \in GrowBy, GrowHeap(n) PROVE SpaceInv'
  BY <1>8, GrowKeeps
<1>9. ASSUME NEW page \in HEAP_START .. HEAP_MAX, PageFault(page) PROVE SpaceInv'
  BY <1>9, FaultKeeps
<1> QED BY <1>1, <1>2, <1>3, <1>4, <1>5, <1>6, <1>7, <1>8, <1>9 DEF MemNext

LEMMA SpaceAlways == MemSpec => []SpaceInv
BY InitSpace, NextSpace, PTL DEF MemSpec

-----------------------------------------------------------------------------
(* Memory: what the invariant says of DirectoriesSound and                 *)
(* TouchedIsPresent.                                                       *)

\* What a directory has for itself are the frames that it owns.
LEMMA SpaceOwned ==
  ASSUME NEW D, NEW R, NEW own,
         Owned(mem.taken, mem.entry, D, {}, R, heapEnd, own), NEW d \in D
  PROVE  /\ Space(d) \subseteq Frames
         /\ \A f \in Frames : f \in Space(d) <=>
              \/ f = d
              \/ \E k \in Idx : own[f] = TABLE(d, k)
              \/ \E k \in Idx, j \in Idx : own[f] = PAGE(d, k, j)
<1> DEFINE e == mem.entry
<1>1. /\ D \subseteq Frames /\ UserOwned(e, D, own) /\ d \in Frames
  BY DEF Owned
<1>2. NONE \in Frames => own[NONE] = KERNEL
  BY NoneOwned
<1>3. /\ UserIdx = 1 .. (KERNEL_PAGE_DIR_INDEX - 1) /\ Idx = 0 .. LAST /\ UserIdx \subseteq Idx
  BY LayoutFacts DEF UserIdx, Idx
<1>4. UserTables(d) = {e[d][k] : k \in UserIdx} \ {NONE}
  BY <1>3 DEF UserTables
<1>5. UserPages(d) = {e[t][j] : t \in UserTables(d), j \in Idx} \ {NONE}
  BY <1>3 DEF UserPages
<1> HIDE DEF e
<1>6. \A f \in UserTables(d) : f \in Frames /\ \E k \in UserIdx : own[f] = TABLE(d, k) /\ e[d][k] = f
  BY <1>1, <1>4 DEF UserOwned
<1>7. ASSUME NEW f \in Frames, NEW k \in Idx, own[f] = TABLE(d, k)
      PROVE  f \in UserTables(d)
  <2>1. k \in UserIdx /\ e[d][k] = f
    BY <1>1, <1>7 DEF UserOwned
  <2>2. f # NONE
    BY <1>2, <1>7, OwnerFacts
  <2> QED BY <2>1, <2>2, <1>4
<1>8. ASSUME NEW f \in UserPages(d)
      PROVE  f \in Frames /\ \E k \in Idx, j \in Idx : own[f] = PAGE(d, k, j)
  <2>1. PICK t \in UserTables(d), j \in Idx : f = e[t][j] /\ f # NONE
    BY <1>5
  <2>2. PICK k \in UserIdx : t = e[d][k] /\ t # NONE
    BY <1>4
  <2>3. e[d][k] # NONE /\ e[e[d][k]][j] # NONE /\ f = e[e[d][k]][j]
    BY <2>1, <2>2
  <2>4. f \in Frames /\ own[f] = PAGE(d, k, j)
    BY <2>3, <1>1 DEF UserOwned
  <2> QED BY <2>4, <1>3
<1>9. ASSUME NEW f \in Frames, NEW k \in Idx, NEW j \in Idx, own[f] = PAGE(d, k, j)
      PROVE  f \in UserPages(d)
  <2>1. k \in UserIdx /\ e[d][k] # NONE /\ e[e[d][k]][j] = f
    BY <1>1, <1>9 DEF UserOwned
  <2>2. f # NONE
    BY <1>2, <1>9, OwnerFacts
  <2>3. e[d][k] \in UserTables(d)
    BY <2>1, <1>4
  <2> QED BY <2>1, <2>2, <2>3, <1>5
<1>10. Space(d) \subseteq Frames
  BY <1>1, <1>6, <1>8 DEF Space
<1>11. ASSUME NEW f \in Frames
       PROVE  f \in Space(d) <=> \/ f = d
                                 \/ \E k \in Idx : own[f] = TABLE(d, k)
                                 \/ \E k \in Idx, j \in Idx : own[f] = PAGE(d, k, j)
  BY <1>3, <1>6, <1>7, <1>8, <1>9 DEF Space
<1> QED BY <1>10, <1>11

\* The kernel's frames, the RAM disk and what was never free.
LEMMA KernelPartIs ==
  ASSUME NEW D, NEW own,
         Owned(mem.taken, mem.entry, D, {}, Ramdisk(RAMDISK_PAGES), heapEnd, own)
  PROVE  /\ KernelPart(mem.entry, Ramdisk(RAMDISK_PAGES), heapEnd) =
              InitialBitmap
                \cup ({RAMDISK_PHYS + k : k \in 0 .. (RAMDISK_PAGES - 1)} \cap Frames)
                \cup KernelFrames
         /\ KernelPart(mem.entry, Ramdisk(RAMDISK_PAGES), heapEnd) \subseteq Frames
<1> DEFINE e == mem.entry
           R == Ramdisk(RAMDISK_PAGES)
           tables == {e[KernelDir][k] : k \in HeapIdx} \ {NONE}
<1>1. HeapIdx = HeapEntries \cup {HEAP_MAX \div ENTRIES}
  BY LayoutFacts DEF HeapIdx, HeapEntries
<1>2. HeapPages(e, heapEnd) = {Frame(mem, KernelDir, page) : page \in HEAP_START .. (heapEnd - 1)}
  BY DEF HeapPages, FrameOf, Frame
<1>3. KernelFrames = {KernelDir, FirstTable, KernelTable} \cup tables \cup HeapPages(e, heapEnd)
  BY <1>1, <1>2 DEF KernelFrames
<1>4. R = {RAMDISK_PHYS + k : k \in 0 .. (RAMDISK_PAGES - 1)}
  BY DEF Ramdisk
<1>5. KernelOwned(e, R, heapEnd, own)
  BY DEF Owned
<1> HIDE DEF R, e
<1>6. tables \subseteq Frames /\ HeapPages(e, heapEnd) \subseteq Frames
  BY <1>5 DEF KernelOwned, HeapPages
<1>7. {KernelDir, FirstTable, KernelTable} \subseteq Frames /\ InitialBitmap \subseteq Frames
  BY <1>5 DEF KernelOwned, InitialBitmap
<1> HIDE DEF tables
<1>8. KernelPart(e, R, heapEnd) =
        InitialBitmap \cup (R \cap Frames) \cup {KernelDir, FirstTable, KernelTable}
          \cup tables \cup HeapPages(e, heapEnd)
  BY DEF KernelPart, tables
<1>9. KernelPart(e, R, heapEnd) = InitialBitmap \cup (R \cap Frames) \cup KernelFrames
  BY <1>3, <1>8
<1>10. KernelPart(e, R, heapEnd) \subseteq Frames
  BY <1>6, <1>7, <1>8
<1> QED BY <1>4, <1>9, <1>10 DEF R, e

LEMMA OwnedFrames == SpaceInv => FramesOwned
<1> SUFFICES ASSUME SpaceInv, memPhase # "panic" PROVE FramesOwned
  BY DEF FramesOwned
<1> DEFINE R == Ramdisk(RAMDISK_PAGES)
           K == KernelPart(mem.entry, R, heapEnd)
<1>1. PICK own : Owned(mem.taken, mem.entry, Dirs, {}, R, heapEnd, own)
  BY DEF SpaceInv, Fine
<1>2. /\ mem.taken \subseteq Frames /\ own \in [Frames -> Owners]
      /\ \A f \in Frames : own[f] = FREE <=> f \notin mem.taken
      /\ \A f \in Frames : own[f] # HELD
      /\ UserOwned(mem.entry, Dirs, own) /\ KernelOwned(mem.entry, R, heapEnd, own)
  BY <1>1 DEF Owned
<1>3. /\ K = InitialBitmap
               \cup ({RAMDISK_PHYS + k : k \in 0 .. (RAMDISK_PAGES - 1)} \cap Frames)
               \cup KernelFrames
      /\ K \subseteq Frames
  BY <1>1, KernelPartIs
<1>4. \A f \in Frames : own[f] = KERNEL <=> f \in K
  BY <1>2 DEF KernelOwned
<1>5. \A d \in Dirs :
        /\ Space(d) \subseteq Frames
        /\ \A f \in Frames : f \in Space(d) <=>
             \/ f = d
             \/ \E k \in Idx : own[f] = TABLE(d, k)
             \/ \E k \in Idx, j \in Idx : own[f] = PAGE(d, k, j)
  BY <1>1, SpaceOwned
<1>6. /\ \A f \in Frames : own[f] = DIR <=> f \in Dirs
      /\ Dirs \subseteq Frames
  BY <1>1, <1>2 DEF Owned, UserOwned
<1>7. /\ \A p \in Live : pdir[p] \in Dirs
      /\ \A d \in Dirs : \E p \in Live : d = pdir[p]
      /\ \A p, q \in Live : pdir[p] = pdir[q] => p = q
  BY DEF SpaceInv, Dirs
<1> HIDE DEF K
<1>8. ASSUME NEW f \in mem.taken
      PROVE  f \in K \cup UNION {Space(pdir[p]) : p \in Live}
  <2>1. f \in Frames /\ own[f] \in Owners /\ own[f] # FREE /\ own[f] # HELD
    BY <1>2
  <2>2. CASE own[f] = KERNEL
    BY <2>1, <2>2, <1>4
  <2>3. ASSUME NEW d \in Dirs, f \in Space(d)
        PROVE  f \in UNION {Space(pdir[p]) : p \in Live}
    BY <2>3, <1>7
  <2>4. CASE own[f] = DIR
    <3>1. f \in Dirs /\ f \in Space(f)
      BY <2>1, <2>4, <1>5, <1>6
    <3> QED BY <3>1, <2>3
  <2>5. ASSUME NEW d \in Frames, NEW k \in Idx, own[f] = TABLE(d, k)
        PROVE  f \in UNION {Space(pdir[p]) : p \in Live}
    <3>1. d \in Dirs
      BY <2>1, <2>5, <1>2 DEF UserOwned
    <3>2. f \in Space(d)
      BY <3>1, <2>1, <2>5, <1>5
    <3> QED BY <3>1, <3>2, <2>3
  <2>6. ASSUME NEW d \in Frames, NEW k \in Idx, NEW j \in Idx, own[f] = PAGE(d, k, j)
        PROVE  f \in UNION {Space(pdir[p]) : p \in Live}
    <3>1. d \in Dirs
      BY <2>1, <2>6, <1>2 DEF UserOwned
    <3>2. f \in Space(d)
      BY <3>1, <2>1, <2>6, <1>5
    <3> QED BY <3>1, <3>2, <2>3
  <2> QED BY <2>1, <2>2, <2>4, <2>5, <2>6 DEF Owners
<1>9. K \subseteq mem.taken
  BY <1>2, <1>3, <1>4, OwnerFacts
<1>10. ASSUME NEW p \in Live PROVE Space(pdir[p]) \subseteq mem.taken
  BY <1>2, <1>5, <1>6, <1>7, OwnerFacts
<1>11. mem.taken = K \cup UNION {Space(pdir[p]) : p \in Live}
  BY <1>8, <1>9, <1>10
<1>12. ASSUME NEW p \in Live, NEW q \in Live, p # q
       PROVE  Space(pdir[p]) \cap Space(pdir[q]) = {}
  <2>1. pdir[p] \in Dirs /\ pdir[q] \in Dirs /\ pdir[p] # pdir[q]
    BY <1>7, <1>12
  <2>2. ASSUME NEW f, f \in Space(pdir[p]), f \in Space(pdir[q]) PROVE FALSE
    <3>1. f \in Frames
      BY <2>1, <2>2, <1>5
    <3>2. f = pdir[p] \/ f = pdir[q] => own[f] = DIR
      BY <2>1, <3>1, <1>6
    <3>3. \/ f = pdir[p]
          \/ \E k \in Idx : own[f] = TABLE(pdir[p], k)
          \/ \E k \in Idx, j \in Idx : own[f] = PAGE(pdir[p], k, j)
      BY <2>1, <2>2, <3>1, <1>5
    <3>4. \/ f = pdir[q]
          \/ \E k \in Idx : own[f] = TABLE(pdir[q], k)
          \/ \E k \in Idx, j \in Idx : own[f] = PAGE(pdir[q], k, j)
      BY <2>1, <2>2, <3>1, <1>5
    <3> QED BY <2>1, <3>2, <3>3, <3>4, OwnerFacts
  <2> QED BY <2>2
<1>13. ASSUME NEW p \in Live PROVE Space(pdir[p]) \cap K = {}
  <2>1. pdir[p] \in Dirs
    BY <1>7
  <2>2. ASSUME NEW f, f \in Space(pdir[p]), f \in K PROVE FALSE
    <3>1. f \in Frames /\ own[f] = KERNEL
      BY <2>2, <1>3, <1>4
    <3>2. \/ f = pdir[p]
          \/ \E k \in Idx : own[f] = TABLE(pdir[p], k)
          \/ \E k \in Idx, j \in Idx : own[f] = PAGE(pdir[p], k, j)
      BY <2>1, <2>2, <3>1, <1>5
    <3>3. f = pdir[p] => own[f] = DIR
      BY <2>1, <3>1, <1>6
    <3> QED BY <3>1, <3>2, <3>3, OwnerFacts
  <2> QED BY <2>2
<1>14. \A p \in Live : Space(pdir[p]) \cap (KernelFrames \cup InitialBitmap) = {}
  BY <1>13, <1>3
<1> QED BY <1>3, <1>11, <1>12, <1>14 DEF FramesOwned

LEMMA AgreedKernel == SpaceInv => KernelAgrees
<1> SUFFICES ASSUME SpaceInv, memPhase # "panic" PROVE KernelAgrees
  BY DEF KernelAgrees
<1>1. PICK own : Owned(mem.taken, mem.entry, Dirs, {}, Ramdisk(RAMDISK_PAGES), heapEnd, own)
  BY DEF SpaceInv, Fine
<1>2. Alike(mem.entry, Dirs)
  BY <1>1 DEF Owned
<1>3. \A p \in Live : pdir[p] \in Dirs
  BY DEF Dirs
<1> QED BY <1>2, <1>3 DEF Alike, KernelIdx, KernelAgrees

\* Every frame that is in use has one owner, no frame is lost, and the address
\* spaces agree about the kernel, whatever sequence of fork, exec, exit,
\* messages and growth has gone before (physical.c, paging.c, elf.c).
THEOREM DirectoriesAlwaysSound == MemSpec => []DirectoriesSound
<1>1. SpaceInv => DirectoriesSound
  BY OwnedFrames, AgreedKernel DEF DirectoriesSound
<1> QED BY <1>1, SpaceAlways, PTL

LEMMA FaultMaps ==
  ASSUME SpaceInv, NEW page \in HEAP_START .. (HEAP_MAX - 1), PageFault(page)
  PROVE  Frame(mem, loaded, page)' # NONE
<1> DEFINE x == CopyHeapEntries(mem, KernelDir, pdir[running])
           d == pdir[running]
           k == page \div ENTRIES
<1>0. memPhase = "user" /\ mem' = x /\ loaded' = d /\ page \in HEAP_START .. (heapEnd - 1)
  BY DEF PageFault
<1>1. PICK own : Owned(mem.taken, mem.entry, Dirs, {}, Ramdisk(RAMDISK_PAGES), heapEnd, own)
  BY <1>0 DEF SpaceInv, Fine
<1>2. d \in Dirs /\ IsMem(mem)
  BY <1>0 DEF SpaceInv, Fine, Dirs, Live
<1>3. /\ mem.entry \in [Frames -> [Idx -> Nat]] /\ Dirs \subseteq Frames
      /\ KernelOwned(mem.entry, Ramdisk(RAMDISK_PAGES), heapEnd, own)
  BY <1>1 DEF Owned
<1>4. k \in HeapEntries /\ k \in Idx
  <2>1. \A a, b, c, E \in Nat : E > 0 /\ c % E = 0 /\ a <= b /\ b < c =>
          a \div E <= b \div E /\ b \div E <= c \div E - 1
    OBVIOUS
  <2>2. HEAP_MAX % ENTRIES = 0
    BY PagingAssumptions DEF PagingAssumption
  <2>3. page \in Nat /\ HEAP_START <= page /\ page < HEAP_MAX
    BY LayoutFacts
  <2>4. HEAP_START \div ENTRIES <= k /\ k <= HEAP_MAX \div ENTRIES - 1
    BY <2>1, <2>2, <2>3, LayoutFacts
  <2>5. k \in Nat
    BY <2>3, LayoutFacts
  <2> QED BY <2>4, <2>5, LayoutFacts DEF HeapEntries, Idx
<1>5. FrameOf(mem.entry, KernelDir, page) # NONE /\ FrameOf(mem.entry, KernelDir, page) \in Frames
  BY <1>0, <1>3 DEF KernelOwned
<1> DEFINE t == mem.entry[KernelDir][k]
<1>6. t # NONE /\ mem.entry[t][page % ENTRIES] # NONE
  BY <1>5 DEF FrameOf
<1>7. k \in HeapIdx
  BY <1>4, LayoutFacts DEF HeapEntries, HeapIdx
<1>8. t \in Frames /\ t \notin Dirs
  <2>1. mem.entry[KernelDir][k] # NONE
    BY <1>6
  <2> QED BY <2>1, <1>1, <1>7, KernelTables
<1> HIDE DEF d, k
<1>9. /\ x.entry[d][k] = t /\ \A g \in Frames : g # d => x.entry[g] = mem.entry[g]
  <2>1. x.entry = [mem.entry EXCEPT ![d] =
                     [i \in 0 .. LAST |-> IF i \in HeapEntries THEN mem.entry[KernelDir][i]
                                         ELSE mem.entry[d][i]]]
    BY <1>2 DEF CopyHeapEntries, IsMem, d
  <2>2. d \in Frames /\ DOMAIN mem.entry = Frames
    BY <1>2, <1>3
  <2> QED BY <2>1, <2>2, <1>4 DEF Idx
<1>10. x.entry[t] = mem.entry[t]
  BY <1>2, <1>8, <1>9
<1> HIDE DEF x, t
<1>11. mem'.entry[loaded'][page \div ENTRIES] = t /\ mem'.entry[t] = mem.entry[t]
  BY <1>0, <1>9, <1>10 DEF k
<1> QED BY <1>6, <1>11 DEF Frame

\* After the page fault the page of the heap is there, in the directory of the
\* process that touched it (paging.c:401-436).
THEOREM TouchedAlwaysPresent == MemSpec => TouchedIsPresent
<1>1. SpaceInv /\ [MemNext]_memVars =>
        [\A page \in HEAP_START .. (HEAP_MAX - 1) :
           PageFault(page) => Frame(mem, loaded, page)' # NONE]_memVars
  BY FaultMaps
<1> QED BY <1>1, SpaceAlways, PTL DEF MemSpec, TouchedIsPresent

\* What fork leaves the child and its parent.
LEMMA ForkMakesCopy ==
  ASSUME SpaceInv, NEW p \in Procs, ForkSpace(p), memPhase' # "panic", NEW page \in UserArea
  PROVE  LET f == Frame(mem, loaded, page)
             c == Frame(mem', pdir'[p], page)
         IN  IF f = NONE THEN c = NONE
             ELSE c # NONE /\ mem'.data[c] = mem'.data[f]
<1> PICK x, c : x = CloneDirectory(mem, loaded).mem /\ c = CloneDirectory(mem, loaded).copied
  OBVIOUS
<1>1. memPhase = "user" /\ Becomes(x) /\ pdir' = [pdir EXCEPT ![p] = c]
  BY DEF ForkSpace
<1>2. ~x.panic /\ mem' = [x EXCEPT !.got = NONE]
  BY <1>1 DEF Becomes
<1>3. /\ Fine(mem, Dirs, {}, Ramdisk(RAMDISK_PAGES), heapEnd) /\ ~mem.panic
      /\ loaded \in Dirs /\ pdir \in [Procs -> Nat]
  BY <1>1 DEF SpaceInv, Dirs, Live
<1>4. Kept(mem, x, c) /\ \A k \in UserIdx : Same(mem, x, loaded, c, k)
  BY <1>2, <1>3, CloneCopies
<1>5. pdir'[p] = c
  BY <1>1, <1>3
<1>6. mem'.entry = x.entry /\ mem'.data = x.data
  <2>1. IsMem(x)
    BY <1>3, CloneFine DEF Fine
  <2> QED BY <2>1, <1>2 DEF IsMem
<1> DEFINE k == page \div ENTRIES
           j == page % ENTRIES
<1>7. k \in UserIdx /\ j \in Idx /\ j < ENTRIES
  BY UserPageFacts, LayoutFacts DEF Idx, LAST
<1>8. Same(mem, x, loaded, c, k)
  BY <1>4, <1>7
<1>9. mem.entry[loaded][k] # NONE /\ mem.entry[mem.entry[loaded][k]][j] # NONE =>
        x.data[mem.entry[mem.entry[loaded][k]][j]] = mem.data[mem.entry[mem.entry[loaded][k]][j]]
  BY <1>3, <1>4, <1>7, SpaceTaken DEF Kept
<1> HIDE DEF k, j
<1>10. /\ Frame(mem, loaded, page) = IF mem.entry[loaded][k] = NONE THEN NONE
                                     ELSE mem.entry[mem.entry[loaded][k]][j]
       /\ Frame(mem', pdir'[p], page) = IF x.entry[c][k] = NONE THEN NONE
                                        ELSE x.entry[x.entry[c][k]][j]
  BY <1>5, <1>6 DEF Frame, k, j
<1>11. CASE mem.entry[loaded][k] = NONE
  BY <1>8, <1>10, <1>11 DEF Same
<1>12. CASE mem.entry[loaded][k] # NONE
  <2>1. x.entry[c][k] # NONE /\ TableCopied(mem, x, loaded, c, k, ENTRIES)
    BY <1>8, <1>12 DEF Same
  <2>2. IF mem.entry[mem.entry[loaded][k]][j] = NONE THEN x.entry[x.entry[c][k]][j] = NONE
        ELSE /\ x.entry[x.entry[c][k]][j] # NONE
             /\ x.data[x.entry[x.entry[c][k]][j]]
                  = mem.data[mem.entry[mem.entry[loaded][k]][j]]
    BY <2>1, <1>7 DEF TableCopied
  <2> QED BY <1>6, <1>9, <1>10, <1>12, <2>1, <2>2
<1> QED BY <1>11, <1>12

\* Whatever calls have gone before, a child has the memory of its parent, byte
\* for byte: also of pages that messages brought, and with tables that are
\* only partly in use (paging.c:208-305).
THEOREM ForksAlwaysCopy == MemSpec => ForkCopies
<1> DEFINE Copied(p) == \A page \in RESERVED_LO .. (KERNEL_PAGE_DIR_INDEX * ENTRIES - 1) :
             LET f == Frame(mem, loaded, page)
                 c == Frame(mem', pdir'[p], page)
             IN  IF f = NONE THEN c = NONE
                 ELSE c # NONE /\ mem'.data[c] = mem'.data[f]
<1>1. ASSUME SpaceInv, [MemNext]_memVars, NEW p \in Procs,
             pdir[p] = NONE, pdir'[p] # NONE, memPhase' # "panic"
      PROVE  Copied(p)
  <2>1. RESERVED_LO .. (KERNEL_PAGE_DIR_INDEX * ENTRIES - 1) = UserArea
    BY AreaFacts DEF UserArea
  <2>2. \E q \in Procs : ForkSpace(q) /\ pdir' = [pdir EXCEPT ![q] = CloneDirectory(mem, loaded).copied]
    <3>1. UNCHANGED pdir \/ ExitSpace \/ \E q \in Procs : ForkSpace(q)
      BY <1>1 DEF MemNext, memVars, DispatchTo, MessagePage, Exec, WriteByte, GrowHeap,
                  PageFault
    <3>2. ~ UNCHANGED pdir
      BY <1>1
    <3>3. ~ ExitSpace
      BY <1>1 DEF ExitSpace, SpaceInv
    <3> QED BY <3>1, <3>2, <3>3 DEF ForkSpace
  <2>3. ForkSpace(p)
    BY <2>2, <1>1
  <2> QED BY <1>1, <2>1, <2>3, ForkMakesCopy
<1>2. SpaceInv /\ [MemNext]_memVars =>
        \A p \in Procs : pdir[p] = NONE /\ pdir'[p] # NONE /\ memPhase' # "panic" => Copied(p)
  BY <1>1
<1>3. SpaceInv /\ [MemNext]_memVars => 
        [\A p \in Procs : pdir[p] = NONE /\ pdir'[p] # NONE /\ memPhase' # "panic" =>
           \A page \in RESERVED_LO .. (KERNEL_PAGE_DIR_INDEX * ENTRIES - 1) :
             LET f == Frame(mem, loaded, page)
                 c == Frame(mem', pdir'[p], page)
             IN  IF f = NONE THEN c = NONE
                 ELSE c # NONE /\ mem'.data[c] = mem'.data[f]]_memVars
  BY <1>2
<1> QED BY <1>3, SpaceAlways, PTL DEF MemSpec, ForkCopies

-----------------------------------------------------------------------------
(* exec: what each step of the loader does to the bytes that are there.    *)

\* What the pages of directory d are, and their bytes, stays; there may be more.
StaysMapped(m, x, d) ==
  /\ x.data = m.data
  /\ \A page \in UserArea :
       FrameOf(m.entry, d, page) # NONE =>
         FrameOf(x.entry, d, page) = FrameOf(m.entry, d, page)

LEMMA StaysMappedOn ==
  ASSUME NEW m, NEW x, NEW y, NEW d, StaysMapped(m, x, d), StaysMapped(x, y, d)
  PROVE  StaysMapped(m, y, d)
BY DEF StaysMapped

\* A new table is not one that directory d has for another page.
LEMMA TableForKeeps ==
  ASSUME NEW m, NEW D, NEW H, NEW R, NEW end, Fine(m, D, H, R, end),
         NEW d \in D, NEW k \in UserIdx, NEW n, n = TableFor(m, d, k), ~n.panic
  PROVE  ~m.panic /\ StaysMapped(m, n, d)
<1>0. Place(D, d, k)
  BY DEF Place
<1>1. Fine(n, D, H, R, end) /\ ~m.panic
  BY <1>0, TableForFacts
<1>2. CASE m.entry[d][k] # NONE
  BY <1>1, <1>2 DEF TableFor, StaysMapped
<1>3. CASE m.entry[d][k] = NONE
  <2>1. n = AddTable(m, d, k)
    BY <1>3 DEF TableFor
  <2>2. PICK f \in Frames \ {NONE} : f \notin D /\ TableIs(m.entry, n.entry, d, k, f)
    BY <1>0, <1>3, <2>1, NewTable
  <2>3. n.data = m.data
    <3>1. IsMem(GetFree(m)) /\ GetFree(m).data = m.data
      BY Get DEF Fine
    <3> QED BY <2>1, <3>1 DEF AddTable, IsMem
  <2>4. PICK own : Owned(n.taken, n.entry, D, H, R, end, own)
    BY <1>1 DEF Fine
  <2>5. d \in Frames /\ n.entry[d][k] = f
    BY <2>2, <2>4 DEF Owned, TableIs
  <2>6. ASSUME NEW page \in UserArea, FrameOf(m.entry, d, page) # NONE
        PROVE  FrameOf(n.entry, d, page) = FrameOf(m.entry, d, page)
    <3> PICK q : q = page \div ENTRIES
      OBVIOUS
    <3>1. q \in UserIdx
      BY UserPageFacts
    <3>2. m.entry[d][q] # NONE
      BY <2>6 DEF FrameOf
    <3>3. q # k /\ q \in Idx
      BY <3>1, <3>2, <1>3, LayoutFacts
    <3>4. n.entry[d][q] = m.entry[d][q]
      BY <3>3, <2>2 DEF TableIs
    <3>5. n.entry[d][q] \in Frames /\ n.entry[d][q] \notin D /\ n.entry[d][q] # f
      BY <3>1, <3>2, <3>3, <3>4, <2>2, <2>4, <2>5, TablesApart
    <3>6. n.entry[n.entry[d][q]] = m.entry[n.entry[d][q]]
      BY <3>5, <2>2 DEF TableIs
    <3> QED BY <3>2, <3>4, <3>6 DEF FrameOf
  <2> QED BY <1>1, <2>3, <2>6 DEF StaysMapped
<1> QED BY <1>2, <1>3

\* A page is entered only where there was none.
LEMMA MapNewKeeps ==
  ASSUME NEW m, NEW D, NEW R, NEW end, Fine(m, D, {}, R, end),
         NEW d \in D, NEW page \in UserArea, NEW x, x = MapNew(m, d, page), ~x.panic
  PROVE  ~m.panic /\ StaysMapped(m, x, d) /\ FrameOf(m.entry, d, page) = NONE
         /\ FrameOf(x.entry, d, page) # NONE
<1> PICK a, k, j : a = GetFree(m) /\ k = page \div ENTRIES /\ j = page % ENTRIES
  OBVIOUS
<1> PICK n : n = TableFor(a, d, k)
  OBVIOUS
<1> PICK t : t = n.entry[d][k]
  OBVIOUS
<1>1. k \in UserIdx /\ j \in Idx /\ Place(D, d, k)
  BY UserPageFacts DEF Place
<1>2. /\ Fine(a, D, {} \cup {a.got}, R, end) /\ a.entry = m.entry /\ a.data = m.data
      /\ m.panic => a.panic
      /\ ~a.panic => a.got \in Frames /\ a.got \notin m.taken
  BY Get
<1>3. x = IF n.entry[t][j] # NONE THEN [n EXCEPT !.panic = TRUE]
          ELSE WriteEntry(n, t, j, a.got)
  BY MapPageParts DEF MapNew
<1>4. Fine(n, D, {} \cup {a.got}, R, end) /\ (~n.panic => t # NONE)
  BY <1>1, <1>2, TableForFacts
<1>5. n.entry[t][j] = NONE /\ x = WriteEntry(n, t, j, a.got)
  <2>1. IsMem(n)
    BY <1>4 DEF Fine
  <2> QED BY <2>1, <1>3 DEF IsMem
<1>6. x.panic = n.panic /\ x.data = n.data
  BY <1>5 DEF WriteEntry
<1>7. ~a.panic /\ StaysMapped(a, n, d)
  BY <1>1, <1>2, <1>6, TableForKeeps
<1>8. ~m.panic /\ StaysMapped(m, n, d)
  BY <1>2, <1>7 DEF StaysMapped
<1>9. PICK own : Owned(n.taken, n.entry, D, {} \cup {a.got}, R, end, own)
  BY <1>4, <1>6 DEF Fine
<1>10. t \in Frames /\ t # NONE /\ t \notin D /\ \A i \in UserIdx : n.entry[d][i] = t => i = k
  BY <1>1, <1>4, <1>6, <1>9, TablesApart
<1>11. IsMem(n) /\ n.entry \in [Frames -> [Idx -> Nat]] /\ a.got \in Nat /\ a.got # NONE
  <2>1. {} \cup {a.got} = {a.got}
    OBVIOUS
  <2>2. NONE \notin {a.got}
    BY <1>9, <2>1, NoneOwned
  <2>3. IsMem(n) /\ n.entry \in [Frames -> [Idx -> Nat]]
    BY <1>4, <1>9 DEF Fine, Owned
  <2> QED BY <1>2, <1>7, <2>2, <2>3, NoneFacts
<1>12. EntryIs(n.entry, x.entry, t, j, a.got)
  BY <1>1, <1>5, <1>10, <1>11, WriteEntryFacts
<1>13. x.entry[d] = n.entry[d] /\ x.entry[t][j] = a.got
  BY <1>9, <1>10, <1>12 DEF EntryIs, Owned
<1>14. FrameOf(n.entry, d, page) = NONE /\ FrameOf(x.entry, d, page) # NONE
  BY <1>5, <1>10, <1>11, <1>13 DEF FrameOf
<1>15. ASSUME NEW p \in UserArea, FrameOf(n.entry, d, p) # NONE
       PROVE  FrameOf(x.entry, d, p) = FrameOf(n.entry, d, p)
  <2> PICK q, i : q = p \div ENTRIES /\ i = p % ENTRIES
    OBVIOUS
  <2>1. q \in UserIdx /\ i \in Idx
    BY UserPageFacts
  <2>2. n.entry[d][q] # NONE /\ n.entry[n.entry[d][q]][i] # NONE
    BY <1>15 DEF FrameOf
  <2>3. n.entry[d][q] \in Frames
    BY <2>1, <2>2, <1>9, TablesApart
  <2>4. n.entry[d][q] = t => i # j
    BY <2>2, <1>5
  <2>5. x.entry[n.entry[d][q]][i] = n.entry[n.entry[d][q]][i]
    BY <2>1, <2>3, <2>4, <1>12 DEF EntryIs
  <2> QED BY <2>5, <1>13 DEF FrameOf
<1>16. StaysMapped(n, x, d)
  BY <1>6, <1>15 DEF StaysMapped
<1>17. FrameOf(m.entry, d, page) = NONE
  BY <1>8, <1>14 DEF StaysMapped
<1> QED BY <1>8, <1>14, <1>16, <1>17, StaysMappedOn

LEMMA MapMissingKeeps ==
  ASSUME NEW m, NEW D, NEW R, NEW end, Fine(m, D, {}, R, end),
         NEW d \in D, NEW page \in UserArea, NEW x, x = MapMissing(m, d, page), ~x.panic
  PROVE  ~m.panic /\ StaysMapped(m, x, d)
<1>1. CASE Frame(m, d, page) # NONE
  BY <1>1 DEF MapMissing, StaysMapped
<1>2. CASE Frame(m, d, page) = NONE
  <2>1. x = MapNew(m, d, page)
    BY <1>2 DEF MapMissing
  <2> QED BY <2>1, MapNewKeeps
<1> QED BY <1>1, <1>2

LEMMA MapSegmentKeeps ==
  ASSUME NEW m, NEW D, NEW R, NEW end, Fine(m, D, {}, R, end), NEW d \in D,
         NEW s, Linked(s), s.load, NEW x, x = MapSegment(m, d, s), ~x.panic
  PROVE  ~m.panic /\ StaysMapped(m, x, d)
<1> PICK n, p : n = (s.memsz + FRAME_SIZE - 1) \div FRAME_SIZE /\ p = s.vaddr \div FRAME_SIZE
  OBVIOUS
<1>1. n \in Nat /\ \A k \in 0 .. (n - 1) : p + k \in UserArea
  BY SegmentPages
<1>2. PICK g : Steps("segment", d, p, 0, m, n, g) /\ x = g[n]
  BY <1>1, MapSegmentSteps
<1>3. g[0] = m /\ \A k \in 0 .. (n - 1) : g[k + 1] = MapMissing(g[k], d, p + k)
  <2>1. g[0] = m /\ \A k \in 0 .. (n - 1) : g[k + 1] = Step("segment", d, p, 0, g[k], k)
    BY <1>1, <1>2, StepsFacts
  <2> QED BY <2>1 DEF Step
<1> DEFINE S == {k \in 0 .. n : /\ Fine(g[k], D, {}, R, end)
                                /\ ~g[k].panic => ~m.panic /\ StaysMapped(m, g[k], d)}
<1>4. 0 \in S
  BY <1>1, <1>3 DEF StaysMapped
<1>5. ASSUME NEW k \in 0 .. (n - 1), k \in S PROVE k + 1 \in S
  <2>1. /\ Fine(g[k], D, {}, R, end) /\ p + k \in UserArea
        /\ ~g[k].panic => ~m.panic /\ StaysMapped(m, g[k], d)
    BY <1>1, <1>5
  <2>2. Fine(MapNew(g[k], d, p + k), D, {}, R, end)
    BY <2>1, MapNewFine
  <2>3. g[k + 1] = MapMissing(g[k], d, p + k) /\ k + 1 \in 0 .. n
    BY <1>1, <1>3
  <2>4. Fine(g[k + 1], D, {}, R, end)
    BY <2>1, <2>2, <2>3 DEF MapMissing
  <2>5. ~g[k + 1].panic => ~g[k].panic /\ StaysMapped(g[k], g[k + 1], d)
    BY <2>1, <2>3, MapMissingKeeps
  <2>6. ~g[k + 1].panic => ~m.panic /\ StaysMapped(m, g[k + 1], d)
    BY <2>1, <2>5, StaysMappedOn
  <2> QED BY <2>3, <2>4, <2>6
<1> HIDE DEF S
<1>6. \A k \in 0 .. n : k \in S
  BY <1>1, <1>4, <1>5, CountUp
<1>7. n \in S
  BY <1>1, <1>6
<1> QED BY <1>2, <1>7 DEF S

\* None of the pages was there before.
LEMMA MapPagesKeeps ==
  ASSUME NEW m, NEW D, NEW R, NEW end, Fine(m, D, {}, R, end), NEW d \in D,
         NEW page, NEW n \in Nat, \A k \in 0 .. (n - 1) : page + k \in UserArea,
         NEW x, x = MapPages(m, d, page, n), ~x.panic
  PROVE  /\ ~m.panic /\ StaysMapped(m, x, d)
         /\ \A k \in 0 .. (n - 1) : FrameOf(m.entry, d, page + k) = NONE
<1>1. PICK g : Steps("map", d, page, 0, m, n, g) /\ x = g[n]
  BY MapPagesSteps
<1>2. g[0] = m /\ \A k \in 0 .. (n - 1) : g[k + 1] = MapNew(g[k], d, page + k)
  <2>1. g[0] = m /\ \A k \in 0 .. (n - 1) : g[k + 1] = Step("map", d, page, 0, g[k], k)
    BY <1>1, StepsFacts
  <2> QED BY <2>1 DEF Step
<1> DEFINE S == {k \in 0 .. n :
             /\ Fine(g[k], D, {}, R, end)
             /\ ~g[k].panic => /\ ~m.panic /\ StaysMapped(m, g[k], d)
                               /\ \A i \in 0 .. (k - 1) : FrameOf(m.entry, d, page + i) = NONE}
<1>3. 0 \in S
  BY <1>2 DEF StaysMapped
<1>4. ASSUME NEW k \in 0 .. (n - 1), k \in S PROVE k + 1 \in S
  <2>1. /\ Fine(g[k], D, {}, R, end) /\ page + k \in UserArea
        /\ ~g[k].panic => /\ ~m.panic /\ StaysMapped(m, g[k], d)
                          /\ \A i \in 0 .. (k - 1) : FrameOf(m.entry, d, page + i) = NONE
    BY <1>4
  <2>2. g[k + 1] = MapNew(g[k], d, page + k) /\ k + 1 \in 0 .. n
    BY <1>2
  <2>3. Fine(g[k + 1], D, {}, R, end)
    BY <2>1, <2>2, MapNewFine
  <2>4. ~g[k + 1].panic => /\ ~g[k].panic /\ StaysMapped(g[k], g[k + 1], d)
                           /\ FrameOf(g[k].entry, d, page + k) = NONE
    BY <2>1, <2>2, MapNewKeeps
  <2>5. ASSUME ~g[k + 1].panic
        PROVE  /\ ~m.panic /\ StaysMapped(m, g[k + 1], d)
               /\ \A i \in 0 .. ((k + 1) - 1) : FrameOf(m.entry, d, page + i) = NONE
    <3>1. FrameOf(m.entry, d, page + k) = NONE
      BY <2>1, <2>4, <2>5 DEF StaysMapped
    <3>2. \A i \in 0 .. ((k + 1) - 1) : i \in 0 .. (k - 1) \/ i = k
      OBVIOUS
    <3>3. ~m.panic /\ StaysMapped(m, g[k + 1], d)
      BY <2>1, <2>4, <2>5, StaysMappedOn
    <3> QED BY <2>1, <2>4, <2>5, <3>1, <3>2, <3>3
  <2> QED BY <2>2, <2>3, <2>5
<1> HIDE DEF S
<1>5. \A k \in 0 .. n : k \in S
  BY <1>3, <1>4, CountUp
<1>6. n \in S
  BY <1>5
<1> QED BY <1>1, <1>6 DEF S

\* The addresses of a process.
UserAddrs == {a \in Nat : a \div FRAME_SIZE \in UserArea}

\* The bytes of the file that directory d has at the addresses A stay.
FileStays(m, x, d, A) ==
  \A b \in A : ByteIs(m, d, b, "file") => ByteIs(x, d, b, "file")

LEMMA FrameIs ==
  ASSUME NEW m, NEW d, NEW page
  PROVE  Frame(m, d, page) = FrameOf(m.entry, d, page)
BY DEF Frame, FrameOf

LEMMA MappedBytes ==
  ASSUME NEW m, NEW x, NEW d, StaysMapped(m, x, d)
  PROVE  FileStays(m, x, d, UserAddrs)
<1> SUFFICES ASSUME NEW b \in UserAddrs, ByteIs(m, d, b, "file")
             PROVE  ByteIs(x, d, b, "file")
  BY DEF FileStays
<1>1. b \div FRAME_SIZE \in UserArea
  BY DEF UserAddrs
<1> PICK p : p = b \div FRAME_SIZE
  OBVIOUS
<1>2. FrameOf(m.entry, d, p) # NONE /\ m.data[FrameOf(m.entry, d, p)][b % FRAME_SIZE] = "file"
  BY FrameIs DEF ByteIs
<1>3. FrameOf(x.entry, d, p) = FrameOf(m.entry, d, p) /\ x.data = m.data
  BY <1>1, <1>2 DEF StaysMapped
<1> QED BY <1>2, <1>3, FrameIs DEF ByteIs

LEMMA FileStaysOn ==
  ASSUME NEW m, NEW x, NEW y, NEW d, NEW A,
         FileStays(m, x, d, A), FileStays(x, y, d, A)
  PROVE  FileStays(m, y, d, A)
BY DEF FileStays

LEMMA FileStaysPart ==
  ASSUME NEW m, NEW x, NEW d, NEW A, FileStays(m, x, d, A), NEW B, B \subseteq A
  PROVE  FileStays(m, x, d, B)
BY DEF FileStays

\* Where an address lies.
PageNo(a) == a \div FRAME_SIZE
Offset(a) == a % FRAME_SIZE

LEMMA PageSize == FRAME_SIZE \in Nat /\ FRAME_SIZE > 0
BY PagingAssumptions DEF PagingAssumption

LEMMA AddressParts ==
  ASSUME NEW a \in Nat
  PROVE  PageNo(a) \in Nat /\ Offset(a) \in 0 .. (FRAME_SIZE - 1)
BY PageSize DEF PageNo, Offset

LEMMA AddressIs ==
  ASSUME NEW a \in Nat, NEW b \in Nat, PageNo(a) = PageNo(b), Offset(a) = Offset(b)
  PROVE  a = b
BY PageSize DEF PageNo, Offset

LEMMA PagesInOrder ==
  ASSUME NEW a \in Nat, NEW b \in Nat, a <= b
  PROVE  PageNo(a) <= PageNo(b)
BY PageSize DEF PageNo

LEMMA PageFrom ==
  ASSUME NEW a \in Nat, NEW p \in Nat, p * FRAME_SIZE <= a
  PROVE  p <= PageNo(a)
<1>1. \A G \in Nat : G > 0 /\ p * G <= a => p <= a \div G
  OBVIOUS
<1> QED BY <1>1, PageSize DEF PageNo

LEMMA PageUpTo ==
  ASSUME NEW a \in Nat, NEW p \in Nat, a < p * FRAME_SIZE
  PROVE  PageNo(a) < p
<1>1. \A G \in Nat : G > 0 /\ a < p * G => a \div G < p
  OBVIOUS
<1> QED BY <1>1, PageSize DEF PageNo

LEMMA UserAddrIs ==
  ASSUME NEW a
  PROVE  a \in UserAddrs <=> a \in Nat /\ PageNo(a) \in UserArea
BY DEF UserAddrs, PageNo

LEMMA ByteAt ==
  ASSUME NEW m, NEW d, NEW a, NEW v
  PROVE  ByteIs(m, d, a, v) <=>
           /\ FrameOf(m.entry, d, PageNo(a)) # NONE
           /\ m.data[FrameOf(m.entry, d, PageNo(a))][Offset(a)] = v
BY FrameIs DEF PageNo, Offset, ByteIs

LEMMA PagesApart ==
  ASSUME NEW p \in UserArea, NEW q \in UserArea,
         p \div ENTRIES = q \div ENTRIES, p % ENTRIES = q % ENTRIES
  PROVE  p = q
<1>1. \A a, b, E \in Nat : E > 0 /\ a \div E = b \div E /\ a % E = b % E => a = b
  OBVIOUS
<1> QED BY <1>1, UserPageFacts, LayoutFacts

\* Different pages of a directory are different frames.
LEMMA FramesApart ==
  ASSUME NEW taken, NEW e, NEW D, NEW H, NEW R, NEW end, NEW own,
         Owned(taken, e, D, H, R, end, own), NEW d \in D,
         NEW p \in UserArea, NEW q \in UserArea, FrameOf(e, d, p) # NONE,
         FrameOf(e, d, p) = FrameOf(e, d, q)
  PROVE  p = q /\ FrameOf(e, d, p) \in Frames
<1> PICK k, j, k2, j2 : /\ k = p \div ENTRIES /\ j = p % ENTRIES
                        /\ k2 = q \div ENTRIES /\ j2 = q % ENTRIES
  OBVIOUS
<1>1. k \in UserIdx /\ k2 \in UserIdx /\ j \in Idx /\ j2 \in Idx
  BY UserPageFacts
<1>2. e[d][k] # NONE /\ e[e[d][k]][j] = FrameOf(e, d, p)
      /\ e[d][k2] # NONE /\ e[e[d][k2]][j2] = FrameOf(e, d, p)
  BY DEF FrameOf
<1>3. FrameOf(e, d, p) \in Frames /\ own[FrameOf(e, d, p)] = PAGE(d, k, j)
      /\ own[FrameOf(e, d, p)] = PAGE(d, k2, j2)
  BY <1>1, <1>2 DEF Owned, UserOwned
<1>4. k = k2 /\ j = j2
  BY <1>3, OwnerFacts
<1> QED BY <1>3, <1>4, PagesApart

\* A byte that is written is there, and no other one of the process changes.
LEMMA StoreByteKeeps ==
  ASSUME NEW m, NEW D, NEW H, NEW R, NEW end, Fine(m, D, H, R, end), NEW d \in D,
         NEW addr \in UserAddrs, NEW value, NEW x, x = StoreByte(m, d, addr, value), ~x.panic
  PROVE  /\ ~m.panic /\ FileStays(m, x, d, UserAddrs \ {addr})
         /\ ByteIs(x, d, addr, value)
<1> PICK p, j, f : p = PageNo(addr) /\ j = Offset(addr) /\ f = FrameOf(m.entry, d, p)
  OBVIOUS
<1>1. x = IF f = NONE THEN [m EXCEPT !.panic = TRUE] ELSE [m EXCEPT !.data[f][j] = value]
  BY FrameIs DEF StoreByte, PageNo, Offset
<1>2. IsMem(m)
  BY DEF Fine
<1>3. f # NONE /\ x = [m EXCEPT !.data[f][j] = value]
  BY <1>1, <1>2 DEF IsMem
<1>4. /\ x.panic = m.panic /\ x.entry = m.entry
      /\ x.data = [m.data EXCEPT ![f][j] = value]
  BY <1>2, <1>3 DEF IsMem
<1>5. PICK own : Owned(m.taken, m.entry, D, H, R, end, own)
  BY <1>4 DEF Fine
<1>6. p \in UserArea /\ addr \in Nat
  BY UserAddrIs
<1>7. f \in Frames /\ \A q \in UserArea : FrameOf(m.entry, d, q) = f => q = p
  BY <1>3, <1>5, <1>6, FramesApart
<1>8. DOMAIN m.data = Frames /\ DOMAIN m.data[f] = 0 .. (FRAME_SIZE - 1)
  BY <1>2, <1>4, <1>7 DEF IsMem
<1>9. j \in 0 .. (FRAME_SIZE - 1)
  BY <1>6, AddressParts
<1>10. /\ x.data[f][j] = value
       /\ \A i : i # j => x.data[f][i] = [m.data[f] EXCEPT ![j] = value][i]
       /\ \A g \in Frames : g # f => x.data[g] = m.data[g]
  BY <1>4, <1>7, <1>8, <1>9
<1>11. ByteIs(x, d, addr, value)
  BY <1>3, <1>4, <1>10, ByteAt
<1>12. ASSUME NEW b \in UserAddrs \ {addr}, ByteIs(m, d, b, "file")
       PROVE  ByteIs(x, d, b, "file")
  <2> PICK q, i, g : q = PageNo(b) /\ i = Offset(b) /\ g = FrameOf(m.entry, d, q)
    OBVIOUS
  <2>1. g # NONE /\ m.data[g][i] = "file"
    BY <1>12, ByteAt
  <2>2. q \in UserArea /\ b \in Nat /\ b # addr /\ i \in 0 .. (FRAME_SIZE - 1)
    BY UserAddrIs, AddressParts
  <2>3. x.data[g][i] = m.data[g][i]
    <3>1. CASE g # f
      <4>1. g \in Frames
        BY <1>5, <2>1, <2>2, FramesApart
      <4> QED BY <4>1, <3>1, <1>10
    <3>2. CASE g = f
      <4>1. q = p
        BY <3>2, <2>2, <1>7
      <4>2. i # j
        BY <4>1, <2>2, <1>6, AddressIs
      <4>3. x.data[f][i] = [m.data[f] EXCEPT ![j] = value][i]
        BY <4>2, <1>10
      <4> QED BY <4>2, <4>3, <3>2, <2>2, <1>8
    <3> QED BY <3>1, <3>2
  <2> QED BY <2>1, <2>3, <1>4, ByteAt
<1> QED BY <1>4, <1>11, <1>12 DEF FileStays

\* n bytes from addr on.
Stretch(addr, n) == {addr + k : k \in 0 .. (n - 1)}

Written(m, x, d, addr, n, value) ==
  /\ ~m.panic /\ FileStays(m, x, d, UserAddrs \ Stretch(addr, n))
  /\ value = "file" => \A k \in 0 .. (n - 1) : ByteIs(x, d, addr + k, "file")

LEMMA StoreBytesKeeps ==
  ASSUME NEW m, NEW D, NEW H, NEW R, NEW end, Fine(m, D, H, R, end), NEW d \in D,
         NEW addr \in Nat, NEW n \in Nat, Stretch(addr, n) \subseteq UserAddrs,
         NEW value, NEW x, x = StoreBytes(m, d, addr, n, value), ~x.panic
  PROVE  Written(m, x, d, addr, n, value)
<1>1. PICK g : Steps("store", d, addr, value, m, n, g) /\ x = g[n]
  BY StoreBytesSteps
<1>2. g[0] = m /\ \A k \in 0 .. (n - 1) : g[k + 1] = StoreByte(g[k], d, addr + k, value)
  <2>1. g[0] = m /\ \A k \in 0 .. (n - 1) : g[k + 1] = Step("store", d, addr, value, g[k], k)
    BY <1>1, StepsFacts
  <2> QED BY <2>1 DEF Step
<1> DEFINE A == UserAddrs \ Stretch(addr, n)
           S == {k \in 0 .. n :
             /\ Fine(g[k], D, H, R, end)
             /\ ~g[k].panic =>
                  /\ ~m.panic /\ FileStays(m, g[k], d, A)
                  /\ value = "file" => \A i \in 0 .. (k - 1) : ByteIs(g[k], d, addr + i, "file")}
<1>3. 0 \in S
  BY <1>2 DEF FileStays
<1>4. ASSUME NEW k \in 0 .. (n - 1), k \in S PROVE k + 1 \in S
  <2>0. /\ Fine(g[k], D, H, R, end)
        /\ ~g[k].panic =>
             /\ ~m.panic /\ FileStays(m, g[k], d, A)
             /\ value = "file" => \A i \in 0 .. (k - 1) : ByteIs(g[k], d, addr + i, "file")
    BY <1>4
  <2>1. addr + k \in UserAddrs /\ addr + k \in Stretch(addr, n)
    BY DEF Stretch
  <2>2. g[k + 1] = StoreByte(g[k], d, addr + k, value) /\ k + 1 \in 0 .. n
    BY <1>2
  <2>3. Fine(g[k + 1], D, H, R, end)
    BY <2>0, <2>2, StoreByteFine
  <2>4. ~g[k + 1].panic => /\ ~g[k].panic
                           /\ FileStays(g[k], g[k + 1], d, UserAddrs \ {addr + k})
                           /\ ByteIs(g[k + 1], d, addr + k, value)
    BY <2>0, <2>1, <2>2, StoreByteKeeps
  <2>5. ASSUME ~g[k + 1].panic
        PROVE  /\ ~m.panic /\ FileStays(m, g[k + 1], d, A)
               /\ value = "file" =>
                    \A i \in 0 .. ((k + 1) - 1) : ByteIs(g[k + 1], d, addr + i, "file")
    <3>1. A \subseteq UserAddrs \ {addr + k}
      BY <2>1
    <3>2. ~m.panic /\ FileStays(m, g[k], d, A)
      BY <2>0, <2>4, <2>5
    <3>3. FileStays(g[k], g[k + 1], d, A)
      BY <3>1, <2>4, <2>5, FileStaysPart
    <3> HIDE DEF A
    <3>4. FileStays(m, g[k + 1], d, A)
      BY <3>2, <3>3, FileStaysOn
    <3>5. ASSUME value = "file", NEW i \in 0 .. ((k + 1) - 1)
          PROVE  ByteIs(g[k + 1], d, addr + i, "file")
      <4>1. CASE i = k
        BY <4>1, <3>5, <2>4, <2>5
      <4>2. CASE i # k
        <5>1. i \in 0 .. (k - 1) /\ i \in 0 .. (n - 1)
          BY <4>2
        <5>2. ByteIs(g[k], d, addr + i, "file")
          BY <5>1, <3>5, <2>0, <2>4, <2>5
        <5>3. addr + i \in UserAddrs \ {addr + k}
          BY <5>1, <4>2 DEF Stretch
        <5> QED BY <5>2, <5>3, <2>4, <2>5 DEF FileStays
      <4> QED BY <4>1, <4>2
    <3> QED BY <3>2, <3>4, <3>5
  <2> QED BY <2>2, <2>3, <2>5
<1> HIDE DEF S
<1>5. \A k \in 0 .. n : k \in S
  BY <1>3, <1>4, CountUp
<1>6. n \in S
  BY <1>5
<1> QED BY <1>1, <1>6 DEF S, Written

\* The segment, and as much again behind it, lies below the kernel.
BelowKernel(s) ==
  (s.vaddr + 2 * s.memsz - 1) \div FRAME_SIZE < KERNEL_PAGE_DIR_INDEX * ENTRIES

LEMMA SegmentAddrs ==
  ASSUME NEW s, Linked(s), s.load, BelowKernel(s), NEW k \in Nat, k < 2 * s.memsz
  PROVE  s.vaddr + k \in UserAddrs
<1> PICK a, b, l, u : /\ a = s.vaddr + k /\ b = s.vaddr + 2 * s.memsz - 1
                      /\ l = s.vaddr /\ u = KERNEL_PAGE_DIR_INDEX * ENTRIES
  OBVIOUS
<1>1. s.vaddr \in Nat /\ s.memsz \in Nat
  BY DEF Linked
<1>2. a \in Nat /\ b \in Nat /\ l \in Nat /\ l <= a /\ a <= b
  BY <1>1
<1>3. PageNo(l) <= PageNo(a) /\ PageNo(a) <= PageNo(b)
  BY <1>2, PagesInOrder
<1>4. PageNo(l) \in Nat /\ PageNo(a) \in Nat /\ PageNo(b) \in Nat
  BY <1>2, AddressParts
<1>5. RESERVED_LO <= PageNo(l)
  BY DEF Linked, PageNo
<1>6. PageNo(b) < u
  BY DEF BelowKernel, PageNo
<1>7. u \in Nat /\ RESERVED_LO = ENTRIES /\ ENTRIES \in Nat
  BY AreaFacts, LayoutFacts
<1>8. UserArea = ENTRIES .. (u - 1)
  BY DEF UserArea
<1>9. PageNo(a) \in ENTRIES .. (u - 1)
  BY <1>3, <1>4, <1>5, <1>6, <1>7
<1>10. a \in UserAddrs
  BY <1>2, <1>8, <1>9, UserAddrIs
<1> QED BY <1>10

\* Of segment s the bytes of the file are there.
SegmentIn(m, d, s) ==
  s.load => \A k \in 0 .. (s.filesz - 1) : ByteIs(m, d, s.vaddr + k, "file")

\* What a segment behind an address leaves as it was.
InFront(s) == {b \in UserAddrs : s.load => b < s.vaddr}

LEMMA LoadSegmentKeeps ==
  ASSUME NEW m, NEW D, NEW R, NEW end, Fine(m, D, {}, R, end), NEW d \in D,
         NEW s, Linked(s), s.load => BelowKernel(s), NEW x, x = LoadSegment(m, d, s), ~x.panic
  PROVE  ~m.panic /\ FileStays(m, x, d, InFront(s)) /\ SegmentIn(x, d, s)
<1>0. s.memsz \in Nat /\ s.filesz \in Nat /\ s.filesz <= s.memsz /\ s.vaddr \in Nat
  BY DEF Linked
<1>1. CASE ~s.load
  <2>1. x = m
    BY <1>1 DEF LoadSegment
  <2> QED BY <2>1, <1>1 DEF FileStays, SegmentIn
<1>2. CASE s.load /\ BadAddress(s)
  <2>1. x = [m EXCEPT !.panic = TRUE]
    BY <1>2 DEF LoadSegment
  <2>2. IsMem(m)
    BY DEF Fine
  <2> QED BY <2>1, <2>2 DEF IsMem
<1>3. CASE s.load /\ ~BadAddress(s) /\ s.memsz = 0
  <2>1. x = m
    BY <1>3 DEF LoadSegment
  <2>2. s.filesz = 0
    BY <1>0, <1>3
  <2> QED BY <2>1, <2>2 DEF FileStays, SegmentIn
<1>4. CASE s.load /\ ~BadAddress(s) /\ s.memsz # 0
  <2> PICK n, a, z : /\ n = MapSegment(m, d, s) /\ z = s.memsz - s.filesz
                     /\ a = s.vaddr + (s.memsz - s.filesz)
    OBVIOUS
  <2> PICK c : c = StoreBytes(n, d, a, z, "zero")
    OBVIOUS
  <2>1. x = StoreBytes(c, d, s.vaddr, s.filesz, "file")
    BY <1>4 DEF LoadSegment
  <2>2. z \in Nat /\ a \in Nat /\ s.vaddr <= a
    BY <1>0
  <2>3. Fine(n, D, {}, R, end)
    BY <1>4, MapSegmentFine
  <2>4. Fine(c, D, {}, R, end)
    BY <2>2, <2>3, StoreBytesFine
  <2>5. Stretch(a, z) \subseteq UserAddrs /\ Stretch(s.vaddr, s.filesz) \subseteq UserAddrs
    <3>1. ASSUME NEW k \in 0 .. (z - 1) PROVE a + k \in UserAddrs
      <4>1. z + k \in Nat /\ z + k < 2 * s.memsz /\ a + k = s.vaddr + (z + k)
        BY <1>0, <2>2
      <4> QED BY <4>1, <1>4, SegmentAddrs
    <3>2. ASSUME NEW k \in 0 .. (s.filesz - 1) PROVE s.vaddr + k \in UserAddrs
      <4>1. k \in Nat /\ k < 2 * s.memsz
        BY <1>0
      <4> QED BY <4>1, <1>4, SegmentAddrs
    <3> QED BY <3>1, <3>2 DEF Stretch
  <2>6. /\ ~c.panic /\ FileStays(c, x, d, UserAddrs \ Stretch(s.vaddr, s.filesz))
        /\ \A k \in 0 .. (s.filesz - 1) : ByteIs(x, d, s.vaddr + k, "file")
    <3>1. Written(c, x, d, s.vaddr, s.filesz, "file")
      BY <1>0, <2>1, <2>4, <2>5, StoreBytesKeeps
    <3> QED BY <3>1 DEF Written
  <2>7. ~n.panic /\ FileStays(n, c, d, UserAddrs \ Stretch(a, z))
    <3>1. Written(n, c, d, a, z, "zero")
      BY <2>2, <2>3, <2>5, <2>6, StoreBytesKeeps
    <3> QED BY <3>1 DEF Written
  <2>8. ~m.panic /\ FileStays(m, n, d, UserAddrs)
    BY <1>4, <2>7, MapSegmentKeeps, MappedBytes
  <2>9. /\ InFront(s) \subseteq UserAddrs
        /\ InFront(s) \subseteq UserAddrs \ Stretch(a, z)
        /\ InFront(s) \subseteq UserAddrs \ Stretch(s.vaddr, s.filesz)
    <3>1. ASSUME NEW b \in InFront(s)
          PROVE  b \in UserAddrs /\ b \notin Stretch(a, z) /\ b \notin Stretch(s.vaddr, s.filesz)
      <4>1. b \in UserAddrs /\ b < s.vaddr
        BY <1>4 DEF InFront
      <4>2. b \in Nat
        BY <4>1, UserAddrIs
      <4>3. \A k \in 0 .. (z - 1) : b # a + k
        BY <2>2, <4>1, <4>2, <1>0
      <4>4. \A k \in 0 .. (s.filesz - 1) : b # s.vaddr + k
        BY <4>1, <4>2, <1>0
      <4> QED BY <4>1, <4>3, <4>4 DEF Stretch
    <3> QED BY <3>1
  <2>10. FileStays(m, x, d, InFront(s))
    <3>1. FileStays(m, n, d, InFront(s)) /\ FileStays(n, c, d, InFront(s))
          /\ FileStays(c, x, d, InFront(s))
      BY <2>6, <2>7, <2>8, <2>9, FileStaysPart
    <3> QED BY <3>1, FileStaysOn
  <2> QED BY <2>6, <2>8, <2>10 DEF SegmentIn
<1> QED BY <1>1, <1>2, <1>3, <1>4

\* The stack is in no page of a segment.
LEMMA MapStackKeeps ==
  ASSUME NEW m, NEW D, NEW R, NEW end, Fine(m, D, {}, R, end), NEW d \in D,
         NEW x, x = MapStack(m, d), ~x.panic
  PROVE  ~m.panic /\ FileStays(m, x, d, UserAddrs)
<1> PICK n, p, w, l : /\ p = USER_STACK_LOCATION /\ w = USER_STACK_PAGES
                      /\ n = MapPages(m, d, p, w) /\ l = p * FRAME_SIZE
  OBVIOUS
<1> PICK z : z = w * FRAME_SIZE
  OBVIOUS
<1>1. p \in Nat /\ w \in Nat /\ FRAME_SIZE \in Nat /\ FRAME_SIZE > 0
  BY PageSize, MemoryAssumptions DEF MemoryAssumption
<1>2. RESERVED_LO <= p /\ p + w <= KERNEL_PAGE_DIR_INDEX * ENTRIES
  BY MemoryAssumptions DEF MemoryAssumption
<1>3. \A b, c, F \in Nat : F \in Nat => b * F \in Nat /\ (b + c) * F = b * F + c * F
  OBVIOUS
<1>4. l \in Nat /\ z \in Nat /\ (p + w) * FRAME_SIZE = l + z
  BY <1>1, <1>3
<1>5. \A q \in Nat : p <= q /\ q < p + w => q \in UserArea
  <2>1. KERNEL_PAGE_DIR_INDEX * ENTRIES \in Nat /\ RESERVED_LO = ENTRIES /\ ENTRIES \in Nat
    BY AreaFacts, LayoutFacts
  <2> QED BY <2>1, <1>1, <1>2 DEF UserArea
<1>6. \A k \in 0 .. (w - 1) : p + k \in UserArea
  BY <1>1, <1>5
<1>7. ASSUME NEW k \in 0 .. (z - 1)
      PROVE  /\ l + k \in UserAddrs
             /\ PageNo(l + k) \in Nat /\ p <= PageNo(l + k) /\ PageNo(l + k) < p + w
  <2> PICK b : b = l + k
    OBVIOUS
  <2>1. b \in Nat /\ p * FRAME_SIZE <= b /\ b < (p + w) * FRAME_SIZE /\ p + w \in Nat
    BY <1>1, <1>4
  <2>2. PageNo(b) \in Nat /\ p <= PageNo(b) /\ PageNo(b) < p + w
    BY <1>1, <2>1, AddressParts, PageFrom, PageUpTo
  <2> QED BY <2>1, <2>2, <1>5, UserAddrIs
<1>8. x = StoreBytes(n, d, l, z, "zero")
  BY DEF MapStack
<1>9. Fine(n, D, {}, R, end)
  BY <1>1, <1>6, MapPagesFine
<1>10. Stretch(l, z) \subseteq UserAddrs
  BY <1>7 DEF Stretch
<1>11. ~n.panic /\ FileStays(n, x, d, UserAddrs \ Stretch(l, z))
  <2>1. Written(n, x, d, l, z, "zero")
    BY <1>4, <1>8, <1>9, <1>10, StoreBytesKeeps
  <2> QED BY <2>1 DEF Written
<1>12. /\ ~m.panic /\ StaysMapped(m, n, d)
       /\ \A k \in 0 .. (w - 1) : FrameOf(m.entry, d, p + k) = NONE
  BY <1>1, <1>6, <1>11, MapPagesKeeps
<1>13. FileStays(m, n, d, UserAddrs)
  BY <1>12, MappedBytes
<1>14. ASSUME NEW b \in UserAddrs, ByteIs(m, d, b, "file") PROVE ByteIs(x, d, b, "file")
  <2>1. ASSUME b \in Stretch(l, z) PROVE FALSE
    <3>1. PICK k \in 0 .. (z - 1) : b = l + k
      BY <2>1 DEF Stretch
    <3>2. PageNo(b) \in Nat /\ p <= PageNo(b) /\ PageNo(b) < p + w
      BY <3>1, <1>7
    <3>3. PageNo(b) - p \in 0 .. (w - 1) /\ p + (PageNo(b) - p) = PageNo(b)
      BY <3>2, <1>1
    <3>4. FrameOf(m.entry, d, PageNo(b)) = NONE
      BY <3>3, <1>12
    <3> QED BY <3>4, <1>14, ByteAt
  <2>2. ByteIs(n, d, b, "file")
    BY <1>13, <1>14 DEF FileStays
  <2> QED BY <2>1, <2>2, <1>11, <1>14 DEF FileStays
<1> QED BY <1>12, <1>14 DEF FileStays

\* _elf_load_from_file: each segment leaves those in front of it.
LEMMA LoadKeeps ==
  ASSUME NEW m, NEW D, NEW R, NEW end, Fine(m, D, {}, R, end), NEW d \in D,
         NEW prog \in Programs, NEW x, x = Load(m, d, prog), ~x.panic
  PROVE  FileLoaded(x, d, prog)
<1>1. ~Refused(prog)
  <2>1. SUFFICES ASSUME Refused(prog) PROVE FALSE
    OBVIOUS
  <2>2. x = [m EXCEPT !.panic = TRUE]
    BY <2>1 DEF Load
  <2>3. IsMem(m)
    BY DEF Fine
  <2> QED BY <2>2, <2>3 DEF IsMem
<1> PICK n, r, s : n = Len(prog.segments) /\ r = ResetDirectory(m, d) /\ s = prog.segments
  OBVIOUS
<1>2. n \in Nat /\ DOMAIN s = 1 .. n /\ \A k \in 1 .. n : Linked(s[k])
  BY MemoryAssumptions DEF MemoryAssumption
<1>3. \A k \in 1 .. n : s[k].load =>
        /\ BelowKernel(s[k])
        /\ \A o \in 1 .. (k - 1) : s[o].load => s[o].vaddr + s[o].memsz <= s[k].vaddr
  <2>1. Ordered(prog)
    BY ProgramAssumptions
  <2> QED BY <2>1, <1>2 DEF Ordered, BelowKernel
<1>4. PICK g : Steps("segments", d, s, 0, r, n, g) /\ x = MapStack(g[n], d)
  BY <1>1, <1>2, LoadSteps
<1>5. g[0] = r /\ \A k \in 0 .. (n - 1) : g[k + 1] = LoadSegment(g[k], d, s[k + 1])
  <2>1. g[0] = r /\ \A k \in 0 .. (n - 1) : g[k + 1] = Step("segments", d, s, 0, g[k], k)
    <3>1. n \in Nat /\ Steps("segments", d, s, 0, r, n, g)
      BY <1>2, <1>4
    <3> QED BY ONLY <3>1, StepsFacts
  <2> QED BY <2>1 DEF Step
<1>6. Fine(r, D, {}, R, end)
  BY ResetFine
<1> DEFINE S == {k \in 0 .. n : /\ Fine(g[k], D, {}, R, end)
                                /\ ~g[k].panic => \A o \in 1 .. k : SegmentIn(g[k], d, s[o])}
<1>7. 0 \in S
  BY <1>2, <1>5, <1>6
<1>8. ASSUME NEW k \in 0 .. (n - 1), k \in S PROVE k + 1 \in S
  <2> PICK j : j = k + 1
    OBVIOUS
  <2>1. /\ Fine(g[k], D, {}, R, end)
        /\ ~g[k].panic => \A o \in 1 .. k : SegmentIn(g[k], d, s[o])
    BY <1>8
  <2>2. g[j] = LoadSegment(g[k], d, s[j]) /\ j \in 0 .. n /\ j \in 1 .. n /\ Linked(s[j])
        /\ (s[j].load => BelowKernel(s[j]))
    BY <1>2, <1>3, <1>5
  <2>3. Fine(g[j], D, {}, R, end)
    BY <2>1, <2>2, LoadSegmentFine
  <2>4. ASSUME ~g[j].panic, NEW o \in 1 .. j PROVE SegmentIn(g[j], d, s[o])
    <3>1. ~g[k].panic /\ FileStays(g[k], g[j], d, InFront(s[j])) /\ SegmentIn(g[j], d, s[j])
      BY <2>1, <2>2, <2>4, LoadSegmentKeeps
    <3>2. CASE o = j
      BY <3>1, <3>2
    <3>3. CASE o # j
      <4>1. o \in 1 .. k /\ o \in 1 .. n /\ o \in 1 .. (j - 1)
        BY <3>3, <1>2
      <4>2. SegmentIn(g[k], d, s[o])
        BY <4>1, <3>1, <2>1
      <4>3. SUFFICES ASSUME s[o].load, NEW i \in 0 .. (s[o].filesz - 1)
                     PROVE  ByteIs(g[j], d, s[o].vaddr + i, "file")
        BY DEF SegmentIn
      <4>4. Linked(s[o]) /\ BelowKernel(s[o])
        BY <4>1, <4>3, <1>2, <1>3
      <4>5. /\ s[o].vaddr \in Nat /\ s[o].memsz \in Nat /\ s[o].filesz \in Nat
            /\ s[o].filesz <= s[o].memsz
        BY <4>4 DEF Linked
      <4>6. i \in Nat /\ i < 2 * s[o].memsz
        BY <4>5
      <4>7. s[o].vaddr + i \in UserAddrs
        BY <4>3, <4>4, <4>6, SegmentAddrs
      <4>8. s[j].load => s[o].vaddr + i < s[j].vaddr
        <5>1. SUFFICES ASSUME s[j].load PROVE s[o].vaddr + i < s[j].vaddr
          OBVIOUS
        <5>2. s[o].vaddr + s[o].memsz <= s[j].vaddr /\ s[j].vaddr \in Nat
          BY <5>1, <4>1, <4>3, <2>2, <1>3 DEF Linked
        <5> QED BY <5>2, <4>5
      <4>9. s[o].vaddr + i \in InFront(s[j])
        BY <4>7, <4>8 DEF InFront
      <4>10. ByteIs(g[k], d, s[o].vaddr + i, "file")
        BY <4>2, <4>3 DEF SegmentIn
      <4> QED BY <4>9, <4>10, <3>1 DEF FileStays
    <3> QED BY <3>2, <3>3
  <2> QED BY <2>2, <2>3, <2>4
<1> HIDE DEF S
<1>9. \A k \in 0 .. n : k \in S
  BY <1>2, <1>7, <1>8, CountUp
<1>10. n \in S
  BY <1>2, <1>9
<1>11. /\ Fine(g[n], D, {}, R, end)
       /\ ~g[n].panic => \A o \in 1 .. n : SegmentIn(g[n], d, s[o])
  BY <1>10 DEF S
<1>12. ~g[n].panic /\ FileStays(g[n], x, d, UserAddrs)
  BY <1>4, <1>11, MapStackKeeps
<1>13. ASSUME NEW o \in 1 .. n, s[o].load, NEW i \in 0 .. (s[o].filesz - 1)
       PROVE  ByteIs(x, d, s[o].vaddr + i, "file")
  <2>1. ByteIs(g[n], d, s[o].vaddr + i, "file")
    BY <1>11, <1>12, <1>13 DEF SegmentIn
  <2>2. Linked(s[o]) /\ BelowKernel(s[o])
    BY <1>2, <1>3, <1>13
  <2>3. i \in Nat /\ i < 2 * s[o].memsz
    BY <2>2 DEF Linked
  <2>4. s[o].vaddr + i \in UserAddrs
    BY <1>13, <2>2, <2>3, SegmentAddrs
  <2> QED BY <2>1, <2>4, <1>12 DEF FileStays
<1> QED BY <1>2, <1>13 DEF FileLoaded

LEMMA ExecMakesLoad ==
  ASSUME SpaceInv, NEW prog \in Programs, Exec(prog), memPhase' # "panic"
  PROVE  FileLoaded(mem', loaded, prog)
<1> PICK x : x = Load(mem, loaded, prog)
  OBVIOUS
<1>1. memPhase = "user" /\ Becomes(x)
  BY DEF Exec
<1>2. ~x.panic /\ mem' = [x EXCEPT !.got = NONE]
  BY <1>1 DEF Becomes
<1>3. /\ Fine(mem, Dirs, {}, Ramdisk(RAMDISK_PAGES), heapEnd) /\ loaded \in Dirs
  BY <1>1 DEF SpaceInv, Dirs, Live
<1>4. Fine(x, Dirs, {}, Ramdisk(RAMDISK_PAGES), heapEnd)
  BY <1>3, LoadFine
<1>5. mem'.entry = x.entry /\ mem'.data = x.data
  BY <1>2, <1>4 DEF Fine, IsMem
<1>6. FileLoaded(x, loaded, prog)
  BY <1>2, <1>3, LoadKeeps
<1>7. \A addr : ByteIs(x, loaded, addr, "file") => ByteIs(mem', loaded, addr, "file")
  BY <1>5, ByteAt
<1> QED BY <1>6, <1>7 DEF FileLoaded

\* Whatever calls have gone before, a program that exec loads is in memory as far
\* as the file has it: the page that two segments share keeps what the first one
\* put there, the clearing of what the file does not have spares it, and so does
\* the stack (elf.c:94-186).
THEOREM ExecsAlwaysLoad == MemSpec => ExecLoads
<1>1. ASSUME SpaceInv, NEW prog \in Programs, Executes(prog)
      PROVE  FileLoaded(mem', loaded, prog)
  BY <1>1, ExecMakesLoad DEF Executes
<1>2. SpaceInv => (\A prog \in Programs : Executes(prog) => FileLoaded(mem', loaded, prog))
  BY <1>1
<1>3. MemSpec => []SpaceInv
  BY SpaceAlways
<1> QED BY <1>2, <1>3, PTL DEF ExecLoads

-----------------------------------------------------------------------------
(* The file system: the bitmap of blocks, its two counts and the inodes.   *)

\* Block k is one of a file if the file goes on where it begins.
LEMMA BlockInFile ==
  ASSUME NEW length \in Nat, NEW k \in Nat
  PROVE  k \in 0 .. (BlockCount(length) - 1) <=> k * BLOCK_SIZE < length
<1> DEFINE B == BLOCK_SIZE
           q == (length + B - 1) \div B
           r == (length + B - 1) % B
<1>1. B \in Nat \ {0}
  BY ImageAssumptions DEF ImageAssumption
<1> HIDE DEF B
<1>2. length + B - 1 \in Nat
  BY <1>1
<1>3. q \in Nat /\ r \in 0 .. (B - 1) /\ length + B - 1 = q * B + r
  BY <1>1, <1>2, DivisionFacts
<1> HIDE DEF q, r
<1>4. k * B \in Nat /\ q * B \in Nat /\ (k + 1) * B = k * B + B
  BY <1>1, <1>3, TimesOrdered
<1>5. k <= q - 1 => (k + 1) * B <= q * B
  <2>1. B \in Nat /\ k + 1 \in Nat
    BY <1>1
  <2>2. k <= q - 1 => k + 1 <= q
    BY <1>3
  <2> QED BY <2>1, <2>2, <1>3, TimesOrdered
<1>6. q <= k => q * B <= k * B
  BY <1>1, <1>3, TimesOrdered
<1>7. k \in 0 .. (q - 1) <=> k * B < length
  BY <1>1, <1>3, <1>4, <1>5, <1>6
<1> QED BY <1>7 DEF q, B, BlockCount

LEMMA BlocksAre ==
  ASSUME NEW d, NEW n, GetInode(d, n).size \in Nat, NEW b
  PROVE  b \in BlocksIn(d, n) <=>
           \E k \in Nat : /\ k * BLOCK_SIZE < GetInode(d, n).size
                          /\ b = BlockOf(GetInode(d, n), k)
<1> DEFINE length == GetInode(d, n).size
           N == 0 .. (BlockCount(length) - 1)
<1>1. \A k \in N : k \in Nat
  OBVIOUS
<1>2. \A k \in Nat : k \in N <=> k * BLOCK_SIZE < length
  BY BlockInFile
<1>3. b \in BlocksIn(d, n) <=> \E k \in N : b = BlockOf(GetInode(d, n), k)
  BY DEF BlocksIn
<1> HIDE DEF length, N
<1>4. b \in BlocksIn(d, n) <=>
        \E k \in Nat : k * BLOCK_SIZE < length /\ b = BlockOf(GetInode(d, n), k)
  BY <1>1, <1>2, <1>3
<1> QED BY <1>4 DEF length

\* Two files have two entries in the table of inodes.
LEMMA InodesApart ==
  ASSUME NEW n \in TheFiles, NEW o \in TheFiles, n # o
  PROVE  InodeAt(n) # InodeAt(o)
<1>1. /\ SKEW \in Nat /\ inodes_per_group \in Nat \ {0} /\ n \in Nat /\ o \in Nat
  BY ImageAssumptions, FilesAssumption DEF ImageAssumption
<1>2. ASSUME NEW a \in Nat, NEW b \in Nat, a < b PROVE InodeAt(a) < InodeAt(b)
  <2> DEFINE g == a \div inodes_per_group
             h == b \div inodes_per_group
  <2>1. g \in Nat /\ h \in Nat
    BY <1>1, DivisionFacts
  <2>2. g <= h
    <3>1. \A x, y, E \in Nat : E > 0 /\ x <= y => x \div E <= y \div E
      OBVIOUS
    <3> QED BY <3>1, <1>1, <1>2
  <2> HIDE DEF g, h
  <2>3. g * SKEW \in Nat /\ h * SKEW \in Nat /\ g * SKEW <= h * SKEW
    BY <2>1, <2>2, <1>1, TimesOrdered
  <2>4. InodeAt(a) = a - 1 + g * SKEW /\ InodeAt(b) = b - 1 + h * SKEW
    BY DEF InodeAt, g, h
  <2> QED BY <2>3, <2>4, <1>2
<1>3. n < o \/ o < n
  BY <1>1
<1>4. \A a \in Nat : InodeAt(a) \in Int
  <2> TAKE a \in Nat
  <2>1. a \div inodes_per_group \in Nat
    BY <1>1, DivisionFacts
  <2>2. (a \div inodes_per_group) * SKEW \in Nat
    BY <2>1, <1>1, TimesOrdered
  <2> QED BY <2>2 DEF InodeAt
<1> QED BY <1>1, <1>2, <1>3, <1>4

-----------------------------------------------------------------------------
(* The ramdisk.                                                            *)

Numbers == 0 .. (blocks_count - 1)

\* A ramdisk whose bitmap keeps files apart, with both numbers for a block.
DiskSound(d) ==
  /\ d = [inode |-> d.inode, bits |-> d.bits, disk |-> d.disk,
          sbFree |-> d.sbFree, groupFree |-> d.groupFree]
  /\ d.inode \in [DOMAIN Image.inode -> Inodes]
  /\ 0 \in d.bits /\ d.bits \subseteq Numbers
  /\ \A n, o \in TheFiles : n # o => BlocksIn(d, n) \cap BlocksIn(d, o) = {}
  /\ \A n \in TheFiles : \A b \in BlocksIn(d, n) : {b - 1, b} \subseteq d.bits
  /\ d.sbFree = Cardinality(Clear(d)) /\ d.groupFree = Cardinality(Clear(d))

LEMMA ClearFinite ==
  ASSUME NEW d
  PROVE  /\ Clear(d) \subseteq Numbers /\ IsFiniteSet(Clear(d))
         /\ Cardinality(Clear(d)) \in Nat
<1>1. blocks_count - 1 \in Int
  BY ImageAssumptions DEF ImageAssumption
<1>2. IsFiniteSet(Numbers)
  BY <1>1, FS_Interval DEF Numbers
<1>3. Clear(d) \subseteq Numbers
  BY DEF Clear, Numbers
<1> HIDE DEF Numbers
<1>4. IsFiniteSet(Clear(d))
  BY <1>2, <1>3, FS_Subset
<1> QED BY <1>3, <1>4, FS_CardinalityType

\* An inode that changes, with the bitmap, gets only new blocks.
LEMMA OneFileGrows ==
  ASSUME NEW d, DiskSound(d), NEW n \in TheFiles, NEW x \in Inodes, NEW e, NEW more,
         e = [inode |-> e.inode, bits |-> e.bits, disk |-> e.disk,
              sbFree |-> e.sbFree, groupFree |-> e.groupFree],
         e.inode = [d.inode EXCEPT ![InodeAt(n)] = x],
         d.bits \subseteq e.bits, e.bits \subseteq Numbers,
         e.sbFree = Cardinality(Clear(e)), e.groupFree = Cardinality(Clear(e)),
         BlocksIn(e, n) \subseteq BlocksIn(d, n) \cup more,
         \A b \in more : b \notin d.bits /\ {b - 1, b} \subseteq e.bits
  PROVE  DiskSound(e)
<1>1. e.inode \in [DOMAIN Image.inode -> Inodes] /\ 0 \in e.bits
  BY DEF DiskSound
<1>2. ASSUME NEW o \in TheFiles, o # n PROVE BlocksIn(e, o) = BlocksIn(d, o)
  <2>1. InodeAt(o) # InodeAt(n) /\ InodeAt(o) \in DOMAIN Image.inode
    BY <1>2, InodesApart, FilesAssumption
  <2>2. GetInode(e, o) = GetInode(d, o)
    BY <2>1 DEF GetInode, DiskSound
  <2> QED BY <2>2 DEF BlocksIn
<1>3. ASSUME NEW o \in TheFiles, NEW b \in BlocksIn(e, o)
      PROVE  {b - 1, b} \subseteq e.bits
  BY <1>2, <1>3 DEF DiskSound
<1>4. ASSUME NEW o \in TheFiles, o # n PROVE BlocksIn(e, o) \cap BlocksIn(e, n) = {}
  <2>1. \A b \in BlocksIn(d, o) : b \in d.bits /\ b \notin BlocksIn(d, n)
    BY <1>4 DEF DiskSound
  <2> QED BY <2>1, <1>2, <1>4
<1>5. \A o, p \in TheFiles : o # p => BlocksIn(e, o) \cap BlocksIn(e, p) = {}
  <2> SUFFICES ASSUME NEW o \in TheFiles, NEW p \in TheFiles, o # p
               PROVE  BlocksIn(e, o) \cap BlocksIn(e, p) = {}
    OBVIOUS
  <2>1. CASE o # n /\ p # n
    BY <2>1, <1>2 DEF DiskSound
  <2>2. CASE o = n \/ p = n
    BY <2>2, <1>4
  <2> QED BY <2>1, <2>2
<1> QED BY <1>1, <1>3, <1>5 DEF DiskSound

\* Bytes of the disk say nothing of this.
LEMMA OtherBytes ==
  ASSUME NEW d, DiskSound(d), NEW bytes
  PROVE  DiskSound([d EXCEPT !.disk = bytes])
<1> DEFINE e == [d EXCEPT !.disk = bytes]
<1>1. /\ e.inode = d.inode /\ e.bits = d.bits
      /\ e.sbFree = d.sbFree /\ e.groupFree = d.groupFree
      /\ e = [inode |-> e.inode, bits |-> e.bits, disk |-> e.disk,
              sbFree |-> e.sbFree, groupFree |-> e.groupFree]
  BY DEF DiskSound
<1> HIDE DEF e
<1>2. \A n : BlocksIn(e, n) = BlocksIn(d, n)
  BY <1>1 DEF BlocksIn, GetInode
<1>3. Clear(e) = Clear(d)
  BY <1>1 DEF Clear
<1>4. DiskSound(e)
  BY <1>1, <1>2, <1>3 DEF DiskSound
<1> QED BY <1>4 DEF e

-----------------------------------------------------------------------------
(* Growing a file.                                                         *)

LEMMA ModuloFacts ==
  ASSUME NEW W \in Nat \ {0}
  PROVE  /\ \A x \in 0 .. (W - 1) : x % W = x
         /\ \A x \in W .. (2 * W - 1) : x % W = x - W
         /\ \A x \in (-W) .. (-1) : x % W = x + W
OBVIOUS

\* A sum modulo W that is above one of its parts has not wrapped.
LEMMA SumNotWrapped ==
  ASSUME NEW W \in Nat \ {0}, NEW a \in 0 .. (W - 1), NEW b \in 0 .. (W - 1),
         NEW c \in Nat, a <= c, c < (b + a) % W
  PROVE  (b + a) % W = b + a /\ (b + a) % W \in 0 .. (W - 1)
<1>1. PICK t : t = b + a
  OBVIOUS
<1>2. t \in 0 .. (W - 1) \/ t \in W .. (2 * W - 1)
  BY <1>1
<1>3. t \in 0 .. (W - 1) => t % W = t
  BY ModuloFacts
<1>4. t \in W .. (2 * W - 1) => t % W = t - W
  BY ModuloFacts
<1>5. t - W < a
  BY <1>1
<1>6. ~(t \in W .. (2 * W - 1))
  <2> SUFFICES ASSUME t \in W .. (2 * W - 1) PROVE FALSE
    OBVIOUS
  <2>1. c < t - W
    BY <1>1, <1>4
  <2> QED BY <2>1, <1>5, <1>1
<1> QED BY <1>1, <1>2, <1>3, <1>6

LEMMA SmallQuotients ==
  ASSUME NEW B \in Nat \ {0}, NEW need \in Nat
  PROVE  /\ (need + B - 1) \div B = 0 <=> need = 0
         /\ (need + B - 1) \div B = 1 <=> need \in 1 .. B
<1> DEFINE q == (need + B - 1) \div B
           r == (need + B - 1) % B
<1>1. q \in Nat /\ r \in 0 .. (B - 1) /\ need + B - 1 = q * B + r
  <2>1. need + B - 1 \in Nat
    OBVIOUS
  <2> QED BY <2>1, DivisionFacts
<1> HIDE DEF q, r
<1>2. q = 0 => q * B = 0
  OBVIOUS
<1>3. q = 1 => q * B = B
  OBVIOUS
<1>4. q >= 1 => q * B >= B
  <2>1. 1 <= q => 1 * B <= q * B
    BY <1>1, TimesOrdered
  <2> QED BY <2>1, <1>1
<1>5. q >= 2 => q * B >= 2 * B
  <2>1. 2 <= q => 2 * B <= q * B
    BY <1>1, TimesOrdered
  <2> QED BY <2>1, <1>1
<1>6. q \in Nat /\ q * B \in Nat
  BY <1>1, TimesOrdered
<1>7. (q = 0 <=> need = 0) /\ (q = 1 <=> need \in 1 .. B)
  BY <1>1, <1>2, <1>3, <1>4, <1>5, <1>6
<1> QED BY <1>7 DEF q

\* What is needed: no block when the file grows up to the end of its last one,
\* and one block from one end of a block up to the next.
LEMMA NeededBlocks ==
  ASSUME NEW length \in 0 .. (WORD - 1), NEW extra \in 1 .. (WORD - 1)
  PROVE  /\ BlocksNeeded(length, extra) = 0 =>
              /\ length % BLOCK_SIZE # 0
              /\ length + extra = (length \div BLOCK_SIZE + 1) * BLOCK_SIZE
         /\ (BlocksNeeded(length, extra) = 1 /\ length % BLOCK_SIZE = 0) =>
              /\ extra \in 1 .. BLOCK_SIZE
              /\ length = (length \div BLOCK_SIZE) * BLOCK_SIZE
<1> DEFINE B == BLOCK_SIZE
           q == length \div B
           r == length % B
           slack == (B - r) % B
           need == (extra - slack) % WORD
<1>1. B \in Nat \ {0} /\ WORD \in Nat \ {0} /\ B < WORD
  BY ImageAssumptions DEF ImageAssumption
<1>2. q \in Nat /\ r \in 0 .. (B - 1) /\ length = q * B + r
  <2> HIDE DEF B
  <2>1. length \in Nat
    OBVIOUS
  <2> QED BY <2>1, <1>1, DivisionFacts
<1>3. BlocksNeeded(length, extra) = (need + B - 1) \div B
  BY DEF BlocksNeeded
<1> HIDE DEF B
<1>4. r = 0 => slack = 0
  <2>1. B % B = 0
    <3>1. B \in B .. (2 * B - 1)
      BY <1>1
    <3> QED BY <3>1, <1>1, ModuloFacts
  <2> QED BY <2>1, <1>1
<1>5. r # 0 => slack = B - r
  <2>1. r # 0 => B - r \in 0 .. (B - 1)
    BY <1>1, <1>2
  <2> QED BY <2>1, <1>1, ModuloFacts
<1>6. slack \in 0 .. (B - 1)
  BY <1>1, <1>2, <1>4, <1>5
<1> HIDE DEF q, r, slack
<1>7. /\ need \in Nat
      /\ extra >= slack => need = extra - slack
      /\ extra < slack => need = extra - slack + WORD
  <2>1. extra >= slack => extra - slack \in 0 .. (WORD - 1)
    BY <1>1, <1>6
  <2>2. extra < slack => extra - slack \in (-WORD) .. (-1)
    BY <1>1, <1>6
  <2>3. extra >= slack => need = extra - slack
    BY <2>1, <1>1, ModuloFacts
  <2>4. extra < slack => need = extra - slack + WORD
    BY <2>2, <1>1, ModuloFacts
  <2> HIDE DEF need
  <2> QED BY <2>3, <2>4, <1>1, <1>6
<1> HIDE DEF need
<1>8. /\ (need + B - 1) \div B = 0 <=> need = 0
      /\ (need + B - 1) \div B = 1 <=> need \in 1 .. B
  BY <1>1, <1>7, SmallQuotients
<1>9. ASSUME need = 0 PROVE r # 0 /\ length + extra = (q + 1) * B
  <2>1. extra = slack
    BY <1>9, <1>1, <1>6, <1>7
  <2>2. r # 0
    BY <2>1, <1>4
  <2>3. (q + 1) * B = q * B + B /\ q * B \in Nat
    BY <1>1, <1>2, TimesOrdered
  <2> QED BY <2>1, <2>2, <2>3, <1>1, <1>2, <1>5
<1>10. ASSUME need \in 1 .. B, r = 0 PROVE extra \in 1 .. B /\ length = q * B
  <2>1. q * B \in Nat
    BY <1>1, <1>2, TimesOrdered
  <2> QED BY <2>1, <1>10, <1>2, <1>4, <1>7, <1>1
<1>11. /\ BlocksNeeded(length, extra) = 0 => r # 0 /\ length + extra = (q + 1) * B
       /\ BlocksNeeded(length, extra) = 1 /\ r = 0 =>
            extra \in 1 .. B /\ length = q * B
  BY <1>3, <1>8, <1>9, <1>10
<1> QED BY <1>11 DEF q, r, B

LEMMA LengthenedFacts ==
  ASSUME NEW d, NEW ino, NEW idx
  PROVE  /\ Lengthened(d, ino, idx, 0) = d
         /\ Lengthened(d, ino, idx, 1) = GrowStep(d, ino, idx)
<1> DEFINE P(n, f) == f = [r \in 0 .. n |->
                             IF r = 0 THEN d ELSE GrowStep(f[r - 1], ino, idx)]
           g(n) == CHOOSE f : P(n, f)
           zero == [r \in 0 .. 0 |-> d]
           one == [r \in 0 .. 1 |-> IF r = 0 THEN d ELSE GrowStep(d, ino, idx)]
<1>1. \A n : Lengthened(d, ino, idx, n) = g(n)[n]
  BY DEF Lengthened
<1>2. P(0, zero)
  <2>1. \A r \in 0 .. 0 : r = 0
    OBVIOUS
  <2> QED BY <2>1
<1>3. P(1, one)
  <2>1. \A r \in 0 .. 1 : r # 0 => r - 1 = 0
    OBVIOUS
  <2>2. one[0] = d
    OBVIOUS
  <2> QED BY <2>1, <2>2
<1>4. P(0, g(0)) /\ P(1, g(1))
  BY <1>2, <1>3
<1>5. g(0)[0] = d
  <2> HIDE DEF g
  <2> QED BY <1>4
<1>6. g(1)[1] = GrowStep(d, ino, idx)
  <2> HIDE DEF g
  <2>1. g(1)[0] = d
    BY <1>4
  <2>2. g(1)[1] = GrowStep(g(1)[1 - 1], ino, idx)
    BY <1>4
  <2> QED BY <2>1, <2>2
<1> QED BY <1>1, <1>5, <1>6

\* The number that the search answers: its bit is clear, the bit below is not.
LEMMA FirstClear ==
  ASSUME NEW d, 0 \in d.bits, Clear(d) # {}
  PROVE  LET b == Min(Clear(d))
         IN  /\ b \in Numbers /\ b \notin d.bits /\ b - 1 \in d.bits
             /\ b \in Clear(d)
<1> DEFINE b == Min(Clear(d))
<1>1. Clear(d) \in SUBSET Nat /\ \A c \in Clear(d) : c \in Numbers /\ c \notin d.bits
  BY DEF Clear, Numbers
<1>2. \E c \in Clear(d) : \A y \in Clear(d) : c <= y
  BY <1>1, LeastElement
<1>3. b \in Clear(d) /\ \A y \in Clear(d) : b <= y
  BY <1>2 DEF Min
<1> HIDE DEF b
<1>4. b \in Nat /\ b # 0
  BY <1>1, <1>3
<1>5. b - 1 \in 0 .. (blocks_count - 1)
  <2>1. blocks_count \in Nat
    BY ImageAssumptions DEF ImageAssumption
  <2>2. b \in 0 .. (blocks_count - 1)
    BY <1>1, <1>3 DEF Numbers
  <2> QED BY <2>1, <2>2, <1>4
<1>6. ~(b <= b - 1)
  BY <1>4
<1>7. b - 1 \in d.bits
  BY <1>3, <1>5, <1>6 DEF Clear
<1> QED BY <1>1, <1>3, <1>7 DEF b

LEMMA OthersKept ==
  ASSUME NEW d, DiskSound(d), NEW e, NEW x, NEW n \in TheFiles, NEW o \in TheFiles, o # n,
         e.inode = [d.inode EXCEPT ![InodeAt(n)] = x]
  PROVE  GetInode(e, o) = GetInode(d, o)
<1>1. InodeAt(o) # InodeAt(n) /\ InodeAt(o) \in DOMAIN Image.inode
  BY InodesApart, FilesAssumption
<1> QED BY <1>1 DEF GetInode, DiskSound

\* On e, file n of d has grown to end: it has the blocks it had, and new ones.
FileGrown(d, e, n, end) ==
  /\ DiskSound(e) /\ e.disk = d.disk
  /\ \A o \in TheFiles : o # n => GetInode(e, o) = GetInode(d, o)
  /\ GetInode(e, n).size = end
  /\ \A k \in Nat : k * BLOCK_SIZE < end =>
       \/ /\ k * BLOCK_SIZE < GetInode(d, n).size
          /\ BlockOf(GetInode(e, n), k) = BlockOf(GetInode(d, n), k)
       \/ /\ k = GetInode(d, n).size \div BLOCK_SIZE
          /\ k * BLOCK_SIZE = GetInode(d, n).size
          /\ BlockOf(GetInode(e, n), k) \notin d.bits
  /\ GetInode(d, n).size <= (DIRECT_BLOCKS + PER_INDIRECT) * BLOCK_SIZE =>
       end <= (DIRECT_BLOCKS + PER_INDIRECT) * BLOCK_SIZE
  /\ BlocksNeeded(GetInode(d, n).size, end - GetInode(d, n).size) = 0 =>
       \A k : BlockOf(GetInode(e, n), k) = BlockOf(GetInode(d, n), k)

LEMMA ServedGrowth ==
  ASSUME DiskSound(fs), NEW n \in TheFiles, NEW start \in Starts, NEW cnt \in Counts,
         start <= GetInode(fs, n).size, GetInode(fs, n).size < (cnt + start) % WORD,
         LET num == BlocksNeeded(GetInode(fs, n).size, start + cnt - GetInode(fs, n).size)
         IN  \/ num = 0
             \/ /\ num = 1 /\ GetInode(fs, n).size % BLOCK_SIZE = 0 /\ Clear(fs) # {}
                /\ GetInode(fs, n).size \div BLOCK_SIZE < DIRECT_BLOCKS
  PROVE  LET end == (cnt + start) % WORD
             g   == Increase(fs, InodeAt(n), end - GetInode(fs, n).size)
         IN  g.panic = FALSE /\ FileGrown(fs, g.fs, n, end)
<1> DEFINE ino == InodeAt(n)
           inode == fs.inode[ino]
           length == inode.size
           end == (cnt + start) % WORD
           extra == end - length
           num == BlocksNeeded(length, extra)
           idx == length \div BLOCK_SIZE
           B == BLOCK_SIZE
<1>1. /\ WORD \in Nat \ {0} /\ BLOCK_SIZE \in Nat \ {0} /\ DIRECT_BLOCKS \in Nat
      /\ start \in 0 .. (WORD - 1) /\ cnt \in 0 .. (WORD - 1)
  BY ImageAssumptions DEF ImageAssumption
<1>2. ino \in DOMAIN Image.inode /\ fs.inode \in [DOMAIN Image.inode -> Inodes]
  BY FilesAssumption DEF DiskSound
<1>3. inode \in Inodes /\ GetInode(fs, n) = inode
  BY <1>2 DEF GetInode
<1>4. /\ length \in 0 .. (WORD - 1) /\ inode.blocks \in [0 .. (DIRECT_BLOCKS + 2) -> Nat]
      /\ inode = [size |-> length, blocks |-> inode.blocks]
  BY <1>3 DEF Inodes
<1>5. start <= length /\ length < end
  BY <1>3
<1> HIDE DEF inode
<1>6. end = cnt + start /\ end \in 0 .. (WORD - 1)
  <2>1. length \in Nat
    BY <1>4
  <2> HIDE DEF length
  <2> QED BY <1>1, <1>5, <2>1, SumNotWrapped DEF end
<1>7. extra \in 1 .. (WORD - 1) /\ extra = start + cnt - length /\ length + extra = end
  <2> HIDE DEF end, length
  <2> QED BY <1>1, <1>4, <1>5, <1>6
<1>8. \/ num = 0
      \/ num = 1 /\ length % BLOCK_SIZE = 0 /\ Clear(fs) # {} /\ idx < DIRECT_BLOCKS
  BY <1>3, <1>7
<1>9. /\ num = 0 => /\ length % BLOCK_SIZE # 0
                    /\ length + extra = (idx + 1) * BLOCK_SIZE
      /\ (num = 1 /\ length % BLOCK_SIZE = 0) =>
           extra \in 1 .. BLOCK_SIZE /\ length = idx * BLOCK_SIZE
  <2> HIDE DEF length, extra
  <2> QED BY <1>4, <1>7, NeededBlocks
<1>10. idx \in Nat /\ length % B \in 0 .. (B - 1) /\ length = idx * B + (length % B)
  <2> HIDE DEF length
  <2>1. length \in Nat
    BY <1>4
  <2> QED BY <2>1, <1>1, DivisionFacts
<1>11. Increase(fs, ino, extra).fs =
         LET got == Min({num, Cardinality(Clear(fs))})
             g == Lengthened(fs, ino, idx, got)
         IN  IF got > 0 /\ idx >= DIRECT_BLOCKS THEN fs
             ELSE [g EXCEPT !.inode[ino].size =
                     (length + extra - (num - got) * BLOCK_SIZE) % WORD]
  BY DEF Increase, inode
<1>a. Increase(fs, ino, extra).panic =
        LET got == Min({num, Cardinality(Clear(fs))})
        IN  IF got > 0 /\ idx >= DIRECT_BLOCKS THEN TRUE ELSE FALSE
  BY DEF Increase, inode
<1>b. PER_INDIRECT \in Nat /\ DIRECT_BLOCKS + PER_INDIRECT \in Nat
  BY ImageAssumptions DEF ImageAssumption
<1> HIDE DEF num, extra, end, idx, length, ino
<1>12. Cardinality(Clear(fs)) \in Nat /\ IsFiniteSet(Clear(fs))
  BY ClearFinite
<1>13. end % WORD = end
  BY <1>1, <1>6, ModuloFacts
<1>14. ASSUME num = 0
       PROVE  LET g == Increase(fs, ino, extra)
              IN  g.panic = FALSE /\ FileGrown(fs, g.fs, n, end)
  <2> DEFINE x == [size |-> end, blocks |-> inode.blocks]
             e == [fs EXCEPT !.inode = [fs.inode EXCEPT ![ino] = x]]
  <2>1. Min({num, Cardinality(Clear(fs))}) = 0
    <3> DEFINE k == Cardinality(Clear(fs))
    <3> HIDE DEF k
    <3>1. k \in Nat
      BY <1>12 DEF k
    <3>2. \E y \in {0, k} : \A z \in {0, k} : y <= z
      BY <3>1
    <3>3. Min({0, k}) \in {0, k} /\ \A z \in {0, k} : Min({0, k}) <= z
      BY <3>2 DEF Min
    <3>4. Min({0, k}) = 0
      BY <3>1, <3>3
    <3> QED BY <3>4, <1>14 DEF k
  <2>2. Lengthened(fs, ino, idx, 0) = fs
    BY LengthenedFacts
  <2>3. length + extra - (num - 0) * BLOCK_SIZE = end
    BY <1>1, <1>4, <1>6, <1>7, <1>14
  <2>a. (length + extra - (num - 0) * BLOCK_SIZE) % WORD = end
    BY <1>13, <2>3
  <2>4. Increase(fs, ino, extra).fs = [fs EXCEPT !.inode[ino].size = end]
    <3> DEFINE got == Min({num, Cardinality(Clear(fs))})
               z(k) == (length + extra - (num - k) * BLOCK_SIZE) % WORD
    <3>1. Increase(fs, ino, extra).fs =
            IF got > 0 /\ idx >= DIRECT_BLOCKS THEN fs
            ELSE [Lengthened(fs, ino, idx, got) EXCEPT !.inode[ino].size = z(got)]
      BY <1>11
    <3>2. z(0) = end
      BY <2>a
    <3>3. got = 0
      BY <2>1
    <3> HIDE DEF got, z
    <3> QED BY <3>1, <3>2, <3>3, <2>2
  <2>5. x \in Inodes /\ [inode EXCEPT !.size = end] = x
    BY <1>4, <1>6 DEF Inodes
  <2>6. [fs EXCEPT !.inode[ino].size = end] = e
    BY <2>5, <1>2 DEF DiskSound, inode
  <2>7. /\ e.inode = [fs.inode EXCEPT ![ino] = x] /\ e.bits = fs.bits /\ e.disk = fs.disk
        /\ e.sbFree = fs.sbFree /\ e.groupFree = fs.groupFree
        /\ e = [inode |-> e.inode, bits |-> e.bits, disk |-> e.disk,
                sbFree |-> e.sbFree, groupFree |-> e.groupFree]
    BY DEF DiskSound
  <2>8. GetInode(e, n) = x
    BY <2>7, <1>2 DEF GetInode, ino
  <2> HIDE DEF e
  <2>9. Clear(e) = Clear(fs)
    BY <2>7 DEF Clear
  <2>b. x.size = end /\ end \in Nat /\ length \in Nat
    BY <1>4, <1>6
  <2>c. ASSUME NEW k \in Nat, k * B < end PROVE k * B < length
    <3>1. (idx + 1) * B = end /\ (idx + 1) * B \in Nat /\ k * B \in Nat /\ idx + 1 \in Nat
      BY <1>1, <1>7, <1>9, <1>10, <1>14, TimesOrdered
    <3>2. k <= idx
      <4>1. idx + 1 <= k => (idx + 1) * B <= k * B
        BY <1>1, <1>10, <3>1, TimesOrdered
      <4> QED BY <4>1, <3>1, <2>c, <1>10
    <3>3. k * B <= idx * B /\ k * B \in Nat /\ idx * B \in Nat
      BY <3>2, <1>1, <1>10, TimesOrdered
    <3> HIDE DEF B
    <3>4. length % B \in 1 .. (B - 1)
      BY <1>9, <1>10, <1>14, <1>1 DEF B
    <3> QED BY <3>3, <3>4, <1>10
  <2>d. \A k : BlockOf(x, k) = BlockOf(inode, k)
    BY DEF BlockOf
  <2>10. BlocksIn(e, n) \subseteq BlocksIn(fs, n)
    <3> SUFFICES ASSUME NEW b \in BlocksIn(e, n) PROVE b \in BlocksIn(fs, n)
      OBVIOUS
    <3>2. PICK k \in Nat : k * B < end /\ b = BlockOf(x, k)
      BY <2>b, <2>8, BlocksAre
    <3> QED BY <3>2, <2>b, <2>c, <2>d, <1>3, BlocksAre DEF length
  <2>e. length <= (DIRECT_BLOCKS + PER_INDIRECT) * B => end <= (DIRECT_BLOCKS + PER_INDIRECT) * B
    <3> DEFINE most == DIRECT_BLOCKS + PER_INDIRECT
    <3>1. most \in Nat
      BY <1>b
    <3> HIDE DEF most
    <3>2. /\ most <= idx => most * B <= idx * B
          /\ idx + 1 <= most => (idx + 1) * B <= most * B
          /\ idx + 1 \in Nat /\ most * B \in Nat /\ idx * B \in Nat
      BY <3>1, <1>1, <1>10, TimesOrdered
    <3>3. (idx + 1) * B = end
      BY <1>7, <1>9, <1>14
    <3>4. idx * B < length
      <4> HIDE DEF B
      <4>1. length % B \in 1 .. (B - 1)
        BY <1>9, <1>10, <1>14, <1>1 DEF B
      <4> QED BY <4>1, <3>2, <1>10
    <3>5. length <= most * B => idx + 1 <= most
      <4>1. ~(most <= idx) => idx + 1 <= most
        BY <3>1, <1>10
      <4> QED BY <4>1, <3>2, <3>4, <2>b
    <3> QED BY <3>2, <3>3, <3>5 DEF most
  <2>11. fs.bits \subseteq Numbers /\ fs.sbFree = Cardinality(Clear(fs))
         /\ fs.groupFree = Cardinality(Clear(fs))
    BY DEF DiskSound
  <2> HIDE DEF x
  <2>12. DiskSound(e)
    <3> DEFINE more == {}
    <3>1. BlocksIn(e, n) \subseteq BlocksIn(fs, n) \cup more
      BY <2>10
    <3>2. \A b \in more : b \notin fs.bits /\ {b - 1, b} \subseteq e.bits
      OBVIOUS
    <3>3. fs.bits \subseteq e.bits /\ e.bits \subseteq Numbers
      BY <2>7, <2>11
    <3>4. e.sbFree = Cardinality(Clear(e)) /\ e.groupFree = Cardinality(Clear(e))
      BY <2>7, <2>9, <2>11
    <3>5. e.inode = [fs.inode EXCEPT ![InodeAt(n)] = x]
      BY <2>7 DEF ino
    <3>6. e = [inode |-> e.inode, bits |-> e.bits, disk |-> e.disk,
               sbFree |-> e.sbFree, groupFree |-> e.groupFree]
      BY <2>7
    <3> HIDE DEF more
    <3> QED BY <3>1, <3>2, <3>3, <3>4, <3>5, <3>6, <2>5, OneFileGrows
  <2>13. FileGrown(fs, e, n, end)
    <3>1. \A o \in TheFiles : o # n => GetInode(e, o) = GetInode(fs, o)
      BY <2>7, OthersKept DEF ino
    <3>2. GetInode(e, n).size = end /\ e.disk = fs.disk
      BY <2>7, <2>8, <2>b
    <3>3. \A k : BlockOf(GetInode(e, n), k) = BlockOf(GetInode(fs, n), k)
      BY <2>8, <2>d, <1>3
    <3>4. GetInode(fs, n).size = length
      BY <1>3 DEF length
    <3> QED BY ONLY <2>12, <2>c, <2>e, <3>1, <3>2, <3>3, <3>4 DEF FileGrown
  <2>14. Increase(fs, ino, extra).panic = FALSE
    <3> DEFINE got == Min({num, Cardinality(Clear(fs))})
    <3>1. got = 0
      BY <2>1
    <3> HIDE DEF got
    <3> QED BY <3>1, <1>a DEF got
  <2> QED BY <2>4, <2>6, <2>13, <2>14
<1>15. ASSUME num = 1, length % BLOCK_SIZE = 0, Clear(fs) # {}, idx < DIRECT_BLOCKS
       PROVE  LET g == Increase(fs, ino, extra)
              IN  g.panic = FALSE /\ FileGrown(fs, g.fs, n, end)
  <2> DEFINE b == Min(Clear(fs))
             bl == [inode.blocks EXCEPT ![idx] = b]
             x == [size |-> end, blocks |-> bl]
             e == [inode |-> [fs.inode EXCEPT ![ino] = x], bits |-> fs.bits \cup {b},
                   disk |-> fs.disk, sbFree |-> fs.sbFree - 1,
                   groupFree |-> fs.groupFree - 1]
  <2>1. Min({num, Cardinality(Clear(fs))}) = 1
    <3> DEFINE k == Cardinality(Clear(fs))
    <3>0. k # 0
      BY <1>12, <1>15, FS_EmptySet
    <3> HIDE DEF k
    <3>1. k \in Nat
      BY <1>12 DEF k
    <3>2. \E y \in {1, k} : \A z \in {1, k} : y <= z
      BY <3>0, <3>1
    <3>3. Min({1, k}) \in {1, k} /\ \A z \in {1, k} : Min({1, k}) <= z
      BY <3>2 DEF Min
    <3>4. Min({1, k}) = 1
      BY <3>0, <3>1, <3>3
    <3> QED BY <3>4, <1>15 DEF k
  <2>2. Lengthened(fs, ino, idx, 1) = GrowStep(fs, ino, idx)
    BY LengthenedFacts
  <2>3. (length + extra - (num - 1) * BLOCK_SIZE) % WORD = end
    <3>1. length + extra - (num - 1) * BLOCK_SIZE = end
      BY <1>1, <1>4, <1>6, <1>7, <1>15
    <3> QED BY <1>13, <3>1
  <2>4. Increase(fs, ino, extra).fs = [GrowStep(fs, ino, idx) EXCEPT !.inode[ino].size = end]
    <3> DEFINE got == Min({num, Cardinality(Clear(fs))})
               z(k) == (length + extra - (num - k) * BLOCK_SIZE) % WORD
    <3>1. Increase(fs, ino, extra).fs =
            IF got > 0 /\ idx >= DIRECT_BLOCKS THEN fs
            ELSE [Lengthened(fs, ino, idx, got) EXCEPT !.inode[ino].size = z(got)]
      BY <1>11
    <3>2. z(1) = end
      BY <2>3
    <3>3. got = 1
      BY <2>1
    <3>4. ~(idx >= DIRECT_BLOCKS)
      BY <1>1, <1>10, <1>15
    <3> HIDE DEF got, z
    <3> QED BY <3>1, <3>2, <3>3, <3>4, <2>2
  <2>5. b \in Numbers /\ b \notin fs.bits /\ b - 1 \in fs.bits /\ b \in Clear(fs)
    BY <1>15, FirstClear DEF DiskSound
  <2>6. b \in Nat
    BY <2>5 DEF Numbers
  <2>7. GrowStep(fs, ino, idx) =
          [[fs EXCEPT !.bits = @ \cup {b}, !.sbFree = @ - 1, !.groupFree = @ - 1]
             EXCEPT !.inode[ino].blocks[idx] = b]
    BY <1>15 DEF GrowStep, MarkOccupied
  <2> HIDE DEF b
  <2>8. x \in Inodes /\ [[inode EXCEPT !.blocks[idx] = b] EXCEPT !.size = end] = x
    <3>1. bl \in [0 .. (DIRECT_BLOCKS + 2) -> Nat]
      BY <1>4, <2>6
    <3>2. [inode EXCEPT !.blocks[idx] = b] = [size |-> length, blocks |-> bl]
      BY <1>4
    <3> HIDE DEF bl
    <3>3. [[size |-> length, blocks |-> bl] EXCEPT !.size = end] =
            [size |-> end, blocks |-> bl]
      OBVIOUS
    <3>4. x \in Inodes
      BY <3>1, <1>6 DEF Inodes
    <3> QED BY <3>2, <3>3, <3>4
  <2>9. [GrowStep(fs, ino, idx) EXCEPT !.inode[ino].size = end] = e
    <3> DEFINE F(i, t, u, v, w) ==
                 [inode |-> i, bits |-> t, disk |-> u, sbFree |-> v, groupFree |-> w]
               t == fs.bits \cup {b}
               y == [inode EXCEPT !.blocks[idx] = b]
               m == F(fs.inode, t, fs.disk, fs.sbFree - 1, fs.groupFree - 1)
               o == F([fs.inode EXCEPT ![ino] = y], t, fs.disk, fs.sbFree - 1,
                      fs.groupFree - 1)
    <3>1. fs = F(fs.inode, fs.bits, fs.disk, fs.sbFree, fs.groupFree)
      BY DEF DiskSound
    <3>2. [fs EXCEPT !.bits = @ \cup {b}, !.sbFree = @ - 1, !.groupFree = @ - 1] =
            [[[fs EXCEPT !.bits = t] EXCEPT !.sbFree = fs.sbFree - 1]
               EXCEPT !.groupFree = fs.groupFree - 1]
      BY <3>1
    <3>3. \A i, a, u, v, w, z :
            /\ [F(i, a, u, v, w) EXCEPT !.bits = z] = F(i, z, u, v, w)
            /\ [F(i, a, u, v, w) EXCEPT !.sbFree = z] = F(i, a, u, z, w)
            /\ [F(i, a, u, v, w) EXCEPT !.groupFree = z] = F(i, a, u, v, z)
      OBVIOUS
    <3>4. \A i, a, u, v, w, i2 :
            [F(i, a, u, v, w) EXCEPT !.inode = i2] = F(i2, a, u, v, w)
      OBVIOUS
    <3>5. [m EXCEPT !.inode[ino].blocks[idx] = b] =
            [m EXCEPT !.inode = [fs.inode EXCEPT ![ino] = y]]
      BY <1>2 DEF inode
    <3>6. o.inode = [fs.inode EXCEPT ![ino] = y]
      OBVIOUS
    <3>7. [fs.inode EXCEPT ![ino] = y][ino] = y
      BY <1>2
    <3>8. [y EXCEPT !.size = end] = x
      BY <2>8
    <3>9. [[fs.inode EXCEPT ![ino] = y] EXCEPT ![ino] = x] = [fs.inode EXCEPT ![ino] = x]
      BY <1>2
    <3>10. e = F([fs.inode EXCEPT ![ino] = x], t, fs.disk, fs.sbFree - 1, fs.groupFree - 1)
      OBVIOUS
    <3> HIDE DEF y, x, t, e
    <3>11. [o EXCEPT !.inode[ino].size = end] =
             [o EXCEPT !.inode = [o.inode EXCEPT ![ino] = [o.inode[ino] EXCEPT !.size = end]]]
      OBVIOUS
    <3>12. [o EXCEPT !.inode[ino].size = end] = e
      <4>1. [o.inode EXCEPT ![ino] = [o.inode[ino] EXCEPT !.size = end]] =
              [fs.inode EXCEPT ![ino] = x]
        BY <3>6, <3>7, <3>8, <3>9
      <4> DEFINE i2 == [fs.inode EXCEPT ![ino] = x]
                 i1 == [fs.inode EXCEPT ![ino] = y]
      <4>2. [o EXCEPT !.inode[ino].size = end] = [o EXCEPT !.inode = i2]
        BY <3>11, <4>1
      <4> HIDE DEF i2
      <4>3. [o EXCEPT !.inode = i2] = F(i2, t, fs.disk, fs.sbFree - 1, fs.groupFree - 1)
        OBVIOUS
      <4> QED BY <4>2, <4>3, <3>10 DEF i2
    <3>13. [fs EXCEPT !.bits = @ \cup {b}, !.sbFree = @ - 1, !.groupFree = @ - 1] = m
      <4> DEFINE f0 == F(fs.inode, fs.bits, fs.disk, fs.sbFree, fs.groupFree)
                 f1 == F(fs.inode, t, fs.disk, fs.sbFree, fs.groupFree)
                 f2 == F(fs.inode, t, fs.disk, fs.sbFree - 1, fs.groupFree)
      <4>1. [f0 EXCEPT !.bits = t] = f1
        BY <3>3
      <4>2. [f1 EXCEPT !.sbFree = fs.sbFree - 1] = f2
        BY <3>3
      <4>3. [f2 EXCEPT !.groupFree = fs.groupFree - 1] = m
        BY <3>3
      <4>4. fs = f0
        BY <3>1
      <4> HIDE DEF f0, f1, f2, m
      <4> QED BY <3>2, <4>1, <4>2, <4>3, <4>4
    <3>14. [m EXCEPT !.inode[ino].blocks[idx] = b] = o
      BY <3>4, <3>5
    <3> HIDE DEF m, o
    <3> QED BY <2>7, <3>12, <3>13, <3>14
  <2>10. /\ e.inode = [fs.inode EXCEPT ![ino] = x] /\ e.bits = fs.bits \cup {b}
         /\ e.disk = fs.disk
         /\ e.sbFree = fs.sbFree - 1 /\ e.groupFree = fs.groupFree - 1
         /\ e = [inode |-> e.inode, bits |-> e.bits, disk |-> e.disk,
                 sbFree |-> e.sbFree, groupFree |-> e.groupFree]
    OBVIOUS
  <2> HIDE DEF e
  <2>11. GetInode(e, n) = x
    BY <2>10, <1>2 DEF GetInode, ino
  <2>12. /\ Cardinality(Clear(e)) = Cardinality(Clear(fs)) - 1
    <3>1. Clear(e) = Clear(fs) \ {b}
      BY <2>10 DEF Clear
    <3> QED BY <3>1, <2>5, <1>12, FS_RemoveElement
  <2>a. x.size = end /\ end \in Nat /\ length \in Nat
    BY <1>4, <1>6
  <2>b. /\ extra \in 1 .. B /\ length = idx * B /\ idx * B \in Nat /\ B \in Nat
        /\ (idx + 1) * B = idx * B + B /\ idx + 1 \in Nat
    BY <1>1, <1>9, <1>10, <1>15, TimesOrdered
  <2>c. x.blocks = bl /\ bl[idx] = b /\ \A i \in 0 .. DIRECT_BLOCKS : i # idx =>
          bl[i] = inode.blocks[i]
    BY <1>1, <1>4, <1>10, <1>15
  <2>d. BlockOf(x, idx) = b
    BY <1>15, <2>c DEF BlockOf
  <2>e. ASSUME NEW k \in Nat, k * B < end, k # idx
        PROVE  k * B < length /\ BlockOf(x, k) = BlockOf(inode, k)
    <3>4. k <= idx
      <4>1. idx + 1 <= k => (idx + 1) * B <= k * B
        BY <2>b, <1>1, <1>10, TimesOrdered
      <4>2. k * B \in Nat
        BY <1>1, TimesOrdered
      <4> HIDE DEF B
      <4> QED BY <4>1, <4>2, <2>b, <2>e, <1>7, <1>10
    <3>7. k * B < length
      <4>1. (k + 1) * B <= idx * B /\ (k + 1) * B = k * B + B /\ k * B \in Nat
        BY <3>4, <2>e, <1>1, <1>10, TimesOrdered
      <4> HIDE DEF B
      <4> QED BY <4>1, <2>b, <1>1 DEF B
    <3>8. k < DIRECT_BLOCKS /\ k \in 0 .. DIRECT_BLOCKS
      <4>1. idx \in Nat /\ idx < DIRECT_BLOCKS /\ DIRECT_BLOCKS \in Nat
        BY <1>1, <1>10, <1>15
      <4> QED BY ONLY <4>1, <3>4, k \in Nat
    <3>9. BlockOf(x, k) = BlockOf(inode, k)
      BY <2>c, <2>e, <3>8 DEF BlockOf
    <3> QED BY <3>7, <3>9
  <2>13. BlocksIn(e, n) \subseteq BlocksIn(fs, n) \cup {b}
    <3> SUFFICES ASSUME NEW c \in BlocksIn(e, n), c # b PROVE c \in BlocksIn(fs, n)
      OBVIOUS
    <3>2. PICK k \in Nat : k * B < end /\ c = BlockOf(x, k)
      BY <2>a, <2>11, BlocksAre
    <3>3. k * B < length /\ BlockOf(x, k) = BlockOf(inode, k)
      BY <3>2, <2>d, <2>e
    <3> QED BY <2>a, <3>2, <3>3, <1>3, BlocksAre DEF length
  <2>f. end <= (DIRECT_BLOCKS + PER_INDIRECT) * B
    <3> DEFINE most == DIRECT_BLOCKS + PER_INDIRECT
    <3>1. most \in Nat /\ idx + 1 <= most
      BY <1>1, <1>b, <1>10, <1>15
    <3> HIDE DEF most
    <3>2. (idx + 1) * B <= most * B /\ most * B \in Nat
      BY <3>1, <2>b, <1>1, TimesOrdered
    <3>3. end <= idx * B + B
      <4> HIDE DEF B
      <4> QED BY <2>b, <1>7
    <3> QED BY <3>2, <3>3, <2>a, <2>b DEF most
  <2>14. fs.bits \subseteq Numbers /\ fs.sbFree = Cardinality(Clear(fs))
         /\ fs.groupFree = Cardinality(Clear(fs))
    BY DEF DiskSound
  <2> HIDE DEF x
  <2>15. DiskSound(e)
    <3> DEFINE more == {b}
    <3>1. BlocksIn(e, n) \subseteq BlocksIn(fs, n) \cup more
      BY <2>13
    <3>2. \A c \in more : c \notin fs.bits /\ {c - 1, c} \subseteq e.bits
      BY <2>5, <2>10
    <3>3. fs.bits \subseteq e.bits /\ e.bits \subseteq Numbers
      BY <2>5, <2>10, <2>14
    <3>4. e.sbFree = Cardinality(Clear(e)) /\ e.groupFree = Cardinality(Clear(e))
      BY <2>10, <2>12, <2>14
    <3>5. e.inode = [fs.inode EXCEPT ![InodeAt(n)] = x]
      BY <2>10 DEF ino
    <3>6. e = [inode |-> e.inode, bits |-> e.bits, disk |-> e.disk,
               sbFree |-> e.sbFree, groupFree |-> e.groupFree]
      BY <2>10
    <3>7. x \in Inodes
      BY <2>8
    <3> HIDE DEF more
    <3> QED BY <3>1, <3>2, <3>3, <3>4, <3>5, <3>6, <3>7, OneFileGrows
  <2>16. FileGrown(fs, e, n, end)
    <3>0. e.inode = [fs.inode EXCEPT ![InodeAt(n)] = x]
      BY <2>10 DEF ino
    <3>1. \A o \in TheFiles : o # n => GetInode(e, o) = GetInode(fs, o)
      BY ONLY <3>0, DiskSound(fs), n \in TheFiles, OthersKept
    <3>2. GetInode(e, n).size = end /\ e.disk = fs.disk
      BY <2>10, <2>11, <2>a
    <3>3. GetInode(fs, n) = inode /\ GetInode(fs, n).size = length
      BY <1>3 DEF length
    <3>4. ASSUME NEW k \in Nat, k * B < end
          PROVE  \/ k * B < length /\ BlockOf(x, k) = BlockOf(inode, k)
                 \/ k = idx /\ k * B = length /\ BlockOf(x, k) \notin fs.bits
      BY <3>4, <2>5, <2>b, <2>d, <2>e
    <3>5. ~(BlocksNeeded(length, end - length) = 0)
      BY <1>15 DEF num, extra
    <3>6. idx = length \div BLOCK_SIZE
      BY DEF idx
    <3> QED BY ONLY <2>11, <2>15, <2>f, <3>1, <3>2, <3>3, <3>4, <3>5, <3>6 DEF FileGrown
  <2>17. Increase(fs, ino, extra).panic = FALSE
    <3>1. ~(idx >= DIRECT_BLOCKS)
      BY <1>1, <1>10, <1>15
    <3> QED BY <3>1, <1>a
  <2> QED BY <2>4, <2>9, <2>16, <2>17
<1>16. LET g == Increase(fs, ino, extra) IN g.panic = FALSE /\ FileGrown(fs, g.fs, n, end)
  BY <1>8, <1>14, <1>15
<1> QED BY <1>16, <1>3 DEF ino, extra, end, length

\* A write that is served keeps the ramdisk sound.
LEMMA ServedWrite ==
  ASSUME DiskSound(fs), NEW path \in Paths, NEW start \in Starts, NEW cnt \in Counts,
         NEW byte, Found(path), WriteServed(path, start, cnt),
         RawWrite(path, start, cnt, byte)
  PROVE  DiskSound(fs')
<1> DEFINE n == Lookup[path]
           ino == InodeAt(n)
           length == fs.inode[ino].size
           end == (cnt + start) % WORD
           w(g) == Walk(g.fs.inode[ino], start, cnt)
<1>1. n \in TheFiles
  BY DEF Found, TheFiles
<1>2. GetInode(fs, n) = fs.inode[ino]
  BY DEF GetInode
<1>3. ASSUME NEW g, NEW x, DiskSound(g.fs), Overwrite(g, x, cnt, byte)
      PROVE  DiskSound(fs')
  <2> DEFINE bytes == [a \in DOMAIN g.fs.disk |->
                         IF a \in Range(x.at) THEN byte ELSE g.fs.disk[a]]
  <2>1. fs' = [g.fs EXCEPT !.disk = bytes]
    BY <1>3 DEF Overwrite, DiskSound
  <2> HIDE DEF bytes
  <2>2. DiskSound([g.fs EXCEPT !.disk = bytes])
    BY <1>3, OtherBytes
  <2> QED BY <2>1, <2>2
<1>4. \/ length >= end /\ Overwrite([fs |-> fs, panic |-> FALSE],
                                  w([fs |-> fs, panic |-> FALSE]), cnt, byte)
      \/ /\ ~(length >= end) /\ start <= length
         /\ Overwrite(Increase(fs, ino, end - length), w(Increase(fs, ino, end - length)),
                      cnt, byte)
      \/ UNCHANGED fs
  BY DEF RawWrite
<1>5. CASE Overwrite([fs |-> fs, panic |-> FALSE], w([fs |-> fs, panic |-> FALSE]),
                     cnt, byte)
  <2> DEFINE g == [fs |-> fs, panic |-> FALSE]
             x == w(g)
  <2>1. DiskSound(g.fs) /\ Overwrite(g, x, cnt, byte)
    BY <1>5
  <2> HIDE DEF g, x
  <2> QED BY <2>1, <1>3
<1>6. CASE /\ ~(length >= end) /\ start <= length
           /\ Overwrite(Increase(fs, ino, end - length), w(Increase(fs, ino, end - length)),
                        cnt, byte)
  <2> DEFINE g == Increase(fs, ino, end - length)
             x == w(g)
             num == BlocksNeeded(length, start + cnt - length)
  <2>1. /\ WORD \in Nat \ {0} /\ start \in Nat /\ cnt \in Nat
    BY ImageAssumptions DEF ImageAssumption
  <2>2. end \in Nat /\ end <= start + cnt
    BY <2>1
  <2>3. length \in Nat
    BY <1>1, FilesAssumption DEF DiskSound, Inodes
  <2> HIDE DEF length, end
  <2>4. length < end /\ start + cnt > length
    BY <1>6, <2>1, <2>2, <2>3
  <2>5. \/ num = 0
        \/ /\ num = 1 /\ length % BLOCK_SIZE = 0 /\ Clear(fs) # {}
           /\ length \div BLOCK_SIZE < DIRECT_BLOCKS
    BY <2>4, <1>2 DEF WriteServed, length
  <2>6. DiskSound(g.fs)
    BY <1>1, <1>2, <1>6, <2>4, <2>5, ServedGrowth DEF length, end, FileGrown
  <2>7. Overwrite(g, x, cnt, byte)
    BY <1>6
  <2> HIDE DEF g, x
  <2> QED BY <2>6, <2>7, <1>3
<1> QED BY <1>4, <1>5, <1>6

LEMMA FreeAtFirst ==
  ASSUME NEW d, d.bits \subseteq Numbers
  PROVE  Cardinality(Clear(d)) = blocks_count - Cardinality(d.bits)
<1>1. blocks_count \in Nat \ {0}
  BY ImageAssumptions DEF ImageAssumption
<1>2. IsFiniteSet(Numbers) /\ Cardinality(Numbers) = blocks_count
  <2>1. 0 \in Int /\ blocks_count - 1 \in Int /\ ~(0 > blocks_count - 1)
    BY <1>1
  <2>2. /\ IsFiniteSet(0 .. (blocks_count - 1))
        /\ Cardinality(0 .. (blocks_count - 1)) = (blocks_count - 1) - 0 + 1
    BY <2>1, FS_Interval
  <2> QED BY <1>1, <2>2 DEF Numbers
<1>3. Clear(d) = Numbers \ d.bits
  BY DEF Clear, Numbers
<1>4. Numbers \cap d.bits = d.bits
  OBVIOUS
<1> HIDE DEF Numbers
<1>5. Cardinality(Numbers \ d.bits) = Cardinality(Numbers) - Cardinality(Numbers \cap d.bits)
  BY <1>2, FS_Difference
<1> QED BY <1>2, <1>3, <1>4, <1>5

LEMMA SparedSound == SparedImage /\ FsInit => DiskSound(fs)
<1> SUFFICES ASSUME SparedImage, FsInit PROVE DiskSound(fs)
  OBVIOUS
<1>1. /\ fs.inode = Image.inode /\ fs.bits = Image.bits
      /\ fs.sbFree = blocks_count - Cardinality(Image.bits)
      /\ fs.groupFree = blocks_count - Cardinality(Image.bits)
      /\ fs = [inode |-> fs.inode, bits |-> fs.bits, disk |-> fs.disk,
               sbFree |-> fs.sbFree, groupFree |-> fs.groupFree]
  BY DEF FsInit
<1>2. /\ Image.inode \in [DOMAIN Image.inode -> Inodes]
      /\ 0 \in Image.bits /\ Image.bits \subseteq Numbers
  BY ImageAssumptions DEF ImageAssumption, Numbers
<1>3. \A n : BlocksIn(fs, n) = BlocksIn(Image, n)
  BY <1>1 DEF BlocksIn, GetInode
<1>4. Cardinality(Clear(fs)) = blocks_count - Cardinality(fs.bits)
  BY <1>1, <1>2, FreeAtFirst
<1> QED BY <1>1, <1>2, <1>3, <1>4 DEF DiskSound, SparedImage

LEMMA ServedStep ==
  ASSUME ~AnyRequest
  PROVE  DiskSound(fs) /\ [FsNext]_fsVars => DiskSound(fs')
<1> SUFFICES ASSUME DiskSound(fs), [FsNext]_fsVars PROVE DiskSound(fs')
  OBVIOUS
<1>1. CASE UNCHANGED fsVars
  BY <1>1 DEF fsVars
<1>2. ASSUME NEW path \in Paths, Fails(path) PROVE DiskSound(fs')
  BY <1>2 DEF Fails
<1>3. ASSUME NEW path \in Paths, FileSize(path) PROVE DiskSound(fs')
  BY <1>3 DEF FileSize
<1>4. ASSUME NEW path \in Paths, NEW start, NEW n, RawRead(path, start, n)
      PROVE  DiskSound(fs')
  BY <1>4 DEF RawRead, Deliver
<1>5. ASSUME NEW path \in Paths, NEW start \in Starts, NEW n \in Counts,
             Found(path), WriteServed(path, start, n), NEW byte \in Bytes,
             RawWrite(path, start, n, byte)
      PROVE  DiskSound(fs')
  BY <1>5, ServedWrite
<1>6. CASE FsNext
  BY <1>2, <1>3, <1>4, <1>5, <1>6 DEF FsNext
<1> QED BY <1>1, <1>6

LEMMA DiskSoundKeeps == DiskSound(fs) => BlocksSound
BY DEF DiskSound, BlocksSound, BlocksOf

\* While callers ask for what the code serves, the bitmap, its two counts and
\* the inodes agree: a file that grows gets a block that no file has, though
\* block_alloc answers with the number of a bit (write_ext2.c:12-110), on every
\* image whose files lie in blocks for which both numbers are taken.
THEOREM BlocksAlwaysSound ==
  ASSUME ~AnyRequest, SparedImage
  PROVE  FsSpec => []BlocksSound
<1>1. FsInit => DiskSound(fs)
  BY SparedSound
<1>2. DiskSound(fs) /\ [FsNext]_fsVars => DiskSound(fs)'
  BY ServedStep
<1>3. DiskSound(fs) => BlocksSound
  BY DiskSoundKeeps
<1> QED BY <1>1, <1>2, <1>3, PTL DEF FsSpec

-----------------------------------------------------------------------------
(* The walk over the blocks of a file.                                     *)

LEMMA BlockSizes ==
  /\ BLOCK_SIZE \in Nat \ {0} /\ DIRECT_BLOCKS \in Nat \ {0}
  /\ PER_INDIRECT \in Nat \ {0} /\ WORD \in Nat \ {0}
BY ImageAssumptions DEF ImageAssumption

\* A byte lies in one block, at one offset.
LEMMA ByteInBlock ==
  ASSUME NEW q \in Nat, NEW o \in 0 .. (BLOCK_SIZE - 1), NEW p, p = q * BLOCK_SIZE + o
  PROVE  p \in Nat /\ p \div BLOCK_SIZE = q /\ p % BLOCK_SIZE = o
<1> PICK B : B = BLOCK_SIZE
  OBVIOUS
<1>1. B \in Nat \ {0} /\ o \in 0 .. (B - 1) /\ p = q * B + o
  BY BlockSizes
<1>2. q * B \in Nat
  BY <1>1, TimesOrdered
<1>3. p \in Nat
  BY <1>1, <1>2
<1> PICK q2, o2 : q2 = p \div B /\ o2 = p % B
  OBVIOUS
<1>4. q2 \in Nat /\ o2 \in 0 .. (B - 1) /\ p = q2 * B + o2
  BY <1>1, <1>3, DivisionFacts
<1>5. \A a, b \in Nat : a < b => a * B + B <= b * B /\ a * B \in Nat /\ b * B \in Nat
  <2> TAKE a, b \in Nat
  <2>1. a + 1 <= b => (a + 1) * B <= b * B
    BY <1>1, TimesOrdered
  <2>2. (a + 1) * B = a * B + B
    BY <1>1
  <2>3. a * B \in Nat /\ b * B \in Nat
    BY <1>1, TimesOrdered
  <2> QED BY <2>1, <2>2, <2>3
<1>6. ~(q < q2)
  BY <1>1, <1>4, <1>5
<1>7. ~(q2 < q)
  BY <1>1, <1>4, <1>5
<1>8. q2 = q
  BY <1>4, <1>6, <1>7
<1>9. o2 = o
  BY <1>1, <1>2, <1>4, <1>8
<1> QED BY <1>3, <1>8, <1>9

LEMMA WalkSteps ==
  ASSUME NEW inode, NEW start, NEW n
  PROVE  LET most == DIRECT_BLOCKS + PER_INDIRECT + 2
         IN  \E g : /\ Steps("walk", inode, 0, 0, FirstStep(start, n), most, g)
                    /\ Walk(inode, start, n) = g[most]
<1> DEFINE most == DIRECT_BLOCKS + PER_INDIRECT + 2
           w == FirstStep(start, n)
<1>1. most \in Nat
  BY BlockSizes
<1> HIDE DEF most, w
<1>2. PICK g : Steps("walk", inode, 0, 0, w, most, g)
  BY <1>1, StepsExist
<1>3. g = [k \in 0 .. most |-> IF k = 0 THEN w ELSE WalkStep(inode, g[k - 1])]
  BY <1>2 DEF Steps, Step
<1>4. \E h : /\ h = [k \in 0 .. most |-> IF k = 0 THEN w ELSE WalkStep(inode, h[k - 1])]
             /\ Walk(inode, start, n) = h[most]
  BY <1>3 DEF Walk, most, w
<1>5. PICK h : /\ h = [k \in 0 .. most |-> IF k = 0 THEN w ELSE WalkStep(inode, h[k - 1])]
               /\ Walk(inode, start, n) = h[most]
  BY <1>4
<1>6. Steps("walk", inode, 0, 0, w, most, h)
  BY <1>5 DEF Steps, Step
<1> QED BY <1>5, <1>6 DEF most, w

\* at is where the n bytes from start on lie.
Covers(at, inode, start, n) ==
  /\ at \in Seq(Nat) /\ Len(at) = n
  /\ \A j \in 1 .. n : at[j] = AddressOf(inode, start + j - 1)

\* The next bytes.
LEMMA CoversMore ==
  ASSUME NEW at, NEW inode, NEW start \in Nat, NEW n \in Nat, Covers(at, inode, start, n),
         NEW b, NEW off, NEW m \in Nat,
         \A j \in 1 .. m : /\ b * BLOCK_SIZE + off + j - 1 \in Nat
                           /\ b * BLOCK_SIZE + off + j - 1 = AddressOf(inode, start + n + j - 1)
  PROVE  Covers(at \o Addresses(b, off, m), inode, start, n + m)
<1> PICK c : c = Addresses(b, off, m)
  OBVIOUS
<1>1. c = [j \in 1 .. m |-> b * BLOCK_SIZE + off + j - 1]
  BY DEF Addresses
<1>2. \A j \in 1 .. m : c[j] \in Nat /\ c[j] = AddressOf(inode, start + n + j - 1)
  BY <1>1
<1>3. c \in Seq(Nat) /\ Len(c) = m
  BY <1>1, <1>2
<1>4. at \in Seq(Nat) /\ Len(at) = n
      /\ \A j \in 1 .. n : at[j] = AddressOf(inode, start + j - 1)
  BY DEF Covers
<1>5. /\ at \o c \in Seq(Nat) /\ Len(at \o c) = n + m
      /\ \A j \in 1 .. n + m : (at \o c)[j] = IF j <= n THEN at[j] ELSE c[j - n]
  <2>1. /\ at \o c \in Seq(Nat) /\ Len(at \o c) = Len(at) + Len(c)
        /\ \A i \in 1 .. Len(at) + Len(c) :
             (at \o c)[i] = IF i <= Len(at) THEN at[i] ELSE c[i - Len(at)]
    BY <1>3, <1>4, ConcatProperties
  <2> QED BY <2>1, <1>3, <1>4
<1>6. ASSUME NEW j \in 1 .. (n + m)
      PROVE  (at \o c)[j] = AddressOf(inode, start + j - 1)
  <2>1. CASE j <= n
    <3>1. j \in 1 .. n
      BY <2>1
    <3> QED BY <3>1, <2>1, <1>4, <1>5
  <2>2. CASE ~(j <= n)
    <3>1. j - n \in 1 .. m /\ start + n + (j - n) - 1 = start + j - 1
      BY <2>2
    <3>2. (at \o c)[j] = c[j - n]
      BY <2>2, <1>5
    <3>3. c[j - n] = AddressOf(inode, start + n + (j - n) - 1)
      BY <3>1, <1>2
    <3> QED BY <3>1, <3>2, <3>3
  <2> QED BY <2>1, <2>2
<1> QED BY <1>5, <1>6 DEF Covers

\* The loop stands at block q of the file, and has left bytes in front of it.
Underway(w, inode, start, n, q) ==
  /\ DOMAIN w = {"k", "ind", "off", "rem", "at", "done", "panic"}
  /\ w.done = FALSE /\ w.panic = FALSE
  /\ w.rem \in 0 .. n /\ w.off \in 0 .. (BLOCK_SIZE - 1)
  /\ start + (n - w.rem) = q * BLOCK_SIZE + w.off
  /\ w.k = (IF q >= DIRECT_BLOCKS THEN DIRECT_BLOCKS ELSE q)
  /\ w.ind = (IF q >= DIRECT_BLOCKS THEN q - DIRECT_BLOCKS ELSE 0)
  /\ w.rem < BLOCK_SIZE /\ w.off + w.rem > BLOCK_SIZE =>
       BlockOf(inode, q + 1) = BlockOf(inode, q) + 1
  /\ Covers(w.at, inode, start, n - w.rem)

Arrived(w, inode, start, n) ==
  w.done = TRUE /\ w.panic = FALSE /\ Covers(w.at, inode, start, n)

LEMMA FirstUnderway ==
  ASSUME NEW inode, NEW start \in Nat, NEW n \in Nat, ~Crosses(inode, start, n)
  PROVE  Underway(FirstStep(start, n), inode, start, n, start \div BLOCK_SIZE)
<1> PICK w, q, o : w = FirstStep(start, n) /\ q = start \div BLOCK_SIZE /\ o = start % BLOCK_SIZE
  OBVIOUS
<1>1. q \in Nat /\ o \in 0 .. (BLOCK_SIZE - 1) /\ start = q * BLOCK_SIZE + o
  BY BlockSizes, DivisionFacts
<1>2. w = [k |-> IF q >= DIRECT_BLOCKS THEN DIRECT_BLOCKS ELSE q,
           ind |-> IF q >= DIRECT_BLOCKS THEN q - DIRECT_BLOCKS ELSE 0,
           off |-> o, rem |-> n, at |-> <<>>, done |-> FALSE, panic |-> FALSE]
  BY DEF FirstStep
<1>3. n < BLOCK_SIZE /\ o + n > BLOCK_SIZE => BlockOf(inode, q + 1) = BlockOf(inode, q) + 1
  BY DEF Crosses
<1>4. Covers(<<>>, inode, start, 0)
  BY DEF Covers
<1>5. start + (n - n) = q * BLOCK_SIZE + o /\ n - n = 0
  BY <1>1
<1>6. Underway(w, inode, start, n, q)
  BY <1>1, <1>2, <1>3, <1>4, <1>5 DEF Underway
<1> QED BY <1>6

\* What the walk may be asked for: bytes that the inode has.
Within(inode, start, n) ==
  n > 0 => /\ start + n <= (DIRECT_BLOCKS + PER_INDIRECT) * BLOCK_SIZE
           /\ \A p \in start .. (start + n - 1) : BlockOf(inode, p \div BLOCK_SIZE) \in Nat

\* Byte r of block o of the file.
InBlock(b, r) == b * BLOCK_SIZE + r

LEMMA FileByte ==
  ASSUME NEW inode, NEW start \in Nat, NEW n \in Nat, Within(inode, start, n), n > 0,
         NEW o \in Nat, NEW r \in 0 .. (BLOCK_SIZE - 1), NEW p \in start .. (start + n - 1),
         p = InBlock(o, r)
  PROVE  /\ BlockOf(inode, o) \in Nat
         /\ AddressOf(inode, p) = InBlock(BlockOf(inode, o), r)
<1>1. p \div BLOCK_SIZE = o /\ p % BLOCK_SIZE = r
  BY ByteInBlock DEF InBlock
<1>2. BlockOf(inode, p \div BLOCK_SIZE) \in Nat
  BY DEF Within
<1>3. BlockOf(inode, o) \in Nat
  BY <1>1, <1>2
<1>4. AddressOf(inode, p) = BlockOf(inode, p \div BLOCK_SIZE) * BLOCK_SIZE + (p % BLOCK_SIZE)
  BY DEF AddressOf
<1> QED BY ONLY <1>1, <1>3, <1>4 DEF InBlock

\* Multiples.
LEMMA Multiples ==
  ASSUME NEW B \in Nat, NEW q \in Nat
  PROVE  q * B \in Nat /\ (q + 1) * B \in Nat /\ (q + 1) * B = q * B + B
<1>1. q * B \in Nat /\ (q + 1) * B \in Nat
  BY TimesOrdered
<1>2. (q + 1) * B = q * B + B
  OBVIOUS
<1> QED BY <1>1, <1>2

LEMMA MultiplesOrdered ==
  ASSUME NEW B \in Nat \ {0}, NEW q \in Nat, NEW p \in Nat, q * B <= p * B
  PROVE  q <= p
<1>1. p + 1 <= q => (p + 1) * B <= q * B
  <2>1. B \in Nat /\ p + 1 \in Nat
    OBVIOUS
  <2> QED BY <2>1, TimesOrdered
<1>2. (p + 1) * B = p * B + B /\ p * B \in Nat /\ q * B \in Nat
  BY Multiples
<1> PICK x, y : x = p * B /\ y = q * B
  OBVIOUS
<1>3. x \in Nat /\ y \in Nat /\ y <= x /\ (p + 1 <= q => x + B <= y)
  BY <1>1, <1>2
<1> QED BY <1>3

\* x is the walk w after one more step.
Walked(x, w, q, b, m) ==
  /\ DOMAIN x = {"k", "ind", "off", "rem", "at", "done", "panic"}
  /\ x.k = (IF q >= DIRECT_BLOCKS /\ w.ind < PER_INDIRECT THEN w.k ELSE w.k + 1)
  /\ x.ind = (IF q >= DIRECT_BLOCKS THEN w.ind + 1 ELSE w.ind)
  /\ x.off = 0 /\ x.rem = w.rem - m /\ x.at = w.at \o Addresses(b, w.off, m)
  /\ x.panic = FALSE

LEMMA WalkRound ==
  ASSUME NEW inode, NEW start \in Nat, NEW n \in Nat, NEW q \in Nat,
         NEW w, Underway(w, inode, start, n, q), NEW x, x = WalkStep(inode, w)
  PROVE  /\ Walked(x, w, q, BlockOf(inode, q), Piece(w))
         /\ w.rem < BLOCK_SIZE => x.done = TRUE
         /\ ~(w.rem < BLOCK_SIZE) => x.done = FALSE
<1> PICK D, b, m : D = DIRECT_BLOCKS /\ b = BlockOf(inode, q) /\ m = Piece(w)
  OBVIOUS
<1>1. D \in Nat \ {0}
  BY BlockSizes
<1>2. /\ w.done = FALSE /\ w.panic = FALSE /\ w.rem \in 0 .. n
      /\ w.k = (IF q >= D THEN D ELSE q) /\ w.ind = (IF q >= D THEN q - D ELSE 0)
  BY DEF Underway
<1>3. (w.k = D) <=> q >= D
  BY <1>1, <1>2
<1>4. ~(w.k > D)
  BY <1>1, <1>2
<1>5. b = IF w.k = D THEN Pointer(inode.blocks[w.k], w.ind) ELSE inode.blocks[w.k]
  <2>1. CASE q >= D
    <3>1. ~(q < D)
      BY <2>1, <1>1
    <3>2. b = Pointer(inode.blocks[D], q - D)
      BY <3>1 DEF BlockOf
    <3> QED BY <3>2, <2>1, <1>2
  <2>2. CASE ~(q >= D)
    <3>1. q < D
      BY <2>2, <1>1
    <3>2. b = inode.blocks[q]
      BY <3>1 DEF BlockOf
    <3> QED BY <3>2, <2>2, <1>2, <1>3
  <2> QED BY <2>1, <2>2
<1>6. x = [k |-> IF w.k = D /\ w.ind < PER_INDIRECT THEN w.k ELSE w.k + 1,
           ind |-> IF w.k = D THEN w.ind + 1 ELSE w.ind,
           off |-> 0, rem |-> w.rem - m, at |-> w.at \o Addresses(b, w.off, m),
           done |-> w.rem < BLOCK_SIZE, panic |-> FALSE]
  BY <1>2, <1>4, <1>5 DEF WalkStep
<1> PICK d : d = (w.rem < BLOCK_SIZE)
  OBVIOUS
<1>7. x = [k |-> IF q >= D /\ w.ind < PER_INDIRECT THEN w.k ELSE w.k + 1,
           ind |-> IF q >= D THEN w.ind + 1 ELSE w.ind,
           off |-> 0, rem |-> w.rem - m, at |-> w.at \o Addresses(b, w.off, m),
           done |-> d, panic |-> FALSE]
  BY <1>3, <1>6
<1>8. Walked(x, w, q, b, m) /\ x.done = d
  BY ONLY <1>7, D = DIRECT_BLOCKS DEF Walked
<1>9. CASE w.rem < BLOCK_SIZE
  <2>1. (w.rem < BLOCK_SIZE) = TRUE
    BY <1>2, <1>9, BlockSizes
  <2>2. d = TRUE
    BY ONLY <2>1, d = (w.rem < BLOCK_SIZE), Zenon
  <2> QED BY ONLY <2>2, <1>8, <1>9, b = BlockOf(inode, q), m = Piece(w)
<1>10. CASE ~(w.rem < BLOCK_SIZE)
  <2>1. (w.rem < BLOCK_SIZE) = FALSE
    BY <1>2, <1>10, BlockSizes
  <2>2. d = FALSE
    BY ONLY <2>1, d = (w.rem < BLOCK_SIZE), Zenon
  <2> QED BY ONLY <2>2, <1>8, <1>10, b = BlockOf(inode, q), m = Piece(w)
<1> QED BY <1>9, <1>10

\* The bytes of a step.
LEMMA PieceLies ==
  ASSUME NEW inode, NEW start \in Nat, NEW n \in Nat, Within(inode, start, n), NEW q \in Nat,
         NEW w, Underway(w, inode, start, n, q), NEW b, b = BlockOf(inode, q),
         NEW m, m = Piece(w), NEW j \in 1 .. m
  PROVE  /\ b * BLOCK_SIZE + w.off + j - 1 \in Nat
         /\ b * BLOCK_SIZE + w.off + j - 1 = AddressOf(inode, start + (n - w.rem) + j - 1)
<1> PICK B, off, left, Q : B = BLOCK_SIZE /\ Q = q * B /\ off = w.off /\ left = w.rem
  OBVIOUS
<1>1. B \in Nat \ {0}
  BY BlockSizes
<1>2. left \in 0 .. n /\ off \in 0 .. (B - 1) /\ start + (n - left) = Q + off
  BY DEF Underway
<1>3. left < B /\ off + left > B => BlockOf(inode, q + 1) = b + 1
  BY DEF Underway
<1>4. m = IF left < B THEN left ELSE B - off
  BY DEF Piece
<1>5. Q \in Nat /\ (q + 1) * B = Q + B /\ q + 1 \in Nat
  BY <1>1, Multiples
<1>6. m \in 0 .. left
  BY <1>1, <1>2, <1>4
<1> PICK p, r : r = off + j - 1 /\ p = Q + r
  OBVIOUS
<1>7. r \in Nat /\ p \in Nat /\ j \in Nat /\ left \in Nat
  BY <1>1, <1>2, <1>5, <1>6
<1>8. /\ start + (n - left) + j - 1 = p /\ p \in start .. (start + n - 1) /\ n > 0
      /\ Q + off \in start .. (start + n - 1)
  BY <1>1, <1>2, <1>5, <1>6
<1>9. b \in Nat
  BY <1>1, <1>2, <1>8, FileByte DEF InBlock
<1> PICK U : U = b * B
  OBVIOUS
<1>10. U \in Nat /\ (b + 1) * B = U + B
  BY <1>1, <1>9, Multiples
<1>11. U + off + j - 1 = U + r
  BY <1>2, <1>7, <1>10
<1>12. AddressOf(inode, p) = U + r
  <2>1. CASE r < B
    <3>1. r \in 0 .. (BLOCK_SIZE - 1) /\ p = InBlock(q, r)
      BY <2>1, <1>1, <1>7 DEF InBlock
    <3>2. AddressOf(inode, p) = InBlock(b, r)
      BY ONLY start \in Nat, n \in Nat, q \in Nat, b = BlockOf(inode, q),
              Within(inode, start, n), <3>1, <1>8, FileByte
    <3> QED BY <3>2 DEF InBlock
  <2>2. CASE ~(r < B)
    <3> PICK s : s = r - B
      OBVIOUS
    <3>1. s \in 0 .. (B - 1) /\ left < B /\ off + left > B
      BY <2>2, <1>1, <1>2, <1>4, <1>6, <1>7
    <3>2. p = (q + 1) * B + s /\ U + r = (b + 1) * B + s
      BY <3>1, <1>1, <1>5, <1>7, <1>10
    <3>3. BlockOf(inode, q + 1) = b + 1
      BY <3>1, <1>3
    <3>4. s \in 0 .. (BLOCK_SIZE - 1) /\ p = InBlock(q + 1, s)
      BY <3>1, <3>2 DEF InBlock
    <3>5. AddressOf(inode, p) = InBlock(BlockOf(inode, q + 1), s)
      BY ONLY start \in Nat, n \in Nat, Within(inode, start, n), <3>4, <1>5, <1>8,
              FileByte
    <3> QED BY <3>2, <3>3, <3>5 DEF InBlock
  <2> QED BY <2>1, <2>2
<1>13. b * BLOCK_SIZE + w.off + j - 1 = U + r
  BY <1>11
<1>14. AddressOf(inode, start + (n - w.rem) + j - 1) = AddressOf(inode, p)
  BY <1>8
<1>15. U + r \in Nat
  BY <1>7, <1>10
<1> QED BY <1>12, <1>13, <1>14, <1>15

\* What is left after a step that is not the last.
LEMMA PieceLeaves ==
  ASSUME NEW B \in Nat \ {0}, NEW start \in Nat, NEW n \in Nat, NEW Q \in Nat,
         NEW off \in 0 .. (B - 1), NEW left \in 0 .. n, start + (n - left) = Q + off,
         NEW m, m = IF left < B THEN left ELSE B - off, NEW more, more = left - m
  PROVE  /\ m \in Nat /\ n - left \in Nat /\ (left < B => (n - left) + m = n)
         /\ ~(left < B) => /\ more \in 0 .. n /\ start + (n - more) = Q + B
                           /\ (n - left) + m = n - more
                           /\ Q + B <= start + n /\ n > 0
OBVIOUS

LEMMA WalkOn ==
  ASSUME NEW inode, NEW start \in Nat, NEW n \in Nat, Within(inode, start, n), NEW q \in Nat,
         NEW w, Underway(w, inode, start, n, q), NEW x, x = WalkStep(inode, w)
  PROVE  \/ Arrived(x, inode, start, n)
         \/ Underway(x, inode, start, n, q + 1) /\ q < DIRECT_BLOCKS + PER_INDIRECT
<1>0. PICK B, D, P, b, m, off, left, Q, more :
       /\ B = BLOCK_SIZE /\ D = DIRECT_BLOCKS /\ P = PER_INDIRECT /\ Q = q * B
       /\ b = BlockOf(inode, q) /\ m = Piece(w) /\ off = w.off /\ left = w.rem
       /\ more = left - m
  OBVIOUS
<1>1. B \in Nat \ {0} /\ D \in Nat \ {0} /\ P \in Nat \ {0}
  BY <1>0, BlockSizes
<1>2. left \in 0 .. n /\ off \in 0 .. (B - 1) /\ start + (n - left) = Q + off
  BY <1>0 DEF Underway
<1>3. /\ w.k = (IF q >= D THEN D ELSE q) /\ w.ind = (IF q >= D THEN q - D ELSE 0)
      /\ Covers(w.at, inode, start, n - left)
  BY <1>0 DEF Underway
<1>4. m = IF left < B THEN left ELSE B - off
  BY <1>0 DEF Piece
<1>5. Q \in Nat /\ (q + 1) * B = Q + B /\ q + 1 \in Nat
  BY <1>0, <1>1, Multiples
<1>6. /\ m \in Nat /\ n - left \in Nat /\ (left < B => (n - left) + m = n)
      /\ ~(left < B) => /\ more \in 0 .. n /\ start + (n - more) = Q + B
                        /\ (n - left) + m = n - more
                        /\ Q + B <= start + n /\ n > 0
  <2>1. more = left - m
    BY <1>0
  <2> QED BY ONLY start \in Nat, n \in Nat, <2>1, <1>1, <1>2, <1>4, <1>5, PieceLeaves
<1>7. Covers(w.at \o Addresses(b, off, m), inode, start, (n - left) + m)
  <2>1. \A j \in 1 .. m :
          /\ b * BLOCK_SIZE + off + j - 1 \in Nat
          /\ b * BLOCK_SIZE + off + j - 1 = AddressOf(inode, start + (n - left) + j - 1)
    BY <1>0, PieceLies
  <2> QED BY ONLY <2>1, <1>3, <1>6, start \in Nat, CoversMore
<1>8. Walked(x, w, q, b, m) /\ (left < B => x.done = TRUE) /\ (~(left < B) => x.done = FALSE)
  BY <1>0, WalkRound
<1>9. CASE left < B
  <2>1. x.done = TRUE /\ x.panic = FALSE /\ x.at = w.at \o Addresses(b, off, m)
    BY <1>0, <1>8, <1>9 DEF Walked
  <2> QED BY <2>1, <1>6, <1>7, <1>9 DEF Arrived
<1>10. CASE ~(left < B)
  <2>2. /\ x.rem = more /\ x.done = FALSE /\ x.panic = FALSE /\ x.off = 0
        /\ DOMAIN x = {"k", "ind", "off", "rem", "at", "done", "panic"}
        /\ x.at = w.at \o Addresses(b, off, m)
        /\ x.k = (IF q >= D /\ w.ind < P THEN w.k ELSE w.k + 1)
        /\ x.ind = (IF q >= D THEN w.ind + 1 ELSE w.ind)
    BY ONLY <1>0, <1>8, <1>10 DEF Walked
  <2>3. Covers(x.at, inode, start, n - x.rem)
    BY <2>2, <1>6, <1>7, <1>10
  <2>4. start + (n - x.rem) = (q + 1) * B + x.off
    <3>1. start + (n - more) = Q + B /\ Q + B = Q + B + 0
      BY <1>1, <1>5, <1>6, <1>10
    <3> QED BY <3>1, <2>2, <1>5
  <2>5. q + 1 <= D + P
    <3>0. PICK T : T = (D + P) * B
      OBVIOUS
    <3>1. start + n <= T
      BY <3>0, <1>0, <1>6, <1>10 DEF Within
    <3>2. D + P \in Nat /\ T \in Nat
      BY <3>0, <1>1, Multiples
    <3>3. Q + B <= T
      BY <3>1, <3>2, <1>1, <1>5, <1>6, <1>10
    <3>4. (q + 1) * B <= (D + P) * B
      BY <3>0, <3>3, <1>5
    <3> QED BY <3>2, <3>4, <1>1, <1>5, MultiplesOrdered
  <2>6. /\ x.k = (IF q + 1 >= D THEN D ELSE q + 1)
        /\ x.ind = (IF q + 1 >= D THEN q + 1 - D ELSE 0)
    <3>1. CASE q >= D
      <4>1. w.ind = q - D /\ w.k = D /\ q - D < P
        BY <3>1, <2>5, <1>1, <1>3
      <4>2. x.k = D /\ x.ind = q - D + 1
        BY <4>1, <3>1, <2>2
      <4>3. q + 1 >= D /\ q - D + 1 = q + 1 - D
        BY <3>1, <1>1
      <4> QED BY <4>2, <4>3
    <3>2. CASE ~(q >= D)
      <4>1. w.ind = 0 /\ w.k = q
        BY <3>2, <1>3
      <4>2. x.k = q + 1 /\ x.ind = 0
        BY <4>1, <3>2, <2>2
      <4>3. (q + 1 >= D => q + 1 = D /\ q + 1 - D = 0)
        BY <3>2, <1>1
      <4> QED BY <4>2, <4>3
    <3> QED BY <3>1, <3>2
  <2>7. ~(x.rem < B /\ x.off + x.rem > B) /\ x.off \in 0 .. (B - 1) /\ x.rem \in 0 .. n
    BY <2>2, <1>1, <1>6, <1>10
  <2>8. Underway(x, inode, start, n, q + 1)
    <3>0. PICK nx : nx = q + 1
      OBVIOUS
    <3>1. /\ x.rem \in 0 .. n /\ x.off \in 0 .. (BLOCK_SIZE - 1)
          /\ start + (n - x.rem) = nx * BLOCK_SIZE + x.off
      BY <1>0, <2>4, <2>7, <3>0
    <3>9. D = DIRECT_BLOCKS
      BY <1>0
    <3>2. /\ x.k = (IF nx >= DIRECT_BLOCKS THEN DIRECT_BLOCKS ELSE nx)
          /\ x.ind = (IF nx >= DIRECT_BLOCKS THEN nx - DIRECT_BLOCKS ELSE 0)
      BY ONLY <3>9, <2>6, <3>0, <1>1, q \in Nat
    <3>3. x.rem < BLOCK_SIZE /\ x.off + x.rem > BLOCK_SIZE =>
            BlockOf(inode, nx + 1) = BlockOf(inode, nx) + 1
      BY ONLY <1>0, <2>7
    <3>4. Underway(x, inode, start, n, nx)
      BY ONLY <2>2, <2>3, <3>1, <3>2, <3>3 DEF Underway
    <3> QED BY ONLY <3>0, <3>4
  <2> QED BY <1>0, <2>5, <2>8, <1>1
<1> QED BY <1>9, <1>10

\* A walk ends, without a panic, with the bytes it was asked for.
LEMMA WalkFacts ==
  ASSUME NEW inode, NEW start \in Nat, NEW n \in Nat, Within(inode, start, n),
         ~Crosses(inode, start, n), NEW w, w = Walk(inode, start, n)
  PROVE  w.panic = FALSE /\ Covers(w.at, inode, start, n)
<1> PICK most, q : most = DIRECT_BLOCKS + PER_INDIRECT + 2 /\ q = start \div BLOCK_SIZE
  OBVIOUS
<1>0. q \in Nat
  BY BlockSizes, DivisionFacts
<1>1. most \in Nat /\ q \in Nat
  BY <1>0, BlockSizes
<1>2. PICK g : Steps("walk", inode, 0, 0, FirstStep(start, n), most, g) /\ w = g[most]
  BY WalkSteps
<1>3. g[0] = FirstStep(start, n) /\ \A r \in 0 .. (most - 1) : g[r + 1] = WalkStep(inode, g[r])
  <2>1. /\ g[0] = FirstStep(start, n)
        /\ \A r \in 0 .. (most - 1) : g[r + 1] = Step("walk", inode, 0, 0, g[r], r)
    BY <1>1, <1>2, StepsFacts
  <2> QED BY <2>1 DEF Step
<1> DEFINE S == {r \in 0 .. most :
             \/ Arrived(g[r], inode, start, n)
             \/ /\ Underway(g[r], inode, start, n, q + r)
                /\ r > 0 => q + r <= DIRECT_BLOCKS + PER_INDIRECT}
<1>4. 0 \in S
  <2>1. Underway(g[0], inode, start, n, q)
    BY <1>3, FirstUnderway
  <2>2. q + 0 = q
    BY <1>1
  <2> QED BY <2>1, <2>2, <1>1
<1>5. ASSUME NEW r \in 0 .. (most - 1), r \in S PROVE r + 1 \in S
  <2>1. g[r + 1] = WalkStep(inode, g[r]) /\ r + 1 \in 0 .. most
    BY <1>1, <1>3
  <2>2. CASE Arrived(g[r], inode, start, n)
    <3>1. g[r + 1] = g[r]
      BY <2>1, <2>2 DEF Arrived, WalkStep
    <3> QED BY <3>1, <2>1, <2>2
  <2>3. CASE Underway(g[r], inode, start, n, q + r)
    <3>1. q + r \in Nat /\ (q + r) + 1 = q + (r + 1)
      BY <1>1
    <3>2. \/ Arrived(g[r + 1], inode, start, n)
          \/ /\ Underway(g[r + 1], inode, start, n, q + (r + 1))
             /\ q + r < DIRECT_BLOCKS + PER_INDIRECT
      BY <3>1, <2>1, <2>3, WalkOn
    <3>3. q + r < DIRECT_BLOCKS + PER_INDIRECT => q + (r + 1) <= DIRECT_BLOCKS + PER_INDIRECT
      BY <1>1, BlockSizes
    <3> QED BY <3>2, <3>3, <2>1
  <2> QED BY <1>5, <2>2, <2>3
<1> HIDE DEF S
<1>6. \A r \in 0 .. most : r \in S
  BY <1>1, <1>4, <1>5, CountUp
<1>7. most \in S
  BY <1>1, <1>6
<1>8. most > 0 /\ ~(q + most <= DIRECT_BLOCKS + PER_INDIRECT)
  BY <1>1, BlockSizes
<1>9. Arrived(g[most], inode, start, n)
  BY <1>7, <1>8 DEF S
<1> QED BY <1>2, <1>9 DEF Arrived

-----------------------------------------------------------------------------
(* Where the bytes of files lie.                                           *)

\* Each file has each of its blocks once, and no more than the walk reaches.
Plain(d) ==
  \A n \in TheFiles :
    /\ GetInode(d, n).size <= (DIRECT_BLOCKS + PER_INDIRECT) * BLOCK_SIZE
    /\ \A k, l \in Nat :
         /\ k * BLOCK_SIZE < GetInode(d, n).size /\ l * BLOCK_SIZE < GetInode(d, n).size
         /\ BlockOf(GetInode(d, n), k) = BlockOf(GetInode(d, n), l)
         => k = l

SoundDisk(d) == DiskSound(d) /\ Plain(d) /\ DOMAIN d.disk = 0 .. (blocks_count * BLOCK_SIZE - 1)

LEMMA SizeIsNat ==
  ASSUME NEW d, DiskSound(d), NEW n \in TheFiles
  PROVE  GetInode(d, n) \in Inodes /\ GetInode(d, n).size \in Nat
<1>1. InodeAt(n) \in DOMAIN Image.inode /\ d.inode \in [DOMAIN Image.inode -> Inodes]
  BY FilesAssumption DEF DiskSound
<1>2. GetInode(d, n) \in Inodes
  BY <1>1 DEF GetInode
<1>3. 0 .. (WORD - 1) \subseteq Nat
  OBVIOUS
<1> QED BY <1>2, <1>3 DEF Inodes

\* Byte p of a file.
LEMMA BytesLie ==
  ASSUME NEW d, DiskSound(d), NEW n \in TheFiles, NEW inode, inode = GetInode(d, n),
         NEW p \in 0 .. (inode.size - 1), NEW k, k = p \div BLOCK_SIZE,
         NEW a, a = AddressOf(inode, p)
  PROVE  /\ k \in Nat /\ k * BLOCK_SIZE <= p /\ k * BLOCK_SIZE < inode.size
         /\ BlockOf(inode, k) \in BlocksIn(d, n) /\ BlockOf(inode, k) \in d.bits
         /\ BlockOf(inode, k) \in Nat
         /\ a \in 0 .. (blocks_count * BLOCK_SIZE - 1)
         /\ a \div BLOCK_SIZE = BlockOf(inode, k) /\ a % BLOCK_SIZE = p % BLOCK_SIZE
<1>0. PICK B, b, o, Q, N : B = BLOCK_SIZE /\ b = BlockOf(inode, k) /\ o = p % BLOCK_SIZE
                           /\ Q = k * BLOCK_SIZE /\ N = blocks_count
  OBVIOUS
<1>1. B \in Nat \ {0} /\ N \in Nat
  BY <1>0, ImageAssumptions DEF ImageAssumption
<1>2. inode.size \in Nat
  BY SizeIsNat
<1>3. p \in Nat /\ p < inode.size
  BY <1>2
<1>4. k \in Nat /\ o \in 0 .. (B - 1) /\ p = Q + o
  BY <1>0, <1>1, <1>3, DivisionFacts
<1>5. Q \in Nat
  BY <1>0, <1>1, <1>4, Multiples
<1>6. Q <= p /\ Q < inode.size
  BY <1>1, <1>2, <1>3, <1>4, <1>5
<1>7. b \in BlocksIn(d, n)
  <2>1. GetInode(d, n).size \in Nat /\ k * BLOCK_SIZE < GetInode(d, n).size
    BY <1>0, <1>2, <1>6
  <2>2. \E l \in Nat : l * BLOCK_SIZE < GetInode(d, n).size /\ b = BlockOf(GetInode(d, n), l)
    BY <2>1, <1>0, <1>4
  <2> QED BY <2>1, <2>2, BlocksAre
<1>8. b \in d.bits /\ b \in 0 .. (N - 1)
  BY <1>0, <1>7 DEF DiskSound, Numbers
<1>9. b \in Nat /\ b + 1 <= N
  BY <1>1, <1>8
<1>10. a = b * BLOCK_SIZE + o
  BY <1>0 DEF AddressOf
<1>11. a \in Nat /\ a \div BLOCK_SIZE = b /\ a % BLOCK_SIZE = o
  <2>1. o \in 0 .. (BLOCK_SIZE - 1)
    BY <1>0, <1>4
  <2> QED BY <2>1, <1>9, <1>10, ByteInBlock
<1>12. a \in 0 .. (N * B - 1)
  <2>0. PICK U, V : U = b * B /\ V = N * B
    OBVIOUS
  <2>1. U \in Nat /\ (b + 1) * B = U + B /\ V \in Nat
    BY <2>0, <1>1, <1>9, Multiples
  <2>2. (b + 1) * B <= N * B
    <3>1. b + 1 \in Nat /\ B \in Nat
      BY <1>1, <1>9
    <3> QED BY <3>1, <1>1, <1>9, TimesOrdered
  <2>3. U + B <= V
    BY <2>0, <2>1, <2>2
  <2>4. a = U + o
    BY <1>0, <1>10, <2>0
  <2>5. a \in 0 .. (V - 1)
    BY <2>1, <2>3, <2>4, <1>1, <1>4
  <2> QED BY <2>0, <2>5
<1> QED BY <1>0, <1>4, <1>6, <1>7, <1>8, <1>9, <1>11, <1>12

\* No two bytes of files lie in the same place.
LEMMA BytesApart ==
  ASSUME NEW d, DiskSound(d), Plain(d), NEW n \in TheFiles, NEW o \in TheFiles,
         NEW p \in 0 .. (GetInode(d, n).size - 1), NEW q \in 0 .. (GetInode(d, o).size - 1),
         AddressOf(GetInode(d, n), p) = AddressOf(GetInode(d, o), q)
  PROVE  n = o /\ p = q
<1>0. PICK k, l, x, y : /\ k = p \div BLOCK_SIZE /\ l = q \div BLOCK_SIZE
                        /\ x = GetInode(d, n) /\ y = GetInode(d, o)
  OBVIOUS
<1>1. /\ k \in Nat /\ k * BLOCK_SIZE < x.size
      /\ BlockOf(x, k) \in BlocksIn(d, n)
      /\ AddressOf(x, p) \div BLOCK_SIZE = BlockOf(x, k)
      /\ AddressOf(x, p) % BLOCK_SIZE = p % BLOCK_SIZE
  BY <1>0, BytesLie
<1>2. /\ l \in Nat /\ l * BLOCK_SIZE < y.size
      /\ BlockOf(y, l) \in BlocksIn(d, o)
      /\ AddressOf(y, q) \div BLOCK_SIZE = BlockOf(y, l)
      /\ AddressOf(y, q) % BLOCK_SIZE = q % BLOCK_SIZE
  BY <1>0, BytesLie
<1>3. BlockOf(x, k) = BlockOf(y, l) /\ p % BLOCK_SIZE = q % BLOCK_SIZE
  BY <1>0, <1>1, <1>2
<1>4. n = o
  BY <1>1, <1>2, <1>3 DEF DiskSound
<1>5. k = l
  BY <1>0, <1>1, <1>2, <1>3, <1>4 DEF Plain
<1>6. p = q
  <2>1. p \in Nat /\ q \in Nat
    BY SizeIsNat
  <2>2. p = (p \div BLOCK_SIZE) * BLOCK_SIZE + (p % BLOCK_SIZE)
        /\ q = (q \div BLOCK_SIZE) * BLOCK_SIZE + (q % BLOCK_SIZE)
    BY <2>1, BlockSizes, DivisionFacts
  <2> QED BY <2>2, <1>0, <1>3, <1>5
<1> QED BY <1>4, <1>6

\* The walk may be asked for the bytes of a file.
LEMMA WithinFile ==
  ASSUME NEW d, DiskSound(d), Plain(d), NEW n \in TheFiles, NEW start \in Nat, NEW cnt \in Nat,
         cnt > 0 => start + cnt <= GetInode(d, n).size
  PROVE  Within(GetInode(d, n), start, cnt)
<1>0. PICK x, length, most : /\ x = GetInode(d, n) /\ length = x.size
                           /\ most = (DIRECT_BLOCKS + PER_INDIRECT) * BLOCK_SIZE
  OBVIOUS
<1>1. length \in Nat
  BY <1>0, SizeIsNat
<1>2. length <= most
  BY <1>0 DEF Plain
<1>3. most \in Nat
  <2>1. DIRECT_BLOCKS + PER_INDIRECT \in Nat
    BY BlockSizes
  <2> QED BY <2>1, <1>0, BlockSizes, Multiples
<1>4. cnt > 0 => start + cnt <= most
  BY <1>0, <1>1, <1>2, <1>3
<1>5. ASSUME cnt > 0, NEW p \in start .. (start + cnt - 1)
      PROVE  BlockOf(x, p \div BLOCK_SIZE) \in Nat
  <2>1. p \in 0 .. (length - 1)
    BY <1>0, <1>1, <1>5
  <2> QED BY <2>1, <1>0, BytesLie
<1> QED BY <1>0, <1>4, <1>5 DEF Within

-----------------------------------------------------------------------------
(* What a write does to the bytes of files.                                *)

LEMMA NoGrowth ==
  ASSUME NEW d, DiskSound(d), NEW n \in TheFiles
  PROVE  FileGrown(d, d, n, GetInode(d, n).size)
BY DEF FileGrown

LEMMA GrownPlain ==
  ASSUME NEW d, DiskSound(d), Plain(d), NEW n \in TheFiles, NEW e, NEW end \in Nat,
         FileGrown(d, e, n, end)
  PROVE  Plain(e)
<1>0. PICK x, y : x = GetInode(d, n) /\ y = GetInode(e, n)
  OBVIOUS
<1>1. \A k \in Nat : k * BLOCK_SIZE < x.size => BlockOf(x, k) \in d.bits
  <2> TAKE k \in Nat
  <2>1. x.size \in Nat
    BY <1>0, SizeIsNat
  <2>2. k * BLOCK_SIZE < x.size => BlockOf(x, k) \in BlocksIn(d, n)
    BY <2>1, <1>0, BlocksAre
  <2> QED BY <2>2 DEF DiskSound
<1>2. \A k \in Nat : k * BLOCK_SIZE < end =>
        \/ k * BLOCK_SIZE < x.size /\ BlockOf(y, k) = BlockOf(x, k)
        \/ k = x.size \div BLOCK_SIZE /\ BlockOf(y, k) \notin d.bits
  BY <1>0 DEF FileGrown
<1>3. \A k, l \in Nat :
        k * BLOCK_SIZE < x.size /\ l * BLOCK_SIZE < x.size /\ BlockOf(x, k) = BlockOf(x, l) => k = l
  BY <1>0 DEF Plain
<1>4. ASSUME NEW k \in Nat, NEW l \in Nat, k * BLOCK_SIZE < end, l * BLOCK_SIZE < end,
             BlockOf(y, k) = BlockOf(y, l)
      PROVE  k = l
  BY ONLY <1>1, <1>2, <1>3, <1>4
<1>5. y.size = end /\ end <= (DIRECT_BLOCKS + PER_INDIRECT) * BLOCK_SIZE
  BY <1>0 DEF FileGrown, Plain
<1>6. ASSUME NEW o \in TheFiles, o # n PROVE GetInode(e, o) = GetInode(d, o)
  BY <1>6 DEF FileGrown
<1> QED BY <1>0, <1>4, <1>5, <1>6 DEF Plain

\* Other bytes on the disk, the same inodes.
LEMMA SoundDiskKeeps ==
  ASSUME NEW e, DiskSound(e), Plain(e), DOMAIN e.disk = 0 .. (blocks_count * BLOCK_SIZE - 1),
         NEW bytes, DOMAIN bytes = DOMAIN e.disk,
         NEW f, f = [e EXCEPT !.disk = bytes]
  PROVE  /\ SoundDisk(f) /\ f.disk = bytes
         /\ \A n : GetInode(f, n) = GetInode(e, n)
<1>1. f.inode = e.inode /\ f.disk = bytes
  BY DEF DiskSound
<1>2. DiskSound(f)
  BY OtherBytes
<1>3. \A n : GetInode(f, n) = GetInode(e, n)
  BY <1>1 DEF GetInode
<1>4. Plain(f)
  BY <1>3 DEF Plain
<1> QED BY <1>1, <1>2, <1>3, <1>4 DEF SoundDisk

\* The bytes from start on, n of them, are written.
Patched(s, start, n, byte) ==
  [k \in 1 .. (IF start + n > Len(s) THEN start + n ELSE Len(s)) |->
     IF k > start /\ k <= start + n THEN byte ELSE s[k]]

LEMMA HoldsFacts ==
  ASSUME NEW d, NEW inode, inode.size \in Nat
  PROVE  /\ Len(Holds(d, inode)) = inode.size
         /\ Holds(d, inode) \in Seq({d.disk[AddressOf(inode, j - 1)] : j \in 1 .. inode.size})
         /\ \A j \in 1 .. inode.size :
              Holds(d, inode)[j] = d.disk[AddressOf(inode, j - 1)]
<1> PICK length, S : length = inode.size
                   /\ S = {d.disk[AddressOf(inode, j - 1)] : j \in 1 .. inode.size}
  OBVIOUS
<1>1. Holds(d, inode) = [j \in 1 .. length |-> d.disk[AddressOf(inode, j - 1)]]
  BY DEF Holds
<1>2. \A j \in 1 .. length : d.disk[AddressOf(inode, j - 1)] \in S
  OBVIOUS
<1>3. Holds(d, inode) \in [1 .. length -> S]
  BY <1>1, <1>2
<1>4. Holds(d, inode) \in Seq(S) /\ Len(Holds(d, inode)) = length
  BY <1>3, length \in Nat
<1> QED BY <1>1, <1>4

\* The disk with those bytes.
Overwritten(d, at, byte) ==
  [d EXCEPT !.disk = [a \in DOMAIN @ |-> IF a \in Range(at) THEN byte ELSE @[a]]]

LEMMA WriteBytes ==
  ASSUME NEW d, SoundDisk(d), NEW n \in TheFiles, NEW start \in Nat, NEW cnt \in Nat,
         start <= GetInode(d, n).size,
         NEW end, end = IF start + cnt > GetInode(d, n).size THEN start + cnt
                        ELSE GetInode(d, n).size,
         NEW e, FileGrown(d, e, n, end), NEW at, Covers(at, GetInode(e, n), start, cnt), NEW byte,
         NEW f, f = Overwritten(e, at, byte)
  PROVE  /\ SoundDisk(f)
         /\ Content(f) = [Content(d) EXCEPT ![n] = Patched(@, start, cnt, byte)]
<1>0. PICK x, y, length, N : /\ x = GetInode(d, n) /\ y = GetInode(e, n) /\ length = x.size
                           /\ N = blocks_count * BLOCK_SIZE - 1
  OBVIOUS
<1> DEFINE bytes == [a \in DOMAIN e.disk |-> IF a \in Range(at) THEN byte ELSE e.disk[a]]
<1>1. DiskSound(d) /\ Plain(d) /\ DOMAIN d.disk = 0 .. N
  BY <1>0 DEF SoundDisk
<1>2. length \in Nat
  BY <1>0, <1>1, SizeIsNat
<1>3. end \in Nat /\ end >= length /\ (end = length \/ end = start + cnt) /\ start + cnt <= end
  BY <1>0, <1>2
<1>4. DiskSound(e) /\ Plain(e) /\ e.disk = d.disk /\ y.size = end
  BY <1>0, <1>1, <1>3, GrownPlain DEF FileGrown
<1>5. f = [e EXCEPT !.disk = bytes] /\ DOMAIN bytes = 0 .. N
  BY <1>1, <1>4 DEF DiskSound, Overwritten
<1>6. \A a \in 0 .. N : bytes[a] = IF a \in Range(at) THEN byte ELSE d.disk[a]
  BY <1>1, <1>4
<1> HIDE DEF bytes
<1>7. SoundDisk(f) /\ f.disk = bytes /\ \A o : GetInode(f, o) = GetInode(e, o)
  <2>1. DOMAIN e.disk = 0 .. (blocks_count * BLOCK_SIZE - 1) /\ DOMAIN bytes = DOMAIN e.disk
    BY <1>0, <1>1, <1>4, <1>5
  <2> QED BY ONLY <2>1, <1>4, <1>5, SoundDiskKeeps
\* Which bytes those are.
<1>8. ASSUME NEW o \in TheFiles, NEW p \in 0 .. (GetInode(e, o).size - 1)
      PROVE  /\ AddressOf(GetInode(e, o), p) \in 0 .. N
             /\ AddressOf(GetInode(e, o), p) \in Range(at) <=>
                  o = n /\ p \in start .. (start + cnt - 1)
  <2>0. PICK a : a = AddressOf(GetInode(e, o), p)
    OBVIOUS
  <2>1. a \in 0 .. N
    BY <2>0, <1>0, <1>4, BytesLie
  <2>2. /\ at \in Seq(Nat) /\ Len(at) = cnt
        /\ \A j \in 1 .. cnt : at[j] = AddressOf(y, start + j - 1)
    BY <1>0 DEF Covers
  <2>3. DOMAIN at = 1 .. cnt
    BY <2>2
  <2>4. ASSUME a \in Range(at) PROVE o = n /\ p \in start .. (start + cnt - 1)
    <3>1. PICK j \in 1 .. cnt : a = at[j]
      BY <2>3, <2>4 DEF Range
    <3>2. PICK q : q = start + j - 1
      OBVIOUS
    <3>3. q \in 0 .. (y.size - 1) /\ q \in start .. (start + cnt - 1)
      BY <3>2, <1>3, <1>4
    <3>4. a = AddressOf(y, q)
      BY <3>1, <3>2, <2>2
    <3>5. /\ q \in 0 .. (GetInode(e, n).size - 1)
          /\ AddressOf(GetInode(e, o), p) = AddressOf(GetInode(e, n), q)
      BY <3>3, <3>4, <2>0, <1>0
    <3>6. o = n /\ p = q
      BY ONLY <3>5, <1>4, n \in TheFiles, o \in TheFiles,
              p \in 0 .. (GetInode(e, o).size - 1), BytesApart
    <3> QED BY <3>3, <3>6
  <2>5. ASSUME o = n, p \in start .. (start + cnt - 1) PROVE a \in Range(at)
    <3>1. p - start + 1 \in 1 .. cnt /\ start + (p - start + 1) - 1 = p
      BY <2>5
    <3>2. at[p - start + 1] = AddressOf(y, start + (p - start + 1) - 1)
      BY <3>1, <2>2
    <3>3. at[p - start + 1] = a
      BY <3>1, <3>2, <2>0, <2>5, <1>0
    <3> QED BY <3>1, <3>3, <2>3 DEF Range
  <2> QED BY <2>0, <2>1, <2>4, <2>5
\* Another file.
<1>9. ASSUME NEW o \in TheFiles, o # n
      PROVE  Holds(f, GetInode(f, o)) = Holds(d, GetInode(d, o))
  <2>1. GetInode(f, o) = GetInode(d, o) /\ GetInode(e, o) = GetInode(d, o)
    BY <1>7, <1>9 DEF FileGrown
  <2>2. GetInode(d, o).size \in Nat
    BY <1>1, SizeIsNat
  <2>3. ASSUME NEW j \in 1 .. GetInode(d, o).size
        PROVE  f.disk[AddressOf(GetInode(d, o), j - 1)] = d.disk[AddressOf(GetInode(d, o), j - 1)]
    <3>1. j - 1 \in 0 .. (GetInode(e, o).size - 1)
      BY <2>1, <2>2
    <3>2. AddressOf(GetInode(d, o), j - 1) \in 0 .. N
          /\ AddressOf(GetInode(d, o), j - 1) \notin Range(at)
      BY <3>1, <2>1, <1>8, <1>9
    <3> QED BY <3>2, <1>6, <1>7
  <2> QED BY <2>1, <2>3 DEF Holds
\* This one.
<1>10. Holds(f, GetInode(f, n)) = Patched(Holds(d, GetInode(d, n)), start, cnt, byte)
  <2>1. Len(Holds(d, x)) = length /\ \A j \in 1 .. length :
          Holds(d, x)[j] = d.disk[AddressOf(x, j - 1)]
    BY <1>0, <1>2, HoldsFacts
  <2>2. end = IF start + cnt > Len(Holds(d, x)) THEN start + cnt ELSE Len(Holds(d, x))
    BY <2>1, <1>0
  <2>3. Patched(Holds(d, x), start, cnt, byte) =
          [k \in 1 .. end |-> IF k > start /\ k <= start + cnt THEN byte ELSE Holds(d, x)[k]]
    BY <2>2 DEF Patched
  <2>4. Holds(f, GetInode(f, n)) = [k \in 1 .. end |-> f.disk[AddressOf(y, k - 1)]]
    BY <1>0, <1>4, <1>7 DEF Holds
  <2>5. ASSUME NEW k \in 1 .. end
        PROVE  f.disk[AddressOf(y, k - 1)] =
                 IF k > start /\ k <= start + cnt THEN byte ELSE Holds(d, x)[k]
    <3>1. k - 1 \in 0 .. (GetInode(e, n).size - 1)
      BY <1>0, <1>3, <1>4
    <3>2. /\ AddressOf(y, k - 1) \in 0 .. N
          /\ AddressOf(y, k - 1) \in Range(at) <=> k - 1 \in start .. (start + cnt - 1)
      BY <3>1, <1>0, <1>8
    <3>3. CASE k > start /\ k <= start + cnt
      <4>1. k - 1 \in start .. (start + cnt - 1)
        BY <3>3
      <4> QED BY <4>1, <3>2, <3>3, <1>6, <1>7
    <3>4. CASE ~(k > start /\ k <= start + cnt)
      <4>1. ~(k - 1 \in start .. (start + cnt - 1))
        BY <3>4
      <4>2. f.disk[AddressOf(y, k - 1)] = d.disk[AddressOf(y, k - 1)]
        BY <4>1, <3>2, <1>6, <1>7
      <4>3. k \in 1 .. length /\ k - 1 < length
        BY <3>4, <1>0, <1>2, <1>3
      <4>4. AddressOf(y, k - 1) = AddressOf(x, k - 1)
        <5>0. PICK i : i = (k - 1) \div BLOCK_SIZE
          OBVIOUS
        <5>1. i \in Nat /\ i * BLOCK_SIZE <= k - 1 /\ i * BLOCK_SIZE < end
          BY <5>0, <3>1, <1>0, <1>4, BytesLie
        <5>2. \/ BlockOf(y, i) = BlockOf(x, i)
              \/ i * BLOCK_SIZE = length
          BY <5>1, <1>0 DEF FileGrown
        <5>3. i * BLOCK_SIZE \in Nat
          BY <5>1, BlockSizes, Multiples
        <5>4. i * BLOCK_SIZE # length
          BY <5>1, <5>3, <4>3, <1>2
        <5> QED BY <5>0, <5>2, <5>4 DEF AddressOf
      <4>5. f.disk[AddressOf(y, k - 1)] = Holds(d, x)[k]
        BY <4>2, <4>3, <4>4, <2>1
      <4> QED BY <4>5, <3>4
    <3> QED BY <3>3, <3>4
  <2>6. Holds(f, GetInode(f, n)) = Patched(Holds(d, x), start, cnt, byte)
    BY ONLY <2>3, <2>4, <2>5
  <2> QED BY <2>6, <1>0
<1>11. Content(f) = [Content(d) EXCEPT ![n] = Patched(@, start, cnt, byte)]
  BY <1>9, <1>10 DEF Content
<1> QED BY <1>7, <1>11

-----------------------------------------------------------------------------
(* The calls keep the promise of vfs.h.                                    *)

FilesInv == SoundDisk(fs) /\ files = Content(fs) /\ halted = FALSE

LEMMA RequestFacts ==
  /\ WORD \in Nat \ {0}
  /\ \A start \in Starts : start \in 0 .. (WORD - 1)
  /\ \A n \in Counts : n \in 0 .. (WORD - 1)
BY ImageAssumptions DEF ImageAssumption

LEMMA NotWrapped ==
  ASSUME NEW a \in Nat, NEW b \in Nat, a + b < WORD
  PROVE  (b + a) % WORD = a + b
<1> PICK t, W : t = a + b /\ W = WORD
  OBVIOUS
<1>1. W \in Nat \ {0}
  BY BlockSizes
<1>2. t \in 0 .. (W - 1)
  BY <1>1
<1>3. t % W = t
  BY <1>1, <1>2, ModuloFacts
<1>4. b + a = t
  OBVIOUS
<1> QED BY <1>3, <1>4

\* A file that a path names.
LEMMA NamedFile ==
  ASSUME NEW path \in Paths, Found(path)
  PROVE  Lookup[path] \in TheFiles
BY DEF Found, TheFiles

LEMMA ContentAt ==
  ASSUME NEW d, DiskSound(d), NEW n \in TheFiles
  PROVE  Content(d)[n] = Holds(d, GetInode(d, n)) /\ Len(Content(d)[n]) = GetInode(d, n).size
<1>1. Content(d)[n] = Holds(d, GetInode(d, n))
  BY DEF Content
<1>2. GetInode(d, n).size \in Nat
  BY SizeIsNat
<1> QED BY <1>1, <1>2, HoldsFacts

\* How many bytes a read returns.
LEMMA ClampFacts ==
  ASSUME NEW length \in Nat, NEW start \in Nat, NEW n \in Nat, NEW end \in Nat,
         end = start + n, end < WORD
  PROVE  LET c  == Clamp(length, start, n)
             hi == Store!FiSmaller(end, length)
         IN  /\ c \in Nat /\ (c > 0 => start + c <= length)
             /\ hi \in Nat /\ hi <= length
             /\ c = IF start + 1 <= hi THEN hi - start ELSE 0
<1>1. (n + start) % WORD = end
  BY NotWrapped
<1>2. Clamp(length, start, n) =
        IF length >= end THEN n ELSE IF start > length THEN 0 ELSE length - start
  BY <1>1 DEF Clamp
<1>3. Store!FiSmaller(end, length) = IF end < length THEN end ELSE length
  BY DEF Store!FiSmaller
<1> QED BY <1>2, <1>3

LEMMA PartOf ==
  ASSUME NEW s, NEW S, s \in Seq(S), NEW start \in Nat, NEW hi \in Nat, hi <= Len(s),
         NEW c, c = IF start + 1 <= hi THEN hi - start ELSE 0
  PROVE  SubSeq(s, start + 1, hi) = [j \in 1 .. c |-> s[start + j]]
<1>1. Len(s) \in Nat /\ \A i \in 1 .. Len(s) : s[i] \in S
  OBVIOUS
<1>2. \A i \in (start + 1) .. hi : s[i] \in S
  BY <1>1
<1>3. start + 1 \in Int /\ hi \in Int
  OBVIOUS
<1> PICK t, m : t = SubSeq(s, start + 1, hi) /\ m = start + 1
  OBVIOUS
<1>4. /\ t \in Seq(S) /\ Len(t) = IF m <= hi THEN hi - m + 1 ELSE 0
      /\ \A i \in 1 .. hi - m + 1 : t[i] = s[m + i - 1]
  BY <1>2, <1>3, SubSeqProperties
<1>5. c \in Nat /\ Len(t) = c
  BY <1>4
<1>6. ASSUME NEW j \in 1 .. c PROVE t[j] = s[start + j]
  <2>1. j \in 1 .. hi - m + 1 /\ m + j - 1 = start + j
    BY <1>5
  <2>2. t[j] = s[m + j - 1]
    BY <2>1, <1>4
  <2> QED BY <2>1, <2>2
<1>7. t = [j \in 1 .. c |-> t[j]]
  BY <1>4, <1>5
<1>8. t = [j \in 1 .. c |-> s[start + j]]
  BY <1>6, <1>7
<1> QED BY <1>8

\* A read returns the part of the file that was asked for.
LEMMA ReadKeepsPromise ==
  ASSUME FilesInv, NEW path \in Paths, NEW start \in Starts, NEW n \in Counts, Found(path),
         ReadServed(path, start, n), RawRead(path, start, n)
  PROVE  FilesInv' /\ Store!FiRead(path, start, n)
<1>0. PICK f, x, length, c, w, hi, s :
        /\ f = Lookup[path] /\ x = GetInode(fs, f) /\ length = x.size
        /\ c = Clamp(length, start, n) /\ w = Walk(x, start, c)
        /\ hi = Store!FiSmaller(start + n, length) /\ s = files[f]
  OBVIOUS
<1>1. f \in TheFiles
  BY <1>0, NamedFile
<1>2. start \in Nat /\ n \in Nat
  BY RequestFacts
<1>3. DiskSound(fs) /\ Plain(fs) /\ files = Content(fs)
  BY DEF FilesInv, SoundDisk
<1>4. length \in Nat
  BY <1>0, <1>1, <1>3, SizeIsNat
<1>5. start + n < WORD /\ ~Crosses(x, start, c)
  BY <1>0 DEF ReadServed
<1>6. /\ c \in Nat /\ (c > 0 => start + c <= length)
      /\ hi \in Nat /\ hi <= length
      /\ c = IF start + 1 <= hi THEN hi - start ELSE 0
  <2>0. PICK end : end = start + n
    OBVIOUS
  <2>1. /\ length \in Nat /\ start \in Nat /\ n \in Nat /\ end \in Nat
        /\ end = start + n /\ end < WORD
    BY ONLY <2>0, <1>2, <1>4, <1>5
  <2>2. c = Clamp(length, start, n) /\ hi = Store!FiSmaller(end, length)
    BY ONLY <2>0, <1>0
  <2> QED BY ONLY <2>1, <2>2, ClampFacts
<1>7. Within(x, start, c)
  BY <1>0, <1>1, <1>2, <1>3, <1>6, WithinFile
<1>8. w.panic = FALSE /\ Covers(w.at, x, start, c)
  BY <1>0, <1>2, <1>5, <1>6, <1>7, WalkFacts
<1>9. Deliver(w)
  BY <1>0 DEF RawRead
<1>10. /\ halted' = FALSE /\ fs' = fs /\ files' = files
       /\ reply' = [status |-> "FS_E_OK", data |-> [j \in DOMAIN w.at |-> fs.disk[w.at[j]]]]
  BY <1>8, <1>9 DEF Deliver
<1>11. s = Holds(fs, x) /\ Len(s) = length
  BY <1>0, <1>1, <1>3, ContentAt
<1>12. [j \in DOMAIN w.at |-> fs.disk[w.at[j]]] = SubSeq(s, start + 1, hi)
  <2> PICK S : S = {fs.disk[AddressOf(x, j - 1)] : j \in 1 .. x.size}
    OBVIOUS
  <2>0. x.size \in Nat
    BY ONLY <1>0, <1>4
  <2>a. /\ Holds(fs, x) \in Seq({fs.disk[AddressOf(x, j - 1)] : j \in 1 .. x.size})
        /\ \A j \in 1 .. x.size : Holds(fs, x)[j] = fs.disk[AddressOf(x, j - 1)]
    BY ONLY <2>0, HoldsFacts
  <2>1. s \in Seq(S) /\ \A j \in 1 .. length : s[j] = fs.disk[AddressOf(x, j - 1)]
    BY ONLY <1>0, <1>11, <2>a, S = {fs.disk[AddressOf(x, j - 1)] : j \in 1 .. x.size}
  <2>2. SubSeq(s, start + 1, hi) = [j \in 1 .. c |-> s[start + j]]
    BY <2>1, <1>2, <1>6, <1>11, PartOf
  <2>3. /\ w.at \in Seq(Nat) /\ Len(w.at) = c
        /\ \A j \in 1 .. c : w.at[j] = AddressOf(x, start + j - 1)
    BY <1>8 DEF Covers
  <2>4. DOMAIN w.at = 1 .. c
    BY <2>3
  <2>5. ASSUME NEW j \in 1 .. c PROVE fs.disk[w.at[j]] = s[start + j]
    <3>1. start + j \in 1 .. length /\ (start + j) - 1 = start + j - 1
      BY <1>2, <1>4, <1>6
    <3>2. s[start + j] = fs.disk[AddressOf(x, (start + j) - 1)]
      BY <3>1, <2>1
    <3> QED BY <3>1, <3>2, <2>3
  <2> QED BY ONLY <2>2, <2>4, <2>5
<1>13. FilesInv'
  BY <1>10 DEF FilesInv
<1>14. Store!FiRead(path, start, n)
  <2>1. path \in {p \in Paths : Found(p)}
    OBVIOUS
  <2>2. reply' = [status |-> "FS_E_OK",
                  data |-> SubSeq(files[Lookup[path]], start + 1,
                                  Store!FiSmaller(start + n, Len(files[Lookup[path]])))]
    BY <1>0, <1>10, <1>11, <1>12
  <2> QED BY <2>1, <2>2, <1>10 DEF Store!FiRead
<1> QED BY <1>13, <1>14

\* A write that the walk can do.
LEMMA OverwriteKeepsPromise ==
  ASSUME FilesInv, NEW path \in Paths, NEW start \in Nat, NEW n \in Nat, NEW byte, Found(path),
         start <= GetInode(fs, Lookup[path]).size,
         NEW g, g.panic = FALSE,
         FileGrown(fs, g.fs, Lookup[path],
                   IF start + n > GetInode(fs, Lookup[path]).size THEN start + n
                   ELSE GetInode(fs, Lookup[path]).size),
         ~Crosses(GetInode(g.fs, Lookup[path]), start, n),
         Overwrite(g, Walk(GetInode(g.fs, Lookup[path]), start, n), n, byte)
  PROVE  FilesInv' /\ Store!FiWrite(path, start, n, byte)
<1>0. PICK f, e, y, w, length, end, s :
        /\ f = Lookup[path] /\ e = g.fs /\ y = GetInode(e, f) /\ w = Walk(y, start, n)
        /\ length = GetInode(fs, f).size
        /\ end = IF start + n > length THEN start + n ELSE length
        /\ s = files[f]
  OBVIOUS
<1>1. f \in TheFiles
  BY <1>0, NamedFile
<1>2. DiskSound(fs) /\ Plain(fs) /\ SoundDisk(fs) /\ files = Content(fs)
  BY DEF FilesInv, SoundDisk
<1>3. length \in Nat /\ start <= length
  BY <1>0, <1>1, <1>2, SizeIsNat
<1>4. FileGrown(fs, e, f, end) /\ end \in Nat /\ start + n <= end
  BY <1>0, <1>3
<1>5. DiskSound(e) /\ Plain(e) /\ GetInode(e, f).size = end
  BY <1>1, <1>2, <1>4, GrownPlain DEF FileGrown
<1>6. Within(y, start, n)
  BY <1>0, <1>1, <1>4, <1>5, WithinFile
<1>7. w.panic = FALSE /\ Covers(w.at, y, start, n)
  BY <1>0, <1>6, WalkFacts
<1>8. Overwrite(g, w, n, byte)
  BY <1>0
<1>9. /\ halted' = FALSE /\ reply' = [status |-> "FS_E_OK", count |-> n]
      /\ fs' = [e EXCEPT !.disk =
                  [a \in DOMAIN @ |-> IF a \in Range(w.at) THEN byte ELSE @[a]]]
      /\ files' = Content(fs')
  BY <1>0, <1>7, <1>8 DEF Overwrite
<1>10. SoundDisk(fs') /\ Content(fs') = [Content(fs) EXCEPT ![f] = Patched(@, start, n, byte)]
  <2>0. PICK d : d = fs'
    OBVIOUS
  <2>1. /\ SoundDisk(fs) /\ f \in TheFiles /\ start \in Nat /\ n \in Nat
        /\ start <= GetInode(fs, f).size
        /\ end = IF start + n > GetInode(fs, f).size THEN start + n ELSE GetInode(fs, f).size
        /\ FileGrown(fs, e, f, end) /\ Covers(w.at, GetInode(e, f), start, n)
    BY ONLY <1>0, <1>1, <1>2, <1>3, <1>4, <1>7, start \in Nat, n \in Nat
  <2>2. d = Overwritten(e, w.at, byte)
    BY ONLY <2>0, <1>9 DEF Overwritten
  <2>3. SoundDisk(d) /\ Content(d) = [Content(fs) EXCEPT ![f] = Patched(@, start, n, byte)]
    BY ONLY <2>1, <2>2, WriteBytes
  <2> QED BY ONLY <2>0, <2>3
<1>11. FilesInv'
  BY <1>9, <1>10 DEF FilesInv
<1>12. f \in DOMAIN files
  BY <1>1, <1>2 DEF Content
<1>13. files' = [files EXCEPT ![f] = Patched(s, start, n, byte)]
  BY <1>0, <1>2, <1>9, <1>10, <1>12
<1>14. start <= Len(s)
  BY <1>0, <1>1, <1>2, <1>3, ContentAt
<1>15. Store!FiWrite(path, start, n, byte)
  <2>1. path \in {p \in Paths : Found(p)}
    OBVIOUS
  <2> QED BY <2>1, <1>0, <1>9, <1>13, <1>14 DEF Store!FiWrite, Patched
<1> QED BY <1>11, <1>15

\* The same blocks are crossed into.
LEMMA CrossesAlike ==
  ASSUME NEW x, NEW y, NEW start, NEW n, \A k : BlockOf(y, k) = BlockOf(x, k),
         ~Crosses(x, start, n)
  PROVE  ~Crosses(y, start, n)
BY DEF Crosses

\* A write that is served.
LEMMA WriteKeepsPromise ==
  ASSUME FilesInv, NEW path \in Paths, NEW start \in Starts, NEW n \in Counts, NEW byte,
         Found(path), WriteServed(path, start, n), RawWrite(path, start, n, byte)
  PROVE  FilesInv' /\ Store!FiWrite(path, start, n, byte)
<1>0. PICK f, x, length, end, num, i :
        /\ f = Lookup[path] /\ x = GetInode(fs, f) /\ length = x.size
        /\ end = (n + start) % WORD /\ num = BlocksNeeded(length, end - length)
        /\ i = InodeAt(f)
  OBVIOUS
<1>1. f \in TheFiles
  BY <1>0, NamedFile
<1>2. start \in Nat /\ n \in Nat
  BY RequestFacts
<1>3. DiskSound(fs)
  BY DEF FilesInv, SoundDisk
<1>4. length \in Nat
  BY <1>0, <1>1, <1>3, SizeIsNat
<1>5. start <= length /\ start + n < WORD /\ ~Crosses(x, start, n)
  BY <1>0 DEF WriteServed
<1>6. end = start + n /\ end \in Nat
  <2>1. (n + start) % WORD = start + n
    BY <1>2, <1>5, NotWrapped
  <2> QED BY <2>1, <1>0, <1>2
<1>7. end > length =>
        \/ num = 0
        \/ /\ num = 1 /\ length % BLOCK_SIZE = 0 /\ Clear(fs) # {}
           /\ length \div BLOCK_SIZE < DIRECT_BLOCKS
           /\ n < BLOCK_SIZE => (start % BLOCK_SIZE) + n <= BLOCK_SIZE
  <2>1. start + n - length = end - length
    BY ONLY <1>2, <1>4, <1>6
  <2>2. start + n > length =>
          \/ num = 0
          \/ /\ num = 1 /\ length % BLOCK_SIZE = 0 /\ Clear(fs) # {}
             /\ length \div BLOCK_SIZE < DIRECT_BLOCKS
             /\ n < BLOCK_SIZE => (start % BLOCK_SIZE) + n <= BLOCK_SIZE
    BY ONLY <1>0, <2>1, WriteServed(path, start, n) DEF WriteServed
  <2> QED BY ONLY <2>2, <1>6
<1>8. fs.inode[i] = x
  BY <1>0 DEF GetInode
<1>9. \/ /\ length >= end
         /\ \E g : /\ g = [fs |-> fs, panic |-> FALSE]
                   /\ Overwrite(g, Walk(g.fs.inode[i], start, n), n, byte)
      \/ /\ ~(length >= end)
         /\ \E g : /\ g = Increase(fs, i, end - length)
                   /\ Overwrite(g, Walk(g.fs.inode[i], start, n), n, byte)
  BY <1>0, <1>5, <1>8 DEF RawWrite
<1>10. ASSUME NEW g, g.panic = FALSE, NEW to, FileGrown(fs, g.fs, f, to),
              to = (IF start + n > length THEN start + n ELSE length),
              ~Crosses(GetInode(g.fs, f), start, n),
              Overwrite(g, Walk(g.fs.inode[i], start, n), n, byte)
       PROVE  FilesInv' /\ Store!FiWrite(path, start, n, byte)
  <2>1. g.fs.inode[i] = GetInode(g.fs, Lookup[path])
    BY <1>0 DEF GetInode
  <2>2. start <= GetInode(fs, Lookup[path]).size
    BY <1>0, <1>5
  <2>3. FileGrown(fs, g.fs, Lookup[path],
                  IF start + n > GetInode(fs, Lookup[path]).size THEN start + n
                  ELSE GetInode(fs, Lookup[path]).size)
    BY <1>0, <1>10
  <2>4. ~Crosses(GetInode(g.fs, Lookup[path]), start, n)
    BY <1>0, <1>10
  <2>5. Overwrite(g, Walk(GetInode(g.fs, Lookup[path]), start, n), n, byte)
    BY <2>1, <1>10
  <2> QED BY <1>2, <1>10, <2>2, <2>3, <2>4, <2>5, OverwriteKeepsPromise
<1>11. CASE /\ length >= end
            /\ \E g : /\ g = [fs |-> fs, panic |-> FALSE]
                      /\ Overwrite(g, Walk(g.fs.inode[i], start, n), n, byte)
  <2>1. PICK g : /\ g = [fs |-> fs, panic |-> FALSE]
                 /\ Overwrite(g, Walk(g.fs.inode[i], start, n), n, byte)
    BY <1>11
  <2>2. g.fs = fs /\ g.panic = FALSE
    BY <2>1
  <2>3. FileGrown(fs, g.fs, f, length)
    BY <1>0, <1>1, <1>3, <2>2, NoGrowth
  <2>4. length = IF start + n > length THEN start + n ELSE length
    BY <1>2, <1>4, <1>6, <1>11
  <2> QED BY <1>0, <1>5, <2>1, <2>2, <2>3, <2>4, <1>10
<1>12. CASE /\ ~(length >= end)
            /\ \E g : /\ g = Increase(fs, i, end - length)
                      /\ Overwrite(g, Walk(g.fs.inode[i], start, n), n, byte)
  <2>1. PICK g : /\ g = Increase(fs, i, end - length)
                 /\ Overwrite(g, Walk(g.fs.inode[i], start, n), n, byte)
    BY <1>12
  <2>2. end > length
    BY <1>4, <1>6, <1>12
  <2>3. g.panic = FALSE /\ FileGrown(fs, g.fs, f, end)
    <3>1. start <= GetInode(fs, f).size /\ GetInode(fs, f).size < (n + start) % WORD
      BY <1>0, <1>5, <2>2
    <3>2. BlocksNeeded(GetInode(fs, f).size, start + n - GetInode(fs, f).size) = num
      <4>1. start + n - length = end - length
        BY ONLY <1>2, <1>4, <1>6
      <4> QED BY ONLY <4>1, <1>0
    <3>3. \/ num = 0
          \/ /\ num = 1 /\ GetInode(fs, f).size % BLOCK_SIZE = 0 /\ Clear(fs) # {}
             /\ GetInode(fs, f).size \div BLOCK_SIZE < DIRECT_BLOCKS
      BY <1>0, <1>7, <2>2
    <3>4. LET g2 == Increase(fs, InodeAt(f), ((n + start) % WORD) - GetInode(fs, f).size)
          IN  g2.panic = FALSE /\ FileGrown(fs, g2.fs, f, (n + start) % WORD)
      BY <1>1, <1>3, <3>1, <3>2, <3>3, ServedGrowth
    <3> QED BY <3>4, <2>1, <1>0
  <2>4. ~Crosses(GetInode(g.fs, f), start, n)
    <3>1. CASE num = 0
      <4>1. \A k : BlockOf(GetInode(g.fs, f), k) = BlockOf(x, k)
        BY <3>1, <1>0, <2>3 DEF FileGrown
      <4> QED BY <4>1, <1>5, CrossesAlike
    <3>2. CASE n < BLOCK_SIZE => (start % BLOCK_SIZE) + n <= BLOCK_SIZE
      <4>1. PICK o : o = start % BLOCK_SIZE
        OBVIOUS
      <4>2. o \in Nat /\ BLOCK_SIZE \in Nat
        BY <4>1, <1>2, BlockSizes, ModuloFacts
      <4> QED BY <3>2, <4>1, <4>2, <1>2 DEF Crosses
    <3> QED BY <3>1, <3>2, <2>2, <1>7
  <2>5. end = IF start + n > length THEN start + n ELSE length
    BY <1>6, <2>2
  <2> QED BY <2>1, <2>3, <2>4, <2>5, <1>10
<1> QED BY <1>9, <1>11, <1>12

\* What get_file_size answers.
LEMMA SizeKeepsPromise ==
  ASSUME FilesInv, NEW path \in Paths, path.slash, FileSize(path)
  PROVE  FilesInv' /\ Store!FiSize(path)
<1>1. FilesInv' /\ UNCHANGED files
  BY DEF FilesInv, FileSize
<1>2. CASE Lookup[path] = 0
  BY <1>1, <1>2 DEF FileSize, Store!FiSize, Found
<1>3. CASE Lookup[path] # 0
  <2>1. path \in {p \in Paths : Found(p)} /\ Lookup[path] \in TheFiles
    BY <1>3, NamedFile DEF Found
  <2>2. DiskSound(fs) /\ files = Content(fs)
    BY DEF FilesInv, SoundDisk
  <2>3. Len(files[Lookup[path]]) = GetInode(fs, Lookup[path]).size
    BY <2>1, <2>2, ContentAt
  <2>4. reply' = [status |-> "SIZE", count |-> Len(files[Lookup[path]])]
    BY <1>3, <2>3 DEF FileSize
  <2> QED BY <1>1, <2>1, <2>4 DEF Store!FiSize
<1> QED BY <1>2, <1>3

LEMMA FailKeepsPromise ==
  ASSUME FilesInv, NEW path \in Paths, Fails(path)
  PROVE  FilesInv' /\ Store!FiFails(path)
<1>1. FilesInv' /\ UNCHANGED files /\ path \notin {p \in Paths : Found(p)}
  BY DEF FilesInv, Fails
<1>2. reply' \in [status : {"FS_E_NOFILE", "FS_E_NOT_FQN"}, count : {0}]
  BY DEF Fails
<1> QED BY <1>1, <1>2 DEF Store!FiFails

LEMMA FilesStep ==
  ASSUME ~AnyRequest
  PROVE  FilesInv /\ [FsNext]_fsVars => FilesInv' /\ [Store!FiNext]_<<files, reply>>
<1> SUFFICES ASSUME FilesInv, [FsNext]_fsVars
             PROVE  FilesInv' /\ [Store!FiNext]_<<files, reply>>
  OBVIOUS
<1>1. CASE UNCHANGED fsVars
  BY <1>1 DEF fsVars, FilesInv
<1>2. ASSUME NEW path \in Paths, Fails(path) PROVE FilesInv' /\ Store!FiNext
  BY <1>2, FailKeepsPromise DEF Store!FiNext
<1>3. ASSUME NEW path \in Paths, path.slash, FileSize(path) PROVE FilesInv' /\ Store!FiNext
  BY <1>3, SizeKeepsPromise DEF Store!FiNext
<1>4. ASSUME NEW path \in Paths, NEW start \in Starts, NEW n \in Counts, Found(path),
             ReadServed(path, start, n), RawRead(path, start, n)
      PROVE  FilesInv' /\ Store!FiNext
  BY <1>4, ReadKeepsPromise DEF Store!FiNext
<1>5. ASSUME NEW path \in Paths, NEW start \in Starts, NEW n \in Counts, Found(path),
             WriteServed(path, start, n), NEW byte \in Bytes, RawWrite(path, start, n, byte)
      PROVE  FilesInv' /\ Store!FiNext
  BY <1>5, WriteKeepsPromise DEF Store!FiNext
<1>6. CASE FsNext
  BY <1>2, <1>3, <1>4, <1>5, <1>6 DEF FsNext
<1> QED BY <1>1, <1>6

\* At first.
LEMMA FilesAtFirst ==
  ASSUME SparedImage, PlainImage, FsInit
  PROVE  FilesInv /\ Store!FiInit
<1>1. DiskSound(fs)
  BY SparedSound
<1>2. fs.inode = Image.inode /\ fs.disk = Image.disk /\ files = Content(fs) /\ halted = FALSE
      /\ reply = [status |-> "NONE"]
  BY DEF FsInit
<1>3. DOMAIN fs.disk = 0 .. (blocks_count * BLOCK_SIZE - 1)
  BY <1>2, ImageAssumptions DEF ImageAssumption
<1>4. Plain(fs)
  <2> SUFFICES ASSUME NEW n \in TheFiles
               PROVE  /\ GetInode(fs, n).size <= (DIRECT_BLOCKS + PER_INDIRECT) * BLOCK_SIZE
                      /\ \A k, l \in Nat :
                           /\ k * BLOCK_SIZE < GetInode(fs, n).size
                           /\ l * BLOCK_SIZE < GetInode(fs, n).size
                           /\ BlockOf(GetInode(fs, n), k) = BlockOf(GetInode(fs, n), l)
                           => k = l
    BY DEF Plain
  <2>0. PICK x : x = GetInode(fs, n)
    OBVIOUS
  <2>1. GetInode(Image, n) = x
    BY <2>0, <1>2 DEF GetInode
  <2>2. x.size \in Nat
    BY <2>0, <1>1, SizeIsNat
  <2>3. /\ x.size <= (DIRECT_BLOCKS + PER_INDIRECT) * BLOCK_SIZE
        /\ \A k, l \in 0 .. (BlockCount(x.size) - 1) : BlockOf(x, k) = BlockOf(x, l) => k = l
    BY <2>1 DEF PlainImage
  <2>4. ASSUME NEW k \in Nat, NEW l \in Nat, k * BLOCK_SIZE < x.size, l * BLOCK_SIZE < x.size,
               BlockOf(x, k) = BlockOf(x, l)
        PROVE  k = l
    <3>1. k \in 0 .. (BlockCount(x.size) - 1) /\ l \in 0 .. (BlockCount(x.size) - 1)
      BY <2>2, <2>4, BlockInFile
    <3> QED BY ONLY <3>1, <2>3, <2>4
  <2> QED BY <2>0, <2>3, <2>4
<1>5. FilesInv
  BY <1>1, <1>2, <1>3, <1>4 DEF FilesInv, SoundDisk
<1> QED BY <1>2, <1>5 DEF Store!FiInit

\* While callers ask for what the code serves, the calls keep the promise of vfs.h
\* (raw_read and raw_write, vfs.c, over the walks of read_ext2.c:425-522 and
\* write_ext2.c:200-293), on every image whose files the code can walk over: a read
\* returns the part of the file that was asked for, with what was written there last;
\* a write that begins in a file or at its end replaces or adds just the bytes it was
\* given, and no byte of another file, whichever blocks they lie in.
THEOREM FilesAlwaysKept ==
  ASSUME ~AnyRequest, SparedImage, PlainImage
  PROVE  FsSpec => FilesKept
<1>1. FsInit => FilesInv /\ Store!FiInit
  BY FilesAtFirst
<1>2. FilesInv /\ [FsNext]_fsVars => FilesInv' /\ [Store!FiNext]_<<files, reply>>
  BY FilesStep
<1> QED BY <1>1, <1>2, PTL DEF FsSpec, FilesKept, Store!FiSpec
=============================================================================
