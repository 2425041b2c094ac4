----------------------------- MODULE Allocator -----------------------------
(***************************************************************************)
(* What a memory allocator promises its callers, who take turns: a call    *)
(* for n words is answered with a block of at least n words that lies in   *)
(* the arena and has no word in common with any block held at that time.   *)
(* How the allocator finds it, and how much of the arena it wastes on its  *)
(* own records, is not said here.                                          *)
(***************************************************************************)
EXTENDS Integers

CONSTANTS
  Low, High,  \* the arena: addresses Low .. High - 1
  Requests    \* the numbers of words that callers ask for

VARIABLES
  held,       \* the blocks in the hands of callers, as <<address, length>>
  asked       \* the call that has not been answered yet, if any

Nothing == -1

AllocatorInit == held = {} /\ asked = Nothing

Apart(b, c) == b[1] + b[2] <= c[1] \/ c[1] + c[2] <= b[1]

Ask ==
  /\ asked = Nothing
  /\ \E n \in Requests : asked' = n
  /\ UNCHANGED held

Answer ==
  /\ asked # Nothing
  /\ \E a \in Low .. High, n \in 0 .. (High - Low) :
       /\ n >= asked
       /\ a + n <= High
       /\ \A b \in held : Apart(<<a, n>>, b)
       /\ held' = held \cup {<<a, n>>}
  /\ asked' = Nothing

Release ==
  /\ asked = Nothing
  /\ \E b \in held : held' = held \ {b}
  /\ UNCHANGED asked

AllocatorNext == Ask \/ Answer \/ Release

AllocatorSpec == AllocatorInit /\ [][AllocatorNext]_<<held, asked>>
=============================================================================
