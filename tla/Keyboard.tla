------------------------------ MODULE Keyboard ------------------------------
(***************************************************************************)
(* Keyboard input of the text console (c_io.c): scan codes become          *)
(* characters in a circular buffer, in the interrupt or, when interrupts   *)
(* are disabled, in the reader itself; c_getchar and c_gets take them out. *)
(* The interrupt can fall between any two steps of a reader that runs with *)
(* interrupts enabled.                                                     *)
(*                                                                         *)
(* A character is <<key, shift, ctrl>>: the key, the table it was looked   *)
(* up in, and whether the control mask was applied.                        *)
(***************************************************************************)
EXTENDS Integers, Sequences

CONSTANTS
  C_BUFSIZE,    \* cells of the buffer
  Keys,         \* keys: "d", "enter" and others; "none" has no character
  LineSizes,    \* what c_gets is called with
  MaxCodes      \* bound: scan codes that arrive

ASSUME KeyboardAssumption == C_BUFSIZE \in Nat \ {0, 1} /\ LineSizes \subseteq Nat

VARIABLES
  ring, next_char, next_space,  \* __c_input_buffer and its two pointers
  shift, ctrl,                  \* the static variables of the decoder
  codes,                        \* how many scan codes arrived
  rpc, enabled, c,              \* the reader, its interrupt flag, its character
  room, text, ended,            \* c_gets: size, the buffer, why it ended
  taken,                        \* history: characters given to readers
  queued,                     \* history: what the abstract queue took
  echoed,                       \* history: the characters echoed
  opening                       \* history: Len(taken) when c_gets was called

keyVars == <<ring, next_char, next_space, shift, ctrl, codes, rpc, enabled, c,
             room, text, ended, taken, queued, echoed, opening>>
readerVars == <<next_char, rpc, enabled, c, room, text, ended, taken, echoed,
                opening>>

__c_increment(p) == IF p + 1 >= C_BUFSIZE THEN 0 ELSE p + 1

\* Control-D, and a newline: the mask leaves a newline what it is.
IsEOT(ch) == ch[1] = "d" /\ ch[3]
IsNewline(ch) == ch[1] = "enter"

\* Of a sequence of characters, those that are echoed and stored.
WithoutEOT(s) ==
  LET kept[k \in 0 .. Len(s)] ==
        IF k = 0 THEN <<>>
        ELSE IF IsEOT(s[k]) THEN kept[k - 1] ELSE Append(kept[k - 1], s[k])
  IN  kept[Len(s)]

KeyInit ==
  /\ ring = [k \in 0 .. C_BUFSIZE - 1 |-> <<"zero", FALSE, FALSE>>]
  /\ next_char = 0 /\ next_space = 0
  /\ shift = FALSE /\ ctrl = FALSE /\ codes = 0
  /\ rpc = "idle" /\ enabled = TRUE /\ c = <<"zero", FALSE, FALSE>>
  /\ room = 0 /\ text = <<>> /\ ended = ""
  /\ taken = <<>> /\ queued = <<>> /\ echoed = <<>> /\ opening = 0

----------------------------------------------------------------------------
\* __c_input_scan_code.

HasSpace_Always(next) == TRUE
HasSpace(next) == next # next_char

\* The two shift keys and the control key, pressed and released.
Modifier ==
  /\ \E s, d \in BOOLEAN :
       /\ (s = shift) # (d = ctrl)
       /\ shift' = s /\ ctrl' = d
  /\ UNCHANGED <<ring, next_space, queued>>

\* Any other key is released: nothing happens.
Released == UNCHANGED <<ring, next_space, shift, ctrl, queued>>

\* A key is pressed.  The test that is meant to drop keys without a character
\* compares 255 with -1: they are stored too.
KeyPressed(k) ==
  LET next == __c_increment(next_space)
      ch == <<k, shift, ctrl>>
  IN /\ IF HasSpace(next)
        THEN ring' = [ring EXCEPT ![next_space] = ch] /\ next_space' = next
        ELSE UNCHANGED <<ring, next_space>>
     /\ queued' = IF Len(queued) - Len(taken) < C_BUFSIZE - 1
                    THEN Append(queued, ch) ELSE queued
     /\ UNCHANGED <<shift, ctrl>>

__c_input_scan_code ==
  /\ codes < MaxCodes /\ codes' = codes + 1
  /\ Modifier \/ Released \/ \E k \in Keys : KeyPressed(k)

__c_keyboard_isr ==
  /\ rpc = "idle" \/ enabled
  /\ __c_input_scan_code
  /\ UNCHANGED readerVars

----------------------------------------------------------------------------
\* c_gets, and c_getchar inside it.

c_gets ==
  /\ rpc = "idle" /\ codes < MaxCodes
  /\ \E size \in LineSizes, i \in BOOLEAN : room' = size /\ enabled' = i
  /\ text' = <<>> /\ ended' = "" /\ opening' = Len(taken)
  /\ rpc' = "line"
  /\ UNCHANGED <<ring, next_char, next_space, shift, ctrl, codes, c, taken,
                 queued, echoed>>

\* The buffer is full: the terminator is stored.
LineFull ==
  /\ rpc = "line" /\ room <= 1
  /\ ended' = "full" /\ rpc' = "idle"
  /\ UNCHANGED <<ring, next_char, next_space, shift, ctrl, codes, enabled, c,
                 room, text, taken, queued, echoed, opening>>

\* c_getchar waits; with interrupts disabled it reads the scan codes itself.
Poll ==
  /\ rpc = "line" /\ room > 1 /\ next_char = next_space /\ ~enabled
  /\ __c_input_scan_code
  /\ UNCHANGED readerVars

\* There is a character: it is read; the pointer is moved later.
Fetch ==
  /\ rpc = "line" /\ room > 1 /\ next_char # next_space
  /\ c' = ring[next_char] /\ rpc' = "taken"
  /\ UNCHANGED <<ring, next_char, next_space, shift, ctrl, codes, enabled, room,
                 text, ended, taken, queued, echoed, opening>>

\* c_getchar moves the pointer, echoes and returns; c_gets stores and counts.
Keep ==
  /\ rpc = "taken"
  /\ next_char' = __c_increment(next_char)
  /\ taken' = Append(taken, c)
  /\ IF IsEOT(c) THEN UNCHANGED <<echoed, text, room>>
     ELSE /\ echoed' = Append(echoed, c)
          /\ text' = Append(text, c) /\ room' = room - 1
  /\ ended' = CASE IsEOT(c) -> "eot" [] IsNewline(c) -> "newline" [] OTHER -> ""
  /\ rpc' = IF ended' = "" THEN "line" ELSE "idle"
  /\ UNCHANGED <<ring, next_space, shift, ctrl, codes, enabled, c, queued,
                 opening>>

KeyNext == __c_keyboard_isr \/ c_gets \/ LineFull \/ Poll \/ Fetch \/ Keep

KeySpec == KeyInit /\ [][KeyNext]_keyVars

\* c_input_queue: the distance between the pointers.
c_input_queue ==
  IF next_space < next_char THEN next_space - next_char + C_BUFSIZE
  ELSE next_space - next_char

----------------------------------------------------------------------------
\* Properties.

\* The characters that wait in the buffer, in the order of the pointers.
Waiting ==
  [k \in 1 .. c_input_queue |-> ring[(next_char + k - 1) % C_BUFSIZE]]

\* What was typed and fitted is what was taken and what waits; a character that
\* the reader holds and has not released is still the first of these.
RingInOrder ==
  /\ queued = taken \o Waiting
  /\ rpc = "taken" => c = queued[Len(taken) + 1]

\* Readers get the keys in the order in which they were typed, each once, for
\* every place where the interrupt can fall: a key is dropped only when the
\* buffer holds all it can, and one that was taken but not yet released is not
\* overwritten.  A line that c_gets returns is what was typed since it was
\* called, up to a newline, control-D or the size (c_io.c:570-687).
KeysInOrder ==
  /\ RingInOrder
  /\ echoed = WithoutEOT(taken)
  /\ LET got == SubSeq(taken, opening + 1, Len(taken))
     IN /\ text = WithoutEOT(got)
        /\ \A k \in DOMAIN got :
             (IsEOT(got[k]) \/ IsNewline(got[k])) => k = Len(got) /\ rpc = "idle"

\* "Ignore undefined scan codes." (c_io.c:608): no key without a character is
\* ever in the buffer.  The code stores them.
OnlyDefinedKeys == \A k \in DOMAIN queued : queued[k][1] # "none"
=============================================================================
