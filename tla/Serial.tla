------------------------------- MODULE Serial -------------------------------
(***************************************************************************)
(* The buffers of the serial line (sio.c), which Processes knows only by   *)
(* the number of characters they hold.                                     *)
(*                                                                         *)
(* Input: _isr_sio stores characters at _inlast, _sio_readc takes them     *)
(* from _innext; both pointers only grow and return to the start of the    *)
(* buffer when it becomes empty.  Output: _sio_writec and _sio_writes      *)
(* store at _outlast, the transmitter interrupt takes from _outnext.       *)
(* _sys_read is the only caller of these routines in the kernel; the       *)
(* output side and its two entry points are an interface without a user.   *)
(*                                                                         *)
(* A pointer is an offset into its buffer.  The cells from BUF_SIZE on are *)
(* not part of the buffer: they stand for the variables that the linker    *)
(* puts behind it.                                                         *)
(***************************************************************************)
EXTENDS Integers, Sequences, SequencesExt

CONSTANTS
  BUF_SIZE,
  Received,   \* the characters that come in; CR has been mapped to LF
  Written,    \* the characters given to _sio_writec
  LF, CR,     \* "\n", "\r"
  Blocks,     \* the buffers given to _sio_writes
  MaxIn,      \* bound: characters received
  MaxOut      \* bound: characters written

SerialAssumption ==
  /\ BUF_SIZE \in Nat \ {0}
  /\ {MaxIn, MaxOut} \subseteq Nat
  /\ LF # CR
  /\ \A s \in Blocks : s # <<>> /\ s \in Seq(Range(s))

ASSUME SerialAssumptions == SerialAssumption

VARIABLES
  inbuffer, inlast, innext, incount,
  waiting,    \* how many processes stand in _reading
  accepted,   \* history: characters not ignored, as they came
  delivered,  \* history: characters given to processes
  outbuffer, outlast, outnext, outcount,
  sending,    \* _sending
  ier,        \* _ier: which interrupts are enabled, of "RX" and "TX"
  written,    \* history: characters the routines have taken to be sent
  line        \* history: characters sent

inVars  == <<inbuffer, inlast, innext, incount, waiting, accepted, delivered>>
outVars == <<outbuffer, outlast, outnext, outcount, sending, ier, written,
             line>>
serVars    == <<inVars, outVars>>

\* Memory as far as the bounds let the pointers get.
Cells(bound) == 0 .. (BUF_SIZE + bound)

\* _sio_init leaves both interrupts off; _init enables the receiver when all
\* else is ready.
SerInit ==
  /\ inbuffer = [i \in Cells(MaxIn) |-> "zero"]
  /\ inlast = 0 /\ innext = 0 /\ incount = 0
  /\ waiting = 0
  /\ accepted = <<>> /\ delivered = <<>>
  /\ outbuffer = [i \in 0 .. (BUF_SIZE - 1) |-> "zero"]
  /\ outlast = 0 /\ outnext = 0 /\ outcount = 0
  /\ sending = FALSE
  /\ ier = {}
  /\ written = <<>> /\ line = <<>>

_sio_enable(which) == ier' = ier \cup {which}

_sio_disable(which) == ier' = ier \ {which}

\* The end of _init.
InputEnabled ==
  /\ "RX" \notin ier
  /\ _sio_enable("RX")
  /\ UNCHANGED <<inVars, outbuffer, outlast, outnext, outcount, sending,
                 written, line>>

-----------------------------------------------------------------------------
(* Input.                                                                  *)

\* The process that waits longest gets the character.
HandOver(c) ==
  /\ "RX" \in ier
  /\ waiting > 0
  /\ Len(accepted) < MaxIn                             \* bound
  /\ waiting'   = waiting - 1
  /\ accepted'  = Append(accepted, c)
  /\ delivered' = Append(delivered, c)
  /\ UNCHANGED <<inbuffer, inlast, innext, incount, outVars>>

\* Nobody waits, and the count says that there is room.
HasRoom == incount < BUF_SIZE

Buffer(c) ==
  /\ "RX" \in ier
  /\ waiting = 0
  /\ HasRoom
  /\ Len(accepted) < MaxIn                             \* bound
  /\ inbuffer' = [inbuffer EXCEPT ![inlast] = c]
  /\ inlast'   = inlast + 1
  /\ incount'  = incount + 1
  /\ accepted' = Append(accepted, c)
  /\ UNCHANGED <<innext, waiting, delivered, outVars>>

\* The reset when the last character is taken; `n' is what is left.
Rewind_Next(n) ==                       \* resets one pointer: LineInOrder
  /\ innext' = IF n < 1 THEN 0 ELSE innext + 1
  /\ UNCHANGED inlast

Rewind(n) ==
  /\ innext' = IF n < 1 THEN 0 ELSE innext + 1
  /\ inlast' = IF n < 1 THEN 0 ELSE inlast

\* _sys_read with a character in the buffer (_sio_readc).
ReadChar ==
  /\ incount > 0
  /\ delivered' = Append(delivered, inbuffer[innext])
  /\ incount' = incount - 1
  /\ Rewind(incount - 1)
  /\ UNCHANGED <<inbuffer, waiting, accepted, outVars>>

InputEmpty == incount = 0

\* _sys_read without one: the process waits.
ReadWaits ==
  /\ InputEmpty
  /\ waiting < MaxIn                                   \* bound
  /\ waiting' = waiting + 1
  /\ UNCHANGED <<inbuffer, inlast, innext, incount, accepted, delivered,
                 outVars>>

-----------------------------------------------------------------------------
(* Output.                                                                 *)

OnLine(c) == IF c = LF THEN <<CR, LF>> ELSE <<c>>

\* Store the characters s from `outlast' on, in a straight line.
Straight(s) ==
  /\ outbuffer' = [i \in DOMAIN outbuffer |->
                     IF i \in outlast .. (outlast + Len(s) - 1)
                       THEN s[i - outlast + 1] ELSE outbuffer[i]]
  /\ outlast'  = outlast + Len(s)
  /\ outcount' = outcount + Len(s)

\* _sending = 1; the transmitter interrupt is enabled.
StartSending_Not == sending' = TRUE /\ UNCHANGED ier   \* OutputDrains

StartSending == sending' = TRUE /\ _sio_enable("TX")

\* The characters s fit behind `outlast'.  _sio_writec does not look: to call
\* it otherwise is the caller's mistake.
Fits(s) ==
  /\ outlast + Len(s) < BUF_SIZE
  /\ outcount + Len(s) <= BUF_SIZE

\* _sio_writec: it stores while it sends; otherwise the first character goes
\* out at once.
WriteChar(c) ==
  LET s == OnLine(c) IN
  /\ Fits(s)
  /\ Len(written) + Len(s) <= MaxOut                   \* bound
  /\ IF sending
       THEN Straight(s) /\ UNCHANGED line
       ELSE Straight(Tail(s)) /\ line' = Append(line, Head(s))
  /\ StartSending
  /\ written' = written \o s
  /\ UNCHANGED <<outnext, inVars>>

\* Store the characters s from offset `from' on, around the end of the buffer.
Around(i) == i % BUF_SIZE

Circular(s) ==
  /\ outbuffer' = [i \in DOMAIN outbuffer |->
                     IF \E j \in 1 .. Len(s) : i = Around(outlast + j - 1)
                       THEN s[CHOOSE j \in 1 .. Len(s) :
                                i = Around(outlast + j - 1)]
                       ELSE outbuffer[i]]
  /\ outlast'  = Around(outlast + Len(s))
  /\ outcount' = outcount + Len(s)

\* As many of the characters s as fit.
Fitting(s) == SubSeq(s, 1, IF Len(s) <= BUF_SIZE - outcount
                             THEN Len(s) ELSE BUF_SIZE - outcount)

\* _sio_writes while the transmitter is busy.
WriteBlockBusy(s) ==
  /\ sending
  /\ Len(written) + Len(s) <= MaxOut                   \* bound
  /\ Circular(Fitting(s))
  /\ written' = written \o Fitting(s)
  /\ UNCHANGED <<outnext, sending, ier, line, inVars>>

\* _sio_writes while it is idle: first the rest of the block is stored, then
\* the first character is given to _sio_writec, which sends it -- or, when it
\* is LF, sends CR and stores LF behind the rest.
WriteBlockIdle(s) ==
  LET first == OnLine(Head(s))
      rest  == Fitting(Tail(s))
  IN
  /\ ~sending
  /\ Len(written) + Len(s) + 1 <= MaxOut               \* bound
  /\ Circular(rest \o Tail(first))
  /\ line' = Append(line, Head(first))
  /\ StartSending
  /\ written' = written \o first \o rest
  /\ UNCHANGED <<outnext, inVars>>

\* The transmitter interrupt with a character left.
SendNext ==
  /\ "TX" \in ier
  /\ sending /\ outcount > 0
  /\ line'     = Append(line, outbuffer[outnext])
  /\ outnext'  = IF outnext + 1 >= BUF_SIZE THEN 0 ELSE outnext + 1
  /\ outcount' = outcount - 1
  /\ UNCHANGED <<outbuffer, outlast, sending, ier, written, inVars>>

\* The transmitter interrupt without one: back to the start of the buffer.
SendDone ==
  /\ "TX" \in ier
  /\ ~(sending /\ outcount > 0)
  /\ outcount' = 0 /\ outlast' = 0 /\ outnext' = 0
  /\ sending' = FALSE
  /\ _sio_disable("TX")
  /\ UNCHANGED <<outbuffer, written, line, inVars>>

-----------------------------------------------------------------------------
\* What the interrupt finds pending; a character that finds the buffer full is
\* read and forgotten.
_isr_sio ==
  \/ \E c \in Received : HandOver(c) \/ Buffer(c)
  \/ SendNext
  \/ SendDone

SerNext ==
  \/ _isr_sio
  \/ InputEnabled
  \/ ReadChar
  \/ ReadWaits
  \/ \E c \in Written : WriteChar(c)
  \/ \E s \in Blocks : WriteBlockBusy(s) \/ WriteBlockIdle(s)

SerSpec == SerInit /\ [][SerNext]_serVars

(* The transmitter interrupt comes as long as it is enabled.               *)
SerFairSpec == SerSpec /\ WF_serVars(SendNext \/ SendDone)

-----------------------------------------------------------------------------
(* Properties.                                                             *)

SerialType ==
  /\ inbuffer  \in [Cells(MaxIn) -> Received \cup {"zero"}]
  /\ outbuffer \in [0 .. (BUF_SIZE - 1) -> (UNION {Range(s) : s \in Blocks})
                                   \cup Written \cup {LF, CR, "zero"}]
  /\ innext \in 0 .. inlast /\ inlast \in Nat
  /\ incount \in 0 .. BUF_SIZE /\ waiting \in Nat
  /\ {outnext, outlast} \subseteq 0 .. (BUF_SIZE - 1)
  /\ outcount \in 0 .. BUF_SIZE
  /\ sending \in BOOLEAN /\ ier \subseteq {"RX", "TX"}

\* Input: what reaches the processes, and what waits in the buffer.
InputInOrder ==
  accepted = delivered \o SubSeq([i \in 1 .. inlast |-> inbuffer[i - 1]],
                                 innext + 1, innext + incount)

\* A character is added to the input buffer only "if there is room"
\* (sio.c:174-175).  The code breaks this when the buffer is never read empty:
\* the count says that there is room, the pointer is past the end.
InputInBounds == inlast <= BUF_SIZE

\* Output: what was sent, of what was written.
OutputInOrder == IsPrefix(line, written)

\* Characters reach the processes in the order in which they have come in,
\* none twice and none left out, those handed over at once and those buffered
\* (sio.c:151-190); and they go out in the order in which they were written,
\* around the end of the buffer too, whatever mixture of characters and blocks
\* comes (sio.c:192-210, 516-583).  The code keeps the second as long as no
\* block begins with LF while the line is idle: then the LF goes out behind
\* the block.
LineInOrder == InputInOrder /\ OutputInOrder

\* Everything written is eventually sent.
OutputDrains == \A n \in 1 .. MaxOut : Len(written) >= n ~> Len(line) >= n
=============================================================================
