---------------------------- MODULE DeviceProofs ----------------------------
(***************************************************************************)
(* Proofs about the devices that carry characters and paint.  The buffers  *)
(* of the serial line give characters in the order in which they got them, *)
(* for every size of the buffer and every mixture of characters and        *)
(* blocks; the ring between the keyboard interrupt and its readers is a    *)
(* queue that holds one character less than it has cells, and a line has   *)
(* what was taken from it; a box on the screen is tiled by its nine parts; *)
(* the console, on the text screen and in its window, shows the last lines *)
(* that were printed.                                                      *)
(***************************************************************************)
EXTENDS Serial, Keyboard, Painting, GraphicConsole, SequenceLemmas

-----------------------------------------------------------------------------
(* The serial line.                                                        *)

LEMMA Bounds == BUF_SIZE \in Nat \ {0} /\ MaxIn \in Nat
BY SerialAssumptions DEF SerialAssumption

-----------------------------------------------------------------------------
(* Input.                                                                  *)

InChars == Received \cup {"zero"}

\* The cells from innext on hold what was accepted and not yet delivered, and
\* inlast is behind the last of them; nobody waits beside a character.
InputTyped ==
  /\ inbuffer \in [Cells(MaxIn) -> InChars]
  /\ accepted \in Seq(InChars) /\ delivered \in Seq(InChars)
  /\ innext \in Nat /\ incount \in Nat /\ inlast = innext + incount
  /\ inlast <= Len(accepted) /\ Len(accepted) <= MaxIn
  /\ waiting \in Nat /\ (waiting > 0 => incount = 0)
  /\ Len(accepted) = Len(delivered) + incount

InputBuffered ==
  /\ InputTyped
  /\ \A k \in 1 .. Len(delivered) : accepted[k] = delivered[k]
  /\ \A k \in 1 .. incount : accepted[Len(delivered) + k] = inbuffer[innext + k - 1]

LEMMA InitInput == SerInit => InputBuffered
BY Bounds DEF SerInit, InputBuffered, InputTyped, InChars, Cells

LEMMA StepInput ==
  ASSUME InputBuffered, [SerNext]_serVars
  PROVE  InputBuffered'
<1> USE Bounds
<1>1. ASSUME NEW ch \in Received, HandOver(ch) PROVE InputBuffered'
  <2>1. /\ incount = 0 /\ Len(accepted) < MaxIn
        /\ accepted' = Append(accepted, ch) /\ delivered' = Append(delivered, ch)
        /\ waiting' = waiting - 1 /\ waiting > 0
        /\ UNCHANGED <<inbuffer, inlast, innext, incount>>
    BY <1>1 DEF HandOver, InputBuffered, InputTyped
  <2>2. /\ accepted' \in Seq(InChars) /\ Len(accepted') = Len(accepted) + 1
        /\ \A k \in 1 .. Len(accepted) : accepted'[k] = accepted[k]
        /\ accepted'[Len(accepted) + 1] = ch
    BY <2>1, AppendProperties DEF InputBuffered, InputTyped, InChars
  <2>3. /\ delivered' \in Seq(InChars) /\ Len(delivered') = Len(delivered) + 1
        /\ \A k \in 1 .. Len(delivered) : delivered'[k] = delivered[k]
        /\ delivered'[Len(delivered) + 1] = ch
    BY <2>1, AppendProperties DEF InputBuffered, InputTyped, InChars
  <2> QED BY <2>1, <2>2, <2>3 DEF InputBuffered, InputTyped
<1>2. ASSUME NEW ch \in Received, Buffer(ch) PROVE InputBuffered'
  <2>1. /\ waiting = 0 /\ Len(accepted) < MaxIn
        /\ accepted' = Append(accepted, ch) /\ incount' = incount + 1
        /\ inlast' = inlast + 1
        /\ inbuffer' = [inbuffer EXCEPT ![inlast] = ch]
        /\ UNCHANGED <<innext, delivered, waiting>>
    BY <1>2 DEF Buffer
  <2>2. /\ accepted' \in Seq(InChars) /\ Len(accepted') = Len(accepted) + 1
        /\ \A k \in 1 .. Len(accepted) : accepted'[k] = accepted[k]
        /\ accepted'[Len(accepted) + 1] = ch
    BY <2>1, AppendProperties DEF InputBuffered, InputTyped, InChars
  <2>3. /\ inlast \in Cells(MaxIn)
        /\ inbuffer' \in [Cells(MaxIn) -> InChars]
        /\ inbuffer'[inlast] = ch
        /\ \A k \in Cells(MaxIn) : k # inlast => inbuffer'[k] = inbuffer[k]
    BY <2>1 DEF InputBuffered, InputTyped, InChars, Cells
  <2>4. \A k \in 1 .. incount : innext + k - 1 \in Cells(MaxIn) /\ innext + k - 1 # inlast
    BY DEF InputBuffered, InputTyped, Cells
  <2>5. \A k \in 1 .. incount' :
          accepted'[Len(delivered) + k] = inbuffer'[innext + k - 1]
    <3> SUFFICES ASSUME NEW k \in 1 .. incount'
                 PROVE  accepted'[Len(delivered) + k] = inbuffer'[innext + k - 1]
      OBVIOUS
    <3>0. k \in 1 .. incount \/ k = incount + 1
      BY <2>1 DEF InputBuffered, InputTyped
    <3>1. CASE k \in 1 .. incount
      <4>1. accepted[Len(delivered) + k] = inbuffer[innext + k - 1]
        BY <3>1 DEF InputBuffered, InputTyped
      <4>2. Len(delivered) + k \in 1 .. Len(accepted)
        BY <3>1 DEF InputBuffered, InputTyped
      <4> QED BY <3>1, <4>1, <4>2, <2>2, <2>3, <2>4
    <3>2. CASE k = incount + 1
      <4>1. Len(delivered) + k = Len(accepted) + 1 /\ innext + k - 1 = inlast
        BY <3>2 DEF InputBuffered, InputTyped
      <4> QED BY <4>1, <2>2, <2>3
    <3> QED BY <3>0, <3>1, <3>2
  <2>6. InputTyped'
    <3>1. /\ InputTyped /\ Len(accepted) \in Nat /\ MaxIn \in Nat
      BY DEF InputBuffered, InputTyped
    <3>2. /\ innext' \in Nat /\ incount' \in Nat /\ inlast' = innext' + incount'
          /\ inlast' <= Len(accepted') /\ Len(accepted') <= MaxIn
          /\ Len(accepted') = Len(delivered') + incount'
      BY <2>1, <2>2, <3>1 DEF InputTyped
    <3>3. delivered' \in Seq(InChars) /\ waiting' = 0
      BY <2>1, <3>1 DEF InputTyped
    <3> QED BY <2>2, <2>3, <3>2, <3>3 DEF InputTyped
  <2>7. \A k \in 1 .. Len(delivered) : accepted'[k] = delivered[k]
    BY <2>2 DEF InputBuffered, InputTyped
  <2> QED BY <2>1, <2>5, <2>6, <2>7 DEF InputBuffered
<1>3. CASE ReadChar
  <2>1. /\ incount > 0 /\ incount' = incount - 1
        /\ delivered' = Append(delivered, inbuffer[innext])
        /\ innext' = IF incount - 1 < 1 THEN 0 ELSE innext + 1
        /\ inlast' = IF incount - 1 < 1 THEN 0 ELSE inlast
        /\ UNCHANGED <<inbuffer, waiting, accepted>>
    BY <1>3 DEF ReadChar, Rewind
  <2>2. /\ innext \in Cells(MaxIn) /\ inbuffer[innext] \in InChars
        /\ accepted[Len(delivered) + 1] = inbuffer[innext]
    <3>1. innext \in Cells(MaxIn)
      BY <2>1 DEF InputBuffered, InputTyped, Cells
    <3>2. 1 \in 1 .. incount /\ innext + 1 - 1 = innext
      BY <2>1 DEF InputBuffered, InputTyped
    <3> QED BY <3>1, <3>2 DEF InputBuffered, InputTyped
  <2>3. /\ delivered' \in Seq(InChars) /\ Len(delivered') = Len(delivered) + 1
        /\ \A k \in 1 .. Len(delivered) : delivered'[k] = delivered[k]
        /\ delivered'[Len(delivered) + 1] = inbuffer[innext]
    BY <2>1, <2>2, AppendProperties DEF InputBuffered, InputTyped
  <2>4. \A k \in 1 .. Len(delivered') : accepted'[k] = delivered'[k]
    BY <2>1, <2>2, <2>3 DEF InputBuffered, InputTyped
  <2>5. \A k \in 1 .. incount' :
          accepted'[Len(delivered') + k] = inbuffer'[innext' + k - 1]
    <3> SUFFICES ASSUME NEW k \in 1 .. incount'
                 PROVE  accepted'[Len(delivered') + k] = inbuffer'[innext' + k - 1]
      OBVIOUS
    <3>1. k + 1 \in 1 .. incount
      BY <2>1 DEF InputBuffered, InputTyped
    <3>2. accepted[Len(delivered) + (k + 1)] = inbuffer[innext + (k + 1) - 1]
      BY <3>1 DEF InputBuffered, InputTyped
    <3>3. /\ Len(delivered') + k = Len(delivered) + (k + 1)
          /\ innext' + k - 1 = innext + (k + 1) - 1
      BY <2>1, <2>3, <3>1 DEF InputBuffered, InputTyped
    <3> QED BY <3>2, <3>3, <2>1
  <2>6. InputTyped'
    <3>1. InputTyped /\ waiting = 0 /\ incount \in Nat \ {0}
      BY <2>1 DEF InputBuffered, InputTyped
    <3>2. innext' \in Nat /\ inlast' = innext' + incount' /\ inlast' <= Len(accepted)
      BY <2>1, <3>1 DEF InputTyped
    <3>3. Len(accepted) = Len(delivered') + incount'
      BY <2>1, <2>3, <3>1 DEF InputTyped
    <3> QED BY <2>1, <2>3, <3>1, <3>2, <3>3 DEF InputTyped
  <2> QED BY <2>4, <2>5, <2>6 DEF InputBuffered
<1>4. CASE ReadWaits
  BY <1>4 DEF ReadWaits, InputEmpty, InputBuffered, InputTyped
<1>5. CASE UNCHANGED inVars
  BY <1>5 DEF inVars, InputBuffered, InputTyped
<1> QED
  BY <1>1, <1>2, <1>3, <1>4, <1>5
     DEF SerNext, _isr_sio, serVars, InputEnabled, SendNext, SendDone, WriteChar,
         WriteBlockBusy, WriteBlockIdle

LEMMA InputIsInOrder == InputBuffered => InputInOrder
<1> SUFFICES ASSUME InputBuffered PROVE InputInOrder
  OBVIOUS
<1> USE Bounds
<1> DEFINE cells == [i \in 1 .. inlast |-> inbuffer[i - 1]]
           rest  == SubSeq(cells, innext + 1, innext + incount)
<1>1. \A i \in innext + 1 .. innext + incount :
        cells[i] = inbuffer[i - 1] /\ cells[i] \in InChars
  <2> SUFFICES ASSUME NEW i \in innext + 1 .. innext + incount
               PROVE  cells[i] = inbuffer[i - 1] /\ cells[i] \in InChars
    OBVIOUS
  <2>1. i \in 1 .. inlast /\ i - 1 \in Cells(MaxIn)
    BY DEF InputBuffered, InputTyped, Cells
  <2> QED BY <2>1 DEF InputBuffered, InputTyped
<1>2. /\ rest \in Seq(InChars) /\ Len(rest) = incount
      /\ \A k \in 1 .. incount : rest[k] = cells[innext + k]
  <2>1. innext + 1 \in Int /\ innext + incount \in Int
    BY DEF InputBuffered, InputTyped
  <2> HIDE DEF cells
  <2>2. /\ rest \in Seq(InChars)
        /\ Len(rest) = IF innext + 1 <= innext + incount
                       THEN (innext + incount) - (innext + 1) + 1 ELSE 0
        /\ \A k \in 1 .. ((innext + incount) - (innext + 1) + 1) :
             rest[k] = cells[(innext + 1) + k - 1]
    BY <2>1, <1>1, SubSeqProperties
  <2> QED BY <2>2 DEF InputBuffered, InputTyped
<1> HIDE DEF rest, cells
<1>3. /\ delivered \o rest \in Seq(InChars)
      /\ Len(delivered \o rest) = Len(delivered) + incount
      /\ \A k \in 1 .. Len(delivered) + incount :
           (delivered \o rest)[k] = IF k <= Len(delivered) THEN delivered[k]
                                    ELSE rest[k - Len(delivered)]
  <2>1. delivered \in Seq(InChars) /\ rest \in Seq(InChars)
    BY <1>2 DEF InputBuffered, InputTyped
  <2> QED BY <1>2, <2>1, ConcatProperties
<1>4. ASSUME NEW k \in 1 .. Len(accepted) PROVE accepted[k] = (delivered \o rest)[k]
  <2>1. CASE k <= Len(delivered)
    BY <2>1, <1>3 DEF InputBuffered, InputTyped
  <2>2. CASE k > Len(delivered)
    <3> DEFINE j == k - Len(delivered)
    <3>1. j \in 1 .. incount /\ k = Len(delivered) + j
      BY <2>2 DEF InputBuffered, InputTyped
    <3>2. accepted[k] = inbuffer[innext + j - 1]
      BY <3>1 DEF InputBuffered, InputTyped
    <3>3. rest[j] = cells[innext + j] /\ innext + j \in innext + 1 .. innext + incount
      BY <3>1, <1>2 DEF InputBuffered, InputTyped
    <3>4. cells[innext + j] = inbuffer[(innext + j) - 1]
      BY <3>3, <1>1
    <3>5. k \in 1 .. Len(delivered) + incount /\ (innext + j) - 1 = innext + j - 1
      BY <3>1 DEF InputBuffered, InputTyped
    <3>6. (delivered \o rest)[k] = rest[j]
      BY <3>5, <1>3, <2>2
    <3> QED BY <3>2, <3>3, <3>4, <3>5, <3>6
  <2>3. k <= Len(delivered) \/ k > Len(delivered)
    <3>1. Len(delivered) \in Nat /\ Len(accepted) \in Nat
      BY DEF InputBuffered, InputTyped
    <3> QED BY <3>1
  <2> QED BY <2>1, <2>2, <2>3, Zenon
<1>5. accepted = delivered \o rest
  BY <1>3, <1>4, SeqEqual DEF InputBuffered, InputTyped
<1> QED BY <1>5 DEF InputInOrder, rest, cells

(* What _isr_sio and _sio_readc do together: characters reach the          *)
(* processes in the order in which they came in, for every buffer size and *)
(* wherever the pointers stand, past the end of the buffer too.            *)
THEOREM InputAlwaysInOrder == SerSpec => []InputInOrder
<1>1. InputBuffered /\ [SerNext]_serVars => InputBuffered'
  BY StepInput
<1> QED BY <1>1, InitInput, InputIsInOrder, PTL DEF SerSpec

-----------------------------------------------------------------------------
(* Output.                                                                 *)

OutChars == (UNION {Range(s) : s \in Blocks}) \cup Written \cup {LF, CR, "zero"}

\* The cell that a pointer means which may have passed the end once.
Slot(i) == IF i < BUF_SIZE THEN i ELSE i - BUF_SIZE

OutputTyped ==
  /\ outbuffer \in [0 .. (BUF_SIZE - 1) -> OutChars]
  /\ written \in Seq(OutChars) /\ line \in Seq(OutChars)
  /\ outnext \in 0 .. (BUF_SIZE - 1) /\ outcount \in 0 .. BUF_SIZE
  /\ outlast = Slot(outnext + outcount)
  /\ ~sending => outcount = 0
  /\ Len(written) = Len(line) + outcount

\* From outnext on lies what was written and not yet sent.
OutputBuffered ==
  /\ OutputTyped
  /\ \A k \in 1 .. Len(line) : written[k] = line[k]
  /\ \A k \in 1 .. outcount : written[Len(line) + k] = outbuffer[Slot(outnext + k - 1)]

\* The characters s have been stored behind those that wait.
Stored(s) ==
  /\ outbuffer' \in [0 .. (BUF_SIZE - 1) -> OutChars]
  /\ \A j \in 1 .. Len(s) : outbuffer'[Slot(outlast + j - 1)] = s[j]
  /\ \A i \in 0 .. (BUF_SIZE - 1) :
       (\A j \in 1 .. Len(s) : i # Slot(outlast + j - 1)) => outbuffer'[i] = outbuffer[i]
  /\ outlast' = Slot(outlast + Len(s))
  /\ outcount' = outcount + Len(s)
  /\ outnext' = outnext

LEMMA AroundIsCell ==
  ASSUME NEW i \in 0 .. (2 * BUF_SIZE - 1)
  PROVE  Around(i) = Slot(i) /\ Slot(i) \in 0 .. (BUF_SIZE - 1)
<1>1. CASE i < BUF_SIZE
  BY <1>1, Bounds DEF Around, Slot
<1>2. CASE i >= BUF_SIZE
  BY <1>2, Bounds DEF Around, Slot
<1> QED BY <1>1, <1>2, Bounds

(* A block that fits does not wrap around onto itself.                     *)
LEMMA CellsDiffer ==
  ASSUME NEW f \in 0 .. (BUF_SIZE - 1), NEW i \in 0 .. (BUF_SIZE - 1),
         NEW j \in 0 .. (BUF_SIZE - 1), Slot(f + i) = Slot(f + j)
  PROVE  i = j
BY Bounds DEF Slot

(* The cell that comes d cells after one that comes c cells after f.       *)
LEMMA CellsAdd ==
  ASSUME NEW f \in 0 .. (BUF_SIZE - 1), NEW ch \in 0 .. BUF_SIZE,
         NEW d \in 0 .. BUF_SIZE, ch + d <= BUF_SIZE
  PROVE  Slot(Slot(f + ch) + d) = Slot(f + (ch + d))
BY Bounds DEF Slot

LEMMA StraightStores ==
  ASSUME OutputTyped, NEW s \in Seq(OutChars), Straight(s), outnext' = outnext,
         outlast + Len(s) < BUF_SIZE
  PROVE  Stored(s)
<1>1. Len(s) \in Nat /\ outlast \in 0 .. (BUF_SIZE - 1)
  BY AroundIsCell, Bounds DEF OutputTyped, Slot
<1>2. \A j \in 1 .. Len(s) : s[j] \in OutChars
  OBVIOUS
<1>3. /\ outbuffer' = [i \in 0 .. (BUF_SIZE - 1) |->
                         IF i \in outlast .. (outlast + Len(s) - 1)
                         THEN s[i - outlast + 1] ELSE outbuffer[i]]
      /\ outlast' = outlast + Len(s) /\ outcount' = outcount + Len(s)
  BY DEF Straight, OutputTyped
<1>4. \A i \in 0 .. (BUF_SIZE - 1) :
        outbuffer'[i] = IF i \in outlast .. (outlast + Len(s) - 1)
                        THEN s[i - outlast + 1] ELSE outbuffer[i]
  BY <1>3
<1>5. \A j \in 1 .. Len(s) : Slot(outlast + j - 1) = outlast + j - 1
  BY <1>1, Bounds DEF Slot
<1>6. outbuffer' \in [0 .. (BUF_SIZE - 1) -> OutChars]
  <2> SUFFICES ASSUME NEW i \in 0 .. (BUF_SIZE - 1)
               PROVE  (IF i \in outlast .. (outlast + Len(s) - 1)
                       THEN s[i - outlast + 1] ELSE outbuffer[i]) \in OutChars
    BY <1>3
  <2>1. i \in outlast .. (outlast + Len(s) - 1) => i - outlast + 1 \in 1 .. Len(s)
    BY <1>1
  <2> QED BY <2>1, <1>2 DEF OutputTyped
<1>7. \A j \in 1 .. Len(s) : outbuffer'[Slot(outlast + j - 1)] = s[j]
  <2> TAKE j \in 1 .. Len(s)
  <2>1. /\ outlast + j - 1 \in outlast .. (outlast + Len(s) - 1)
        /\ outlast + j - 1 \in 0 .. (BUF_SIZE - 1)
        /\ (outlast + j - 1) - outlast + 1 = j
    BY <1>1, Bounds
  <2> QED BY <2>1, <1>4, <1>5
<1>8. \A i \in 0 .. (BUF_SIZE - 1) :
        (\A j \in 1 .. Len(s) : i # Slot(outlast + j - 1)) => outbuffer'[i] = outbuffer[i]
  <2> SUFFICES ASSUME NEW i \in 0 .. (BUF_SIZE - 1),
                      i \in outlast .. (outlast + Len(s) - 1)
               PROVE  \E j \in 1 .. Len(s) : i = Slot(outlast + j - 1)
    BY <1>4
  <2>1. /\ i - outlast + 1 \in 1 .. Len(s)
        /\ i = outlast + (i - outlast + 1) - 1
    BY <1>1
  <2> QED BY <2>1, <1>5
<1>9. outlast' = Slot(outlast + Len(s))
  BY <1>3, <1>1 DEF Slot
<1> QED BY <1>3, <1>6, <1>7, <1>8, <1>9 DEF Stored

LEMMA CircularStores ==
  ASSUME OutputTyped, NEW s \in Seq(OutChars), Circular(s), outnext' = outnext,
         outcount + Len(s) <= BUF_SIZE
  PROVE  Stored(s)
<1>1. /\ Len(s) \in Nat /\ Len(s) <= BUF_SIZE
      /\ outlast \in 0 .. (BUF_SIZE - 1)
  BY AroundIsCell, Bounds DEF OutputTyped, Slot
<1>2. \A j \in 1 .. Len(s) : s[j] \in OutChars
  OBVIOUS
<1>3. \A j \in 1 .. Len(s) :
        /\ Around(outlast + j - 1) = Slot(outlast + j - 1)
        /\ Slot(outlast + j - 1) \in 0 .. (BUF_SIZE - 1)
  <2> TAKE j \in 1 .. Len(s)
  <2>1. outlast + j - 1 \in 0 .. (2 * BUF_SIZE - 1)
    BY <1>1, Bounds
  <2> QED BY <2>1, AroundIsCell
<1>4. \A i, j \in 1 .. Len(s) :
        Around(outlast + i - 1) = Around(outlast + j - 1) => i = j
  <2> SUFFICES ASSUME NEW i \in 1 .. Len(s), NEW j \in 1 .. Len(s),
                      Slot(outlast + (i - 1)) = Slot(outlast + (j - 1))
               PROVE  i = j
    BY <1>1, <1>3
  <2>1. i - 1 \in 0 .. (BUF_SIZE - 1) /\ j - 1 \in 0 .. (BUF_SIZE - 1)
    BY <1>1, Bounds
  <2>2. i - 1 = j - 1
    BY <2>1, <1>1, CellsDiffer
  <2> QED BY <2>2, <1>1
<1> DEFINE At(i, j) == i = Around(outlast + j - 1)
           stored(i) == IF \E j \in 1 .. Len(s) : At(i, j)
                        THEN s[CHOOSE j \in 1 .. Len(s) : At(i, j)]
                        ELSE outbuffer[i]
<1>5. /\ outbuffer' = [i \in 0 .. (BUF_SIZE - 1) |-> stored(i)]
      /\ outlast' = Around(outlast + Len(s)) /\ outcount' = outcount + Len(s)
  BY DEF Circular, OutputTyped
<1>6. \A i \in 0 .. (BUF_SIZE - 1) : outbuffer'[i] = stored(i)
  BY <1>5
<1>7. ASSUME NEW i, NEW j \in 1 .. Len(s), At(i, j)
      PROVE  (CHOOSE k \in 1 .. Len(s) : At(i, k)) = j
  <2> DEFINE k == CHOOSE k \in 1 .. Len(s) : At(i, k)
  <2>1. k \in 1 .. Len(s) /\ At(i, k)
    BY <1>7
  <2> HIDE DEF k
  <2>2. k = j
    BY <2>1, <1>7, <1>4
  <2> QED BY <2>2 DEF k
<1>8. outbuffer' \in [0 .. (BUF_SIZE - 1) -> OutChars]
  <2> SUFFICES ASSUME NEW i \in 0 .. (BUF_SIZE - 1) PROVE stored(i) \in OutChars
    BY <1>5
  <2>1. CASE \E j \in 1 .. Len(s) : At(i, j)
    <3>1. PICK j \in 1 .. Len(s) : At(i, j)
      BY <2>1
    <3>2. stored(i) = s[j]
      BY <3>1, <1>7
    <3> QED BY <3>2, <1>2
  <2>2. CASE ~\E j \in 1 .. Len(s) : At(i, j)
    BY <2>2 DEF OutputTyped
  <2> QED BY <2>1, <2>2
<1>9. \A j \in 1 .. Len(s) : outbuffer'[Slot(outlast + j - 1)] = s[j]
  <2> TAKE j \in 1 .. Len(s)
  <2> DEFINE i == Slot(outlast + j - 1)
  <2>1. i \in 0 .. (BUF_SIZE - 1) /\ At(i, j)
    BY <1>3
  <2> HIDE DEF i
  <2>2. stored(i) = s[j]
    BY <2>1, <1>7
  <2>3. outbuffer'[i] = s[j]
    BY <2>1, <2>2, <1>6
  <2> QED BY <2>3 DEF i
<1>10. \A i \in 0 .. (BUF_SIZE - 1) :
         (\A j \in 1 .. Len(s) : i # Slot(outlast + j - 1)) => outbuffer'[i] = outbuffer[i]
  <2> TAKE i \in 0 .. (BUF_SIZE - 1)
  <2> HAVE \A j \in 1 .. Len(s) : i # Slot(outlast + j - 1)
  <2>1. ~\E j \in 1 .. Len(s) : At(i, j)
    BY <1>3
  <2>2. stored(i) = outbuffer[i]
    BY <2>1
  <2> HIDE DEF stored
  <2> QED BY <2>2, <1>6
<1>11. outlast' = Slot(outlast + Len(s))
  <2>1. outlast + Len(s) \in 0 .. (2 * BUF_SIZE - 1)
    BY <1>1, Bounds
  <2> QED BY <2>1, <1>5, AroundIsCell
<1> QED BY <1>5, <1>8, <1>9, <1>10, <1>11 DEF Stored

(* The two halves of a concatenation.                                      *)
LEMMA ConcatAt ==
  ASSUME NEW S, NEW a \in Seq(S), NEW b \in Seq(S)
  PROVE  /\ \A i \in 1 .. Len(a) : (a \o b)[i] = a[i]
         /\ \A j \in 1 .. Len(b) : (a \o b)[Len(a) + j] = b[j]
<1>1. Len(a) \in Nat /\ Len(b) \in Nat
  OBVIOUS
<1>2. \A k \in 1 .. Len(a) + Len(b) :
        (a \o b)[k] = IF k <= Len(a) THEN a[k] ELSE b[k - Len(a)]
  BY ConcatProperties
<1>3. \A i \in 1 .. Len(a) : (a \o b)[i] = a[i]
  BY <1>1, <1>2
<1>4. ASSUME NEW j \in 1 .. Len(b) PROVE (a \o b)[Len(a) + j] = b[j]
  <2> DEFINE n == Len(a) + j
  <2>1. n \in 1 .. Len(a) + Len(b) /\ ~(n <= Len(a)) /\ n - Len(a) = j
    BY <1>1
  <2> HIDE DEF n
  <2>2. (a \o b)[n] = b[j]
    BY <2>1, <1>2
  <2> QED BY <2>2 DEF n
<1> QED BY <1>3, <1>4

(* Characters are written: those of l are sent at once, which happens only *)
(* when none waits, and those of s are stored.                             *)
LEMMA WrittenIsBuffered ==
  ASSUME OutputBuffered, NEW l \in Seq(OutChars), NEW s \in Seq(OutChars),
         Stored(s), outcount + Len(s) <= BUF_SIZE,
         l = <<>> \/ outcount = 0,
         line' = line \o l, written' = written \o (l \o s),
         sending'
  PROVE  OutputBuffered'
<1>1. OutputTyped /\ Len(l) \in Nat /\ Len(s) \in Nat /\ outcount \in Nat
      /\ Len(line) \in Nat /\ Len(written) \in Nat
  BY Bounds DEF OutputBuffered, OutputTyped
<1>2. /\ line' \in Seq(OutChars) /\ Len(line') = Len(line) + Len(l)
      /\ \A k \in 1 .. Len(line) + Len(l) :
           line'[k] = IF k <= Len(line) THEN line[k] ELSE l[k - Len(line)]
  BY <1>1, ConcatProperties DEF OutputTyped
<1>3. /\ l \o s \in Seq(OutChars) /\ Len(l \o s) = Len(l) + Len(s)
      /\ \A k \in 1 .. Len(l) + Len(s) :
           (l \o s)[k] = IF k <= Len(l) THEN l[k] ELSE s[k - Len(l)]
  BY ConcatProperties
<1>4. /\ written' \in Seq(OutChars)
      /\ Len(written') = Len(written) + (Len(l) + Len(s))
      /\ \A k \in 1 .. Len(written) + (Len(l) + Len(s)) :
           written'[k] = IF k <= Len(written) THEN written[k]
                         ELSE (l \o s)[k - Len(written)]
  <2> DEFINE t == l \o s
  <2>1. t \in Seq(OutChars) /\ Len(t) = Len(l) + Len(s) /\ written' = written \o t
        /\ written \in Seq(OutChars)
    BY <1>1, <1>3 DEF OutputTyped
  <2> HIDE DEF t
  <2>2. /\ written \o t \in Seq(OutChars)
        /\ Len(written \o t) = Len(written) + Len(t)
        /\ \A k \in 1 .. Len(written) + Len(t) :
             (written \o t)[k] = IF k <= Len(written) THEN written[k]
                                 ELSE t[k - Len(written)]
    BY <2>1, ConcatProperties
  <2> QED BY <2>1, <2>2 DEF t
<1>5. Len(written) = Len(line) + outcount /\ (Len(l) = 0 \/ outcount = 0)
  BY <1>1, EmptySeq DEF OutputTyped
<1>6. outlast' = Slot(outnext' + outcount')
  <2>1. /\ outnext \in 0 .. (BUF_SIZE - 1) /\ outcount \in 0 .. BUF_SIZE
        /\ Len(s) \in 0 .. BUF_SIZE /\ outcount + Len(s) <= BUF_SIZE
    BY <1>1, Bounds DEF OutputTyped
  <2>2. Slot(Slot(outnext + outcount) + Len(s)) = Slot(outnext + (outcount + Len(s)))
    BY <2>1, CellsAdd
  <2> QED BY <2>2, <1>1 DEF Stored, OutputTyped
<1>7. OutputTyped'
  BY <1>1, <1>2, <1>4, <1>5, <1>6 DEF OutputTyped, Stored
<1>8. \A k \in 1 .. Len(line') : written'[k] = line'[k]
  <2> TAKE k \in 1 .. Len(line')
  <2>1. CASE k \in 1 .. Len(line)
    <3>1. written[k] = line[k]
      BY <2>1 DEF OutputBuffered
    <3> QED BY <3>1, <2>1, <1>1, <1>2, <1>4, <1>5
  <2>2. CASE k \notin 1 .. Len(line)
    <3>1. k - Len(line) \in 1 .. Len(l) /\ outcount = 0 /\ Len(written) = Len(line)
      BY <2>2, <1>1, <1>2, <1>5
    <3>2. line'[k] = l[k - Len(line)]
      BY <3>1, <1>1, <1>2
    <3>3. written'[k] = (l \o s)[k - Len(line)]
      BY <3>1, <1>1, <1>2, <1>4
    <3> QED BY <3>1, <3>2, <3>3, <1>1, <1>3
  <2> QED BY <2>1, <2>2
<1>9. \A k \in 1 .. outcount' :
        written'[Len(line') + k] = outbuffer'[Slot(outnext' + k - 1)]
  <2> TAKE k \in 1 .. outcount'
  <2>1. CASE k \in 1 .. outcount
    <3> DEFINE i == Slot(outnext + k - 1)
    <3>1. Len(l) = 0 /\ Len(line') = Len(line)
      BY <2>1, <1>1, <1>2, <1>5
    <3>2. written[Len(line) + k] = outbuffer[i]
      BY <2>1 DEF OutputBuffered
    <3>3. i \in 0 .. (BUF_SIZE - 1)
      <4>1. outnext + k - 1 \in 0 .. (2 * BUF_SIZE - 1)
        BY <2>1, <1>1, Bounds DEF OutputTyped
      <4> QED BY <4>1, AroundIsCell
    <3>4. \A j \in 1 .. Len(s) : i # Slot(outlast + j - 1)
      <4> SUFFICES ASSUME NEW j \in 1 .. Len(s), i = Slot(outlast + j - 1)
                   PROVE  FALSE
        OBVIOUS
      <4>1. /\ outcount + (j - 1) \in 0 .. (BUF_SIZE - 1) /\ k - 1 \in 0 .. (BUF_SIZE - 1)
            /\ k - 1 # outcount + (j - 1)
        <5>1. outcount \in 0 .. BUF_SIZE /\ outcount + Len(s) <= BUF_SIZE
          BY <1>1 DEF OutputTyped
        <5> QED BY <5>1, <2>1, <1>1, Bounds
      <4>2. Slot(outlast + (j - 1)) = Slot(outnext + (outcount + (j - 1)))
        <5>1. /\ outnext \in 0 .. (BUF_SIZE - 1) /\ outcount \in 0 .. BUF_SIZE
              /\ j - 1 \in 0 .. BUF_SIZE /\ outcount + (j - 1) <= BUF_SIZE
          BY <4>1, <1>1, Bounds DEF OutputTyped
        <5>2. Slot(Slot(outnext + outcount) + (j - 1)) = Slot(outnext + (outcount + (j - 1)))
          BY <5>1, CellsAdd
        <5> QED BY <5>2, <1>1 DEF OutputTyped
      <4>3. outlast + (j - 1) = outlast + j - 1 /\ outnext + (k - 1) = outnext + k - 1
        BY <2>1, <1>1, AroundIsCell, Bounds DEF OutputTyped, Slot
      <4> QED BY <4>1, <4>2, <4>3, <1>1, CellsDiffer DEF OutputTyped
    <3> HIDE DEF i
    <3>5. outbuffer'[i] = outbuffer[i]
      BY <3>3, <3>4 DEF Stored
    <3>6. written'[Len(line) + k] = written[Len(line) + k]
      BY <2>1, <3>1, <1>1, <1>4, <1>5
    <3> QED BY <3>1, <3>2, <3>5, <3>6 DEF i, Stored
  <2>2. CASE k \notin 1 .. outcount
    <3> DEFINE j == k - outcount
    <3>1. j \in 1 .. Len(s) /\ k = outcount + j
      BY <2>2, <1>1 DEF Stored
    <3>2. outbuffer'[Slot(outlast + j - 1)] = s[j]
      BY <3>1 DEF Stored
    <3>3. Slot(outlast + j - 1) = Slot(outnext' + k - 1)
      <4>1. outcount \in 0 .. BUF_SIZE /\ j - 1 \in 0 .. BUF_SIZE
            /\ outcount + (j - 1) <= BUF_SIZE /\ outnext \in 0 .. (BUF_SIZE - 1)
        BY <3>1, <1>1, Bounds DEF OutputTyped
      <4>2. Slot(outlast + (j - 1)) = Slot(outnext + (outcount + (j - 1)))
        BY <4>1, <1>1, CellsAdd DEF OutputTyped
      <4>3. outlast + (j - 1) = outlast + j - 1
            /\ outnext + (outcount + (j - 1)) = outnext + k - 1
        BY <3>1, <1>1, AroundIsCell, Bounds DEF OutputTyped, Slot
      <4> QED BY <4>2, <4>3 DEF Stored
    <3>4. written'[Len(line') + k] = (l \o s)[Len(l) + j]
      <4> DEFINE n == Len(l) + j
                 t == l \o s
      <4>1. Len(line') + k = Len(written) + n
        <5>1. Len(line') = Len(line) + Len(l)
          BY <1>2
        <5> QED BY <5>1, <3>1, <1>1, <1>5
      <4>2. t \in Seq(OutChars) /\ written' = written \o t /\ Len(t) = Len(l) + Len(s)
        BY <1>3
      <4>3. n \in 1 .. Len(t)
        BY <3>1, <4>2, <1>1
      <4> HIDE DEF n, t
      <4>4. written \in Seq(OutChars)
        BY <1>1 DEF OutputTyped
      <4>5. (written \o t)[Len(written) + n] = t[n]
        BY <4>2, <4>3, <4>4, ConcatAt
      <4> QED BY <4>1, <4>2, <4>5 DEF n, t
    <3>5. (l \o s)[Len(l) + j] = s[j]
      BY <3>1, ConcatAt
    <3> QED BY <3>2, <3>3, <3>4, <3>5
  <2> QED BY <2>1, <2>2
<1> QED BY <1>7, <1>8, <1>9 DEF OutputBuffered

LEMMA InitOutput == SerInit => OutputBuffered
<1> SUFFICES ASSUME SerInit PROVE OutputBuffered
  OBVIOUS
<1>1. /\ outbuffer = [i \in 0 .. (BUF_SIZE - 1) |-> "zero"] /\ written = <<>> /\ line = <<>>
      /\ outlast = 0 /\ outnext = 0 /\ outcount = 0
  BY DEF SerInit
<1>2. <<>> \in Seq(OutChars) /\ Len(<<>>) = 0 /\ Slot(0) = 0
  BY EmptySeq, Bounds DEF Slot
<1>3. outbuffer \in [0 .. (BUF_SIZE - 1) -> OutChars]
  BY <1>1 DEF OutChars
<1>4. OutputTyped
  BY <1>1, <1>2, <1>3, Bounds DEF OutputTyped
<1> QED BY <1>1, <1>2, <1>4 DEF OutputBuffered

(* What is written consists of characters, and fits as cut.                *)
LEMMA BlockTyped ==
  ASSUME NEW s \in Blocks
  PROVE  s \in Seq(OutChars) /\ s # <<>>
<1>1. s # <<>> /\ s \in Seq(Range(s)) /\ Range(s) \subseteq OutChars
  BY SerialAssumptions DEF SerialAssumption, OutChars
<1> QED BY <1>1, SeqMonotonic

LEMMA OnLineTyped ==
  ASSUME NEW ch \in OutChars
  PROVE  /\ OnLine(ch) \in Seq(OutChars) /\ OnLine(ch) # <<>>
         /\ ch # LF => OnLine(ch) = <<ch>>
<1>1. LF \in OutChars /\ CR \in OutChars
  BY DEF OutChars
<1>2. <<CR, LF>> \in Seq(OutChars) /\ <<CR, LF>> # <<>>
  BY <1>1
<1>3. <<ch>> \in Seq(OutChars) /\ <<ch>> # <<>>
  OBVIOUS
<1> QED BY <1>2, <1>3 DEF OnLine

LEMMA FittingFits ==
  ASSUME NEW s \in Seq(OutChars), outcount \in 0 .. BUF_SIZE
  PROVE  Fitting(s) \in Seq(OutChars) /\ outcount + Len(Fitting(s)) <= BUF_SIZE
<1> DEFINE n == IF Len(s) <= BUF_SIZE - outcount THEN Len(s) ELSE BUF_SIZE - outcount
<1>1. n \in 0 .. Len(s) /\ outcount + n <= BUF_SIZE
  BY Bounds
<1> HIDE DEF n
<1>2. \A i \in 1 .. n : s[i] \in OutChars
  BY <1>1, ElementOfSeq
<1>3. SubSeq(s, 1, n) \in Seq(OutChars) /\ Len(SubSeq(s, 1, n)) = n
  BY <1>1, <1>2, SubSeqProperties
<1> QED BY <1>1, <1>3 DEF Fitting, n

(* The first of the characters goes out at once.                           *)
LEMMA FirstGoesOut ==
  ASSUME NEW r \in Seq(OutChars), NEW s \in Seq(OutChars), s # <<>>
  PROVE  /\ Append(r, Head(s)) = r \o <<Head(s)>>
         /\ Tail(s) \in Seq(OutChars) /\ Len(Tail(s)) = Len(s) - 1
         /\ <<Head(s)>> \in Seq(OutChars)
         /\ s = <<Head(s)>> \o Tail(s)
<1>1. /\ Head(s) \in OutChars /\ Tail(s) \in Seq(OutChars) /\ Len(Tail(s)) = Len(s) - 1
      /\ \A i \in 1 .. Len(Tail(s)) : Tail(s)[i] = s[i + 1]
  BY HeadTailProperties
<1>2. <<Head(s)>> \in Seq(OutChars)
  BY <1>1
<1>3. s = <<Head(s)>> \o Tail(s)
  OBVIOUS
<1> QED BY <1>1, <1>2, <1>3, AppendIsConcat

LEMMA WriteCharKeeps ==
  ASSUME OutputBuffered, NEW ch \in Written, WriteChar(ch)
  PROVE  OutputBuffered'
<1> DEFINE s == OnLine(ch)
<1>1. s \in Seq(OutChars) /\ s # <<>>
  <2>1. ch \in OutChars
    BY DEF OutChars
  <2> QED BY <2>1, OnLineTyped
<1>2. /\ outlast + Len(s) < BUF_SIZE /\ outcount + Len(s) <= BUF_SIZE
      /\ sending' = TRUE /\ outnext' = outnext /\ written' = written \o s
      /\ IF sending THEN Straight(s) /\ line' = line
         ELSE Straight(Tail(s)) /\ line' = Append(line, Head(s))
  BY DEF WriteChar, Fits, StartSending
<1>3. OutputTyped /\ line \in Seq(OutChars) /\ written \in Seq(OutChars)
      /\ outlast \in Int /\ outcount \in Int
  BY AroundIsCell, Bounds DEF OutputBuffered, OutputTyped, Slot
<1> HIDE DEF s
<1>4. CASE sending
  <2>1. Stored(s)
    BY <1>1, <1>2, <1>3, <1>4, StraightStores
  <2>2. line' = line \o <<>> /\ written' = written \o (<<>> \o s) /\ <<>> \in Seq(OutChars)
    BY <1>1, <1>2, <1>3, <1>4, ConcatEmptySeq, EmptySeq
  <2> QED BY <2>1, <2>2, <1>1, <1>2, WrittenIsBuffered
<1>5. CASE ~sending
  <2>1. /\ line' = line \o <<Head(s)>> /\ written' = written \o (<<Head(s)>> \o Tail(s))
        /\ Tail(s) \in Seq(OutChars) /\ Len(Tail(s)) = Len(s) - 1
        /\ <<Head(s)>> \in Seq(OutChars) /\ Len(s) \in Nat
    <3>1. /\ Append(line, Head(s)) = line \o <<Head(s)>>
          /\ Tail(s) \in Seq(OutChars) /\ Len(Tail(s)) = Len(s) - 1
          /\ <<Head(s)>> \in Seq(OutChars) /\ s = <<Head(s)>> \o Tail(s)
      BY <1>1, <1>3, FirstGoesOut
    <3>2. Len(s) \in Nat
      BY <1>1, LenProperties
    <3>3. written' = written \o (<<Head(s)>> \o Tail(s))
      BY <3>1, <1>2
    <3> QED BY <3>1, <3>2, <3>3, <1>2, <1>5
  <2>2. outlast + Len(Tail(s)) < BUF_SIZE /\ outcount + Len(Tail(s)) <= BUF_SIZE
    BY <2>1, <1>2, <1>3, Bounds
  <2>3. Stored(Tail(s))
    BY <2>1, <2>2, <1>2, <1>3, <1>5, StraightStores
  <2>4. outcount = 0
    BY <1>3, <1>5 DEF OutputTyped
  <2> QED BY <2>1, <2>2, <2>3, <2>4, <1>2, WrittenIsBuffered
<1> QED BY <1>4, <1>5

LEMMA WriteBlockKeeps ==
  ASSUME OutputBuffered, NEW s \in Blocks, Head(s) # LF,
         WriteBlockBusy(s) \/ WriteBlockIdle(s)
  PROVE  OutputBuffered'
<1>1. /\ OutputTyped /\ line \in Seq(OutChars) /\ written \in Seq(OutChars)
      /\ outcount \in 0 .. BUF_SIZE
  BY DEF OutputBuffered, OutputTyped
<1>2. s \in Seq(OutChars) /\ s # <<>>
  BY BlockTyped
<1>3. CASE WriteBlockBusy(s)
  <2>1. Fitting(s) \in Seq(OutChars) /\ outcount + Len(Fitting(s)) <= BUF_SIZE
    BY <1>1, <1>2, FittingFits
  <2>2. /\ Circular(Fitting(s)) /\ outnext' = outnext /\ sending' = TRUE
        /\ written' = written \o Fitting(s) /\ line' = line
    BY <1>3, <1>1 DEF WriteBlockBusy, OutputTyped
  <2>3. Stored(Fitting(s))
    BY <2>1, <2>2, <1>1, CircularStores
  <2>4. /\ line' = line \o <<>> /\ written' = written \o (<<>> \o Fitting(s))
        /\ <<>> \in Seq(OutChars)
    BY <2>1, <2>2, <1>1, ConcatEmptySeq, EmptySeq
  <2> QED BY <2>1, <2>2, <2>3, <2>4, WrittenIsBuffered
<1>4. CASE WriteBlockIdle(s)
  <2> DEFINE first == <<Head(s)>>
             rest  == Fitting(Tail(s))
  <2>1. /\ first \in Seq(OutChars) /\ Tail(s) \in Seq(OutChars) /\ Head(s) \in OutChars
        /\ Append(line, Head(s)) = line \o first
    BY <1>1, <1>2, FirstGoesOut, HeadTailProperties
  <2>2. OnLine(Head(s)) = first /\ Head(first) = Head(s) /\ Tail(first) = <<>>
    BY <2>1, OnLineTyped
  <2>3. rest \in Seq(OutChars) /\ outcount + Len(rest) <= BUF_SIZE
    BY <2>1, <1>1, FittingFits
  <2>4. /\ Circular(rest \o <<>>) /\ outnext' = outnext /\ sending' = TRUE /\ ~sending
        /\ written' = written \o first \o rest /\ line' = Append(line, Head(s))
    BY <1>4, <2>2 DEF WriteBlockIdle, StartSending
  <2> HIDE DEF first, rest
  <2>5. rest \o <<>> = rest
    BY <2>3, ConcatEmptySeq
  <2>6. Stored(rest)
    BY <2>3, <2>4, <2>5, <1>1, CircularStores
  <2>7. line' = line \o first /\ written' = written \o (first \o rest) /\ outcount = 0
    <3>1. \A x, y, z \in Seq(OutChars) : (x \o y) \o z = x \o (y \o z)
      BY ConcatAssociative
    <3> QED BY <3>1, <2>1, <2>3, <2>4, <1>1 DEF OutputTyped
  <2> QED BY <2>1, <2>3, <2>4, <2>6, <2>7, WrittenIsBuffered
<1> QED BY <1>3, <1>4

LEMMA SendNextKeeps ==
  ASSUME OutputBuffered, SendNext
  PROVE  OutputBuffered'
<1> DEFINE ch == outbuffer[outnext]
<1>1. /\ sending /\ outcount > 0 /\ line' = Append(line, ch) /\ outcount' = outcount - 1
      /\ outnext' = (IF outnext + 1 >= BUF_SIZE THEN 0 ELSE outnext + 1)
      /\ UNCHANGED <<outbuffer, outlast, sending, written>>
  BY DEF SendNext
<1>2. /\ outbuffer \in [0 .. (BUF_SIZE - 1) -> OutChars]
      /\ outnext \in 0 .. (BUF_SIZE - 1) /\ outcount \in 1 .. BUF_SIZE
      /\ written \in Seq(OutChars) /\ line \in Seq(OutChars)
      /\ outlast = Slot(outnext + outcount)
      /\ Len(written) = Len(line) + outcount
      /\ Len(line) \in Nat
  BY <1>1, Bounds DEF OutputBuffered, OutputTyped
<1>3. ch \in OutChars
  BY <1>2
<1>4. outnext' = Slot(outnext + 1) /\ outnext' \in 0 .. (BUF_SIZE - 1)
  BY <1>1, <1>2, Bounds DEF Slot
<1>5. \A d \in 0 .. outcount - 1 : Slot(outnext' + d) = Slot(outnext + (1 + d))
  <2> TAKE d \in 0 .. outcount - 1
  <2>1. 1 \in 0 .. BUF_SIZE /\ d \in 0 .. BUF_SIZE /\ 1 + d <= BUF_SIZE
    BY <1>2, Bounds
  <2> QED BY <2>1, <1>2, <1>4, CellsAdd
<1> HIDE DEF ch
<1>6. /\ line' \in Seq(OutChars) /\ Len(line') = Len(line) + 1
      /\ \A k \in 1 .. Len(line) : line'[k] = line[k]
      /\ line'[Len(line) + 1] = ch
  BY <1>1, <1>2, <1>3, AppendProperties
<1>7. OutputTyped'
  <2>1. outcount - 1 \in 0 .. outcount - 1 /\ 1 + (outcount - 1) = outcount
        /\ outcount - 1 \in 0 .. BUF_SIZE
    BY <1>2, Bounds
  <2>2. outlast' = Slot(outnext' + outcount')
    BY <2>1, <1>1, <1>2, <1>5
  <2>3. Len(written') = Len(line') + outcount'
    BY <1>1, <1>2, <1>6
  <2> QED BY <2>1, <2>2, <2>3, <1>1, <1>2, <1>4, <1>6 DEF OutputTyped
<1>8. \A k \in 1 .. Len(line') : written'[k] = line'[k]
  <2> TAKE k \in 1 .. Len(line')
  <2>1. CASE k \in 1 .. Len(line)
    BY <2>1, <1>1, <1>6 DEF OutputBuffered
  <2>2. CASE k \notin 1 .. Len(line)
    <3>1. k = Len(line) + 1
      BY <2>2, <1>2, <1>6
    <3>2. written[Len(line) + 1] = outbuffer[Slot(outnext + 1 - 1)]
      BY <1>2 DEF OutputBuffered
    <3>3. Slot(outnext + 1 - 1) = outnext
      BY <1>2, Bounds DEF Slot
    <3> QED BY <3>1, <3>2, <3>3, <1>1, <1>6 DEF ch
  <2> QED BY <2>1, <2>2
<1>9. \A k \in 1 .. outcount' :
        written'[Len(line') + k] = outbuffer'[Slot(outnext' + k - 1)]
  <2> TAKE k \in 1 .. outcount'
  <2>1. /\ k + 1 \in 1 .. outcount /\ k - 1 \in 0 .. outcount - 1
        /\ Len(line') + k = Len(line) + (k + 1)
        /\ outnext' + (k - 1) = outnext' + k - 1
        /\ outnext + (1 + (k - 1)) = outnext + (k + 1) - 1
    BY <1>1, <1>2, <1>4, <1>6
  <2>2. written[Len(line) + (k + 1)] = outbuffer[Slot(outnext + (k + 1) - 1)]
    BY <2>1 DEF OutputBuffered
  <2>3. Slot(outnext' + (k - 1)) = Slot(outnext + (1 + (k - 1)))
    BY <2>1, <1>5
  <2> QED BY <2>1, <2>2, <2>3, <1>1
<1> QED BY <1>7, <1>8, <1>9 DEF OutputBuffered

LEMMA StepOutput ==
  ASSUME OutputBuffered, [SerNext]_serVars, \A s \in Blocks : Head(s) # LF
  PROVE  OutputBuffered'
<1>1. ASSUME UNCHANGED <<outbuffer, outlast, outnext, outcount, sending, written, line>>
      PROVE  OutputBuffered'
  BY <1>1 DEF OutputBuffered, OutputTyped
<1>2. ASSUME SendDone PROVE OutputBuffered'
  <2>1. /\ outcount = 0 /\ outcount' = 0 /\ outlast' = 0 /\ outnext' = 0
        /\ UNCHANGED <<outbuffer, written, line>>
    BY <1>2, Bounds DEF SendDone, OutputBuffered, OutputTyped
  <2>2. 0 = Slot(0) /\ 0 \in 0 .. (BUF_SIZE - 1) /\ 0 \in 0 .. BUF_SIZE
    BY Bounds DEF Slot
  <2>3. OutputTyped'
    BY <2>1, <2>2 DEF OutputBuffered, OutputTyped
  <2> QED BY <2>1, <2>3 DEF OutputBuffered
<1>3. CASE _isr_sio
  BY <1>3, <1>1, <1>2, SendNextKeeps DEF _isr_sio, HandOver, Buffer, outVars
<1>4. CASE InputEnabled \/ ReadChar \/ ReadWaits \/ UNCHANGED serVars
  BY <1>4, <1>1 DEF InputEnabled, ReadChar, ReadWaits, serVars, outVars
<1>5. CASE \E ch \in Written : WriteChar(ch)
  BY <1>5, WriteCharKeeps
<1>6. CASE \E s \in Blocks : WriteBlockBusy(s) \/ WriteBlockIdle(s)
  BY <1>6, WriteBlockKeeps
<1> QED BY <1>3, <1>4, <1>5, <1>6 DEF SerNext

LEMMA OutputIsInOrder == OutputBuffered => OutputInOrder
<1> SUFFICES ASSUME OutputBuffered PROVE OutputInOrder
  OBVIOUS
<1> DEFINE n == Len(line)
<1>1. /\ line \in Seq(OutChars) /\ written \in Seq(OutChars)
      /\ n \in Nat /\ Len(written) \in Nat /\ n <= Len(written)
      /\ \A k \in 1 .. n : written[k] = line[k]
  BY Bounds DEF OutputBuffered, OutputTyped
<1> HIDE DEF n
<1>2. (\A k \in 1 .. n : line[k] \in OutChars) /\ (\A k \in 1 .. n : written[k] \in OutChars)
  BY <1>1 DEF n
<1>3. /\ SubSeq(line, 1, n) \in Seq(OutChars) /\ Len(SubSeq(line, 1, n)) = n
      /\ \A k \in 1 .. n : SubSeq(line, 1, n)[k] = line[k]
  BY <1>1, <1>2, SubSeqProperties
<1>4. /\ SubSeq(written, 1, n) \in Seq(OutChars) /\ Len(SubSeq(written, 1, n)) = n
      /\ \A k \in 1 .. n : SubSeq(written, 1, n)[k] = written[k]
  BY <1>1, <1>2, SubSeqProperties
<1>5. SubSeq(line, 1, n) = SubSeq(written, 1, n)
  BY <1>1, <1>3, <1>4, SeqEqual
<1> QED BY <1>1, <1>5 DEF OutputInOrder, IsPrefix, n

(* Both directions, as the runs check them: what _sio_writec, _sio_writes  *)
(* and the transmitter interrupt do together sends the characters in the   *)
(* order in which they were written, for every buffer size, around its end *)
(* too -- unless a block begins with LF.                                   *)
THEOREM LineAlwaysInOrder ==
  ASSUME \A s \in Blocks : Head(s) # LF
  PROVE  SerSpec => []LineInOrder
<1>1. OutputBuffered /\ [SerNext]_serVars => OutputBuffered'
  BY StepOutput
<1>2. SerSpec => []OutputBuffered
  BY <1>1, InitOutput, PTL DEF SerSpec
<1>3. SerSpec => []InputInOrder
  BY InputAlwaysInOrder
<1>4. InputInOrder /\ OutputBuffered => LineInOrder
  BY OutputIsInOrder DEF LineInOrder
<1> QED BY <1>2, <1>3, <1>4, PTL

-----------------------------------------------------------------------------
(* The keyboard.                                                           *)

Chars == (Keys \cup {"zero"}) \X BOOLEAN \X BOOLEAN

LEMMA RingSize == C_BUFSIZE \in Nat /\ C_BUFSIZE > 1
BY KeyboardAssumption

\* The cell that a pointer means which may have passed the end once.
At(i) == IF i < C_BUFSIZE THEN i ELSE i - C_BUFSIZE

Count == c_input_queue

\* The cells from next_char up to next_space hold what was queued and not yet
\* taken; one cell always stays free, so that equal pointers mean an empty ring.
RingTyped ==
  /\ ring \in [0 .. (C_BUFSIZE - 1) -> Chars]
  /\ {next_char, next_space} \subseteq 0 .. (C_BUFSIZE - 1)
  /\ queued \in Seq(Chars) /\ taken \in Seq(Chars)
  /\ {shift, ctrl} \subseteq BOOLEAN
  /\ Len(queued) = Len(taken) + Count

RingSound ==
  /\ RingTyped
  /\ \A k \in 1 .. Len(taken) : queued[k] = taken[k]
  /\ \A k \in 1 .. Count : queued[Len(taken) + k] = ring[At(next_char + (k - 1))]
  /\ rpc = "taken" => Count > 0 /\ c = ring[next_char]

LEMMA CountFacts ==
  ASSUME RingTyped
  PROVE  /\ Count \in 0 .. (C_BUFSIZE - 1)
         /\ next_space = At(next_char + Count)
         /\ Count = 0 <=> next_char = next_space
<1>1. next_char \in 0 .. (C_BUFSIZE - 1) /\ next_space \in 0 .. (C_BUFSIZE - 1)
  BY DEF RingTyped
<1> QED BY <1>1, RingSize DEF Count, c_input_queue, At

LEMMA CellsApart ==
  ASSUME NEW f \in 0 .. (C_BUFSIZE - 1), NEW i \in 0 .. (C_BUFSIZE - 1),
         NEW j \in 0 .. (C_BUFSIZE - 1), i # j
  PROVE  /\ At(f + i) # At(f + j)
         /\ At(f + i) \in 0 .. (C_BUFSIZE - 1)
         /\ (f + i) % C_BUFSIZE = At(f + i)
<1>1. At(f + i) # At(f + j) /\ At(f + i) \in 0 .. (C_BUFSIZE - 1)
  BY RingSize DEF At
<1>2. (f + i) % C_BUFSIZE = At(f + i)
  <2>1. CASE f + i < C_BUFSIZE
    BY <2>1, RingSize DEF At
  <2>2. CASE f + i >= C_BUFSIZE
    BY <2>2, RingSize DEF At
  <2> QED BY <2>1, <2>2, RingSize
<1> QED BY <1>1, <1>2

LEMMA InitRing == KeyInit => RingSound
<1> SUFFICES ASSUME KeyInit PROVE RingSound
  OBVIOUS
<1>1. /\ ring = [k \in 0 .. C_BUFSIZE - 1 |-> <<"zero", FALSE, FALSE>>]
      /\ next_char = 0 /\ next_space = 0 /\ shift = FALSE /\ ctrl = FALSE
      /\ rpc = "idle" /\ taken = <<>> /\ queued = <<>>
  BY DEF KeyInit
<1>2. <<"zero", FALSE, FALSE>> \in Chars
  BY DEF Chars
<1>3. <<>> \in Seq(Chars) /\ Len(<<>>) = 0
  BY EmptySeq
<1>4. Count = 0
  BY <1>1, RingSize DEF Count, c_input_queue
<1>5. ring \in [0 .. (C_BUFSIZE - 1) -> Chars]
  BY <1>1, <1>2
<1>6. {next_char, next_space} \subseteq 0 .. (C_BUFSIZE - 1)
  BY <1>1, RingSize
<1>7. RingTyped
  <2>1. {shift, ctrl} \subseteq BOOLEAN
    BY <1>1
  <2>2. queued \in Seq(Chars) /\ taken \in Seq(Chars) /\ Len(queued) = Len(taken) + Count
    BY <1>1, <1>3, <1>4
  <2> QED BY <2>1, <2>2, <1>5, <1>6 DEF RingTyped
<1> QED BY <1>1, <1>3, <1>4, <1>7 DEF RingSound

(* A key is stored in the cell behind the last one, or dropped.            *)
LEMMA PressedKeeps ==
  ASSUME RingSound, NEW k \in Keys, KeyPressed(k),
         UNCHANGED <<next_char, rpc, c, taken>>
  PROVE  RingSound'
<1> DEFINE ch == <<k, shift, ctrl>>
<1>1. /\ RingTyped /\ ch \in Chars /\ Len(taken) \in Nat
      /\ Count \in 0 .. (C_BUFSIZE - 1) /\ next_space = At(next_char + Count)
      /\ next_char \in 0 .. (C_BUFSIZE - 1) /\ next_space \in 0 .. (C_BUFSIZE - 1)
      /\ Len(queued) = Len(taken) + Count
      /\ queued \in Seq(Chars)
  BY CountFacts DEF RingSound, RingTyped, Chars
<1>2. UNCHANGED <<shift, ctrl>>
  BY DEF KeyPressed
<1>3. HasSpace(__c_increment(next_space)) <=> Count < C_BUFSIZE - 1
  BY <1>1, RingSize DEF HasSpace, __c_increment, Count, c_input_queue
<1>4. (Len(queued) - Len(taken) < C_BUFSIZE - 1) <=> Count < C_BUFSIZE - 1
  BY <1>1, RingSize
<1> HIDE DEF ch
<1>5. CASE Count < C_BUFSIZE - 1
  <2>1. /\ ring' = [ring EXCEPT ![next_space] = ch]
        /\ next_space' = __c_increment(next_space)
        /\ queued' = Append(queued, ch)
    BY <1>3, <1>4, <1>5 DEF KeyPressed, ch
  <2>2. Count' = Count + 1 /\ next_space' \in 0 .. (C_BUFSIZE - 1)
    BY <2>1, <1>1, <1>5, RingSize DEF __c_increment, Count, c_input_queue, At
  <2>3. /\ queued' \in Seq(Chars) /\ Len(queued') = Len(queued) + 1
        /\ \A i \in 1 .. Len(queued) : queued'[i] = queued[i]
        /\ queued'[Len(queued) + 1] = ch
    <3>1. /\ queued \in Seq(Chars) /\ ch \in Chars
          /\ queued' = Append(queued, ch)
      BY <2>1, <1>1
    <3> QED BY ONLY <3>1, AppendProperties
  <2>4. ring' \in [0 .. (C_BUFSIZE - 1) -> Chars]
    BY <2>1, <1>1 DEF RingTyped
  <2>5. Len(queued') = Len(taken') + Count'
    BY <2>2, <2>3, <1>1
  <2>6. RingTyped'
    BY <2>2, <2>3, <2>4, <2>5, <1>1, <1>2 DEF RingTyped
  <2>7. \A i \in 1 .. Len(taken') : queued'[i] = taken'[i]
    BY <2>3, <1>1 DEF RingSound
  <2>8. \A i \in 1 .. Count : ring'[At(next_char + (i - 1))] = ring[At(next_char + (i - 1))]
    <3> TAKE i \in 1 .. Count
    <3>1. i - 1 \in 0 .. (C_BUFSIZE - 1) /\ i - 1 # Count
      BY <1>1, RingSize
    <3>2. At(next_char + (i - 1)) # next_space
      BY <3>1, <1>1, CellsApart
    <3> QED BY <3>2, <2>1, <1>1 DEF RingTyped
  <2>9. \A i \in 1 .. Count' : queued'[Len(taken') + i] = ring'[At(next_char' + (i - 1))]
    <3> TAKE i \in 1 .. Count'
    <3>1. CASE i \in 1 .. Count
      <4>1. Len(taken) + i \in 1 .. Len(queued)
        BY <3>1, <1>1
      <4> QED BY <4>1, <3>1, <2>3, <2>8 DEF RingSound
    <3>2. CASE i \notin 1 .. Count
      <4>1. i = Count + 1 /\ Len(taken) + i = Len(queued) + 1 /\ i - 1 = Count
        BY <3>2, <2>2, <1>1
      <4>2. ring'[next_space] = ch
        BY <2>1, <1>1 DEF RingTyped
      <4> QED BY <4>1, <4>2, <2>3, <1>1
    <3> QED BY <3>1, <3>2
  <2>10. rpc' = "taken" => Count' > 0 /\ c' = ring'[next_char']
    <3>1. SUFFICES ASSUME rpc = "taken" PROVE Count' > 0 /\ c = ring'[next_char]
      OBVIOUS
    <3>2. Count > 0 /\ c = ring[next_char] /\ next_char # next_space
      BY <3>1, CountFacts, <1>1 DEF RingSound
    <3> QED BY <3>2, <2>1, <2>2, <1>1 DEF RingTyped
  <2> QED BY <2>6, <2>7, <2>9, <2>10 DEF RingSound
<1>6. CASE ~(Count < C_BUFSIZE - 1)
  <2>1. UNCHANGED <<ring, next_space, queued>>
    BY <1>3, <1>4, <1>6 DEF KeyPressed
  <2> QED BY <2>1, <1>2 DEF RingSound, RingTyped, Count, c_input_queue
<1> QED BY <1>5, <1>6

(* The reader releases the character that it has read.                     *)
LEMMA KeepKeeps ==
  ASSUME RingSound, Keep
  PROVE  RingSound'
<1>1. /\ rpc = "taken" /\ next_char' = __c_increment(next_char)
      /\ taken' = Append(taken, c) /\ rpc' # "taken"
      /\ UNCHANGED <<ring, next_space, shift, ctrl, queued>>
  BY DEF Keep
<1>2. /\ RingTyped /\ Count \in 1 .. (C_BUFSIZE - 1) /\ c = ring[next_char]
      /\ next_char \in 0 .. (C_BUFSIZE - 1) /\ next_space \in 0 .. (C_BUFSIZE - 1)
      /\ Len(queued) = Len(taken) + Count /\ Len(taken) \in Nat
      /\ ring \in [0 .. (C_BUFSIZE - 1) -> Chars]
      /\ queued \in Seq(Chars) /\ taken \in Seq(Chars)
      /\ {shift, ctrl} \subseteq BOOLEAN
  BY <1>1, CountFacts, RingSize DEF RingSound, RingTyped
<1>3. c \in Chars
  BY <1>2
<1>4. /\ taken' \in Seq(Chars) /\ Len(taken') = Len(taken) + 1
      /\ \A i \in 1 .. Len(taken) : taken'[i] = taken[i]
      /\ taken'[Len(taken) + 1] = c
  <2>1. taken \in Seq(Chars) /\ c \in Chars /\ taken' = Append(taken, c)
    BY <1>1, <1>2, <1>3
  <2> QED BY ONLY <2>1, AppendProperties
<1>5. Count' = Count - 1 /\ next_char' \in 0 .. (C_BUFSIZE - 1)
  BY <1>1, <1>2, RingSize DEF __c_increment, Count, c_input_queue
<1>6. \A i \in 0 .. (C_BUFSIZE - 2) : At(next_char' + i) = At(next_char + (i + 1))
  BY <1>1, <1>2, RingSize DEF __c_increment, At
<1>7. RingTyped'
  <2>1. Len(queued') = Len(taken') + Count'
    BY <1>1, <1>2, <1>4, <1>5
  <2> QED BY <2>1, <1>1, <1>2, <1>4, <1>5 DEF RingTyped
<1>8. \A i \in 1 .. Len(taken') : queued'[i] = taken'[i]
  <2> TAKE i \in 1 .. Len(taken')
  <2>1. CASE i \in 1 .. Len(taken)
    BY <2>1, <1>1, <1>4 DEF RingSound
  <2>2. CASE i \notin 1 .. Len(taken)
    <3>1. i = Len(taken) + 1
      BY <2>2, <1>2, <1>4
    <3>2. queued[Len(taken) + 1] = ring[At(next_char + (1 - 1))]
      BY <1>2 DEF RingSound
    <3>3. At(next_char + (1 - 1)) = next_char
      BY <1>2, RingSize DEF At
    <3> QED BY <3>1, <3>2, <3>3, <1>1, <1>2, <1>4
  <2> QED BY <2>1, <2>2
<1>9. \A i \in 1 .. Count' : queued'[Len(taken') + i] = ring'[At(next_char' + (i - 1))]
  <2> TAKE i \in 1 .. Count'
  <2>1. /\ i + 1 \in 1 .. Count /\ i - 1 \in 0 .. (C_BUFSIZE - 2)
        /\ Len(taken') + i = Len(taken) + (i + 1) /\ (i - 1) + 1 = (i + 1) - 1
    <3>1. \A n, m, k \in Int : n \in 1 .. (m - 1) /\ k \in 1 .. (n - 1) =>
            /\ k + 1 \in 1 .. n /\ k - 1 \in 0 .. (m - 2)
            /\ (k - 1) + 1 = (k + 1) - 1
      OBVIOUS
    <3>2. \A n, k \in Int : (n + 1) + k = n + (k + 1)
      OBVIOUS
    <3>3. /\ i \in 1 .. (Count - 1) /\ i \in Int
          /\ Count \in 1 .. (C_BUFSIZE - 1) /\ Count \in Int /\ C_BUFSIZE \in Int
      BY <1>2, <1>5, RingSize
    <3>4. Len(taken) \in Int /\ Len(taken') = Len(taken) + 1
      BY <1>2, <1>4
    <3> HIDE DEF Count
    <3> QED BY <3>1, <3>2, <3>3, <3>4
  <2>2. queued[Len(taken) + (i + 1)] = ring[At(next_char + ((i + 1) - 1))]
    BY <2>1 DEF RingSound
  <2>3. At(next_char' + (i - 1)) = At(next_char + ((i - 1) + 1))
    BY <2>1, <1>6
  <2> QED BY <2>1, <2>2, <2>3, <1>1
<1> QED BY <1>1, <1>7, <1>8, <1>9 DEF RingSound

LEMMA StepRing ==
  ASSUME RingSound, [KeyNext]_keyVars
  PROVE  RingSound'
<1>1. ASSUME UNCHANGED <<ring, next_char, next_space, queued, taken>>,
             {shift', ctrl'} \subseteq BOOLEAN,
             rpc' = "taken" => Count > 0 /\ c' = ring[next_char]
      PROVE  RingSound'
  BY <1>1 DEF RingSound, RingTyped, Count, c_input_queue
<1>2. ASSUME __c_input_scan_code, UNCHANGED readerVars PROVE RingSound'
  <2>1. UNCHANGED <<next_char, rpc, c, taken>>
    BY <1>2 DEF readerVars
  <2>2. CASE Modifier
    BY <2>1, <2>2, <1>1 DEF Modifier, RingSound
  <2>3. CASE Released
    BY <2>1, <2>3, <1>1 DEF Released, RingSound, RingTyped
  <2>4. CASE \E k \in Keys : KeyPressed(k)
    BY <2>1, <2>4, PressedKeeps
  <2> QED BY <1>2, <2>2, <2>3, <2>4 DEF __c_input_scan_code
<1>3. CASE __c_keyboard_isr \/ Poll
  BY <1>2, <1>3 DEF __c_keyboard_isr, Poll
<1>4. CASE c_gets \/ LineFull \/ UNCHANGED keyVars
  BY <1>1, <1>4 DEF c_gets, LineFull, keyVars, RingSound, RingTyped
<1>5. CASE Fetch
  <2>1. Count # 0 /\ Count \in 0 .. (C_BUFSIZE - 1)
    BY <1>5, CountFacts DEF Fetch, RingSound
  <2>2. Count > 0
    BY <2>1, RingSize
  <2> QED BY <1>1, <1>5, <2>2 DEF Fetch, RingSound, RingTyped
<1>6. CASE Keep
  BY <1>6, KeepKeeps
<1> QED BY <1>3, <1>4, <1>5, <1>6 DEF KeyNext

LEMMA SoundIsInOrder == RingSound => RingInOrder
<1> SUFFICES ASSUME RingSound PROVE RingInOrder
  OBVIOUS
<1> DEFINE n == Count
<1>1. /\ n \in 0 .. (C_BUFSIZE - 1) /\ next_char \in 0 .. (C_BUFSIZE - 1)
      /\ Len(queued) = Len(taken) + n /\ Len(taken) \in Nat
      /\ ring \in [0 .. (C_BUFSIZE - 1) -> Chars]
      /\ queued \in Seq(Chars) /\ taken \in Seq(Chars)
      /\ rpc = "taken" => n > 0 /\ c = ring[next_char]
  BY CountFacts DEF RingSound, RingTyped
<1>2. /\ \A k \in 1 .. Len(taken) : queued[k] = taken[k]
      /\ \A k \in 1 .. n : queued[Len(taken) + k] = ring[At(next_char + (k - 1))]
  BY DEF RingSound
<1>3. Waiting = [k \in 1 .. n |-> ring[(next_char + k - 1) % C_BUFSIZE]]
  BY DEF Waiting, Count
<1> HIDE DEF n
<1>4. \A k \in 1 .. n : /\ At(next_char + (k - 1)) = (next_char + k - 1) % C_BUFSIZE
                        /\ At(next_char + (k - 1)) \in 0 .. (C_BUFSIZE - 1)
  <2> TAKE k \in 1 .. n
  <2> DEFINE j == IF k = 1 THEN 1 ELSE 0
  <2>1. /\ k - 1 \in 0 .. (C_BUFSIZE - 1) /\ j \in 0 .. (C_BUFSIZE - 1) /\ j # k - 1
        /\ next_char + (k - 1) = next_char + k - 1
    BY <1>1, RingSize
  <2> HIDE DEF j
  <2> QED BY <2>1, <1>1, CellsApart
<1>5. /\ Waiting \in Seq(Chars) /\ Len(Waiting) = n
      /\ \A k \in 1 .. n : Waiting[k] = queued[Len(taken) + k]
  <2>1. \A k \in 1 .. n : ring[(next_char + k - 1) % C_BUFSIZE] \in Chars
    BY <1>1, <1>4
  <2>2. n \in Nat
    BY <1>1
  <2>3. Waiting \in Seq(Chars) /\ Len(Waiting) = n
    BY <1>3, <2>1, <2>2, IsASeq
  <2>4. \A k \in 1 .. n : Waiting[k] = ring[(next_char + k - 1) % C_BUFSIZE]
    BY <1>3
  <2> QED BY <2>3, <2>4, <1>2, <1>4
<1> DEFINE all == taken \o Waiting
<1>6. /\ all \in Seq(Chars) /\ Len(all) = Len(taken) + n
      /\ \A k \in 1 .. Len(taken) + n :
           all[k] = IF k <= Len(taken) THEN taken[k] ELSE Waiting[k - Len(taken)]
  BY <1>1, <1>5, ConcatProperties
<1> HIDE DEF all
<1>7. \A k \in 1 .. Len(queued) : queued[k] = all[k]
  <2> TAKE k \in 1 .. Len(queued)
  <2>1. CASE k \in 1 .. Len(taken)
    BY <2>1, <1>1, <1>2, <1>6
  <2>2. CASE k \notin 1 .. Len(taken)
    <3> DEFINE j == k - Len(taken)
    <3>1. j \in 1 .. n /\ k = Len(taken) + j /\ ~(k <= Len(taken))
          /\ k \in 1 .. Len(taken) + n
      BY <2>2, <1>1
    <3>2. all[k] = Waiting[j]
      BY <3>1, <1>6
    <3> HIDE DEF j
    <3> QED BY <3>1, <3>2, <1>5
  <2> QED BY <2>1, <2>2
<1>8. queued = all
  BY <1>1, <1>6, <1>7, SeqEqual
<1>9. rpc = "taken" => c = queued[Len(taken) + 1]
  <2> SUFFICES ASSUME rpc = "taken" PROVE c = queued[Len(taken) + 1]
    OBVIOUS
  <2>1. 1 \in 1 .. n /\ c = ring[next_char]
    BY <1>1
  <2>2. queued[Len(taken) + 1] = ring[At(next_char + (1 - 1))]
    BY <2>1, <1>2
  <2>3. At(next_char + (1 - 1)) = next_char
    BY <1>1, RingSize DEF At
  <2> QED BY <2>1, <2>2, <2>3
<1> QED BY <1>8, <1>9 DEF RingInOrder, all

(* What the decoder, the interrupt and c_getchar do to the ring together:  *)
(* what readers have taken and what waits is what was typed, in order,     *)
(* except for keys that came while the ring was full, for every size of it *)
(* and wherever the interrupt falls.                                       *)
THEOREM RingAlwaysInOrder == KeySpec => []RingInOrder
<1>1. RingSound /\ [KeyNext]_keyVars => RingSound'
  BY StepRing
<1> QED BY <1>1, InitRing, SoundIsInOrder, PTL DEF KeySpec

(* What is echoed and stored of a longer sequence.  Kept is the function   *)
(* that WithoutEOT applies to the length.                                   *)
Kept(s, n, f) ==
  f = [k \in 0 .. n |->
         IF k = 0 THEN <<>>
         ELSE IF IsEOT(s[k]) THEN f[k - 1] ELSE Append(f[k - 1], s[k])]

LEMMA KeptFacts ==
  ASSUME NEW s, NEW n \in Nat, NEW f, Kept(s, n, f)
  PROVE  /\ f[0] = <<>>
         /\ \A k \in 1 .. n :
              f[k] = IF IsEOT(s[k]) THEN f[k - 1] ELSE Append(f[k - 1], s[k])
<1>1. \A k \in 0 .. n :
        f[k] = IF k = 0 THEN <<>>
               ELSE IF IsEOT(s[k]) THEN f[k - 1] ELSE Append(f[k - 1], s[k])
  BY DEF Kept
<1>2. 0 \in 0 .. n /\ \A k \in 1 .. n : k \in 0 .. n /\ k # 0
  OBVIOUS
<1> QED BY <1>1, <1>2

LEMMA KeptLonger ==
  ASSUME NEW s, NEW n \in Nat, NEW f, Kept(s, n, f)
  PROVE  \E g : Kept(s, n + 1, g)
<1> DEFINE last == IF IsEOT(s[n + 1]) THEN f[n] ELSE Append(f[n], s[n + 1])
           g == [k \in 0 .. (n + 1) |-> IF k = n + 1 THEN last ELSE f[k]]
<1>1. f[0] = <<>> /\ \A k \in 1 .. n :
        f[k] = IF IsEOT(s[k]) THEN f[k - 1] ELSE Append(f[k - 1], s[k])
  BY KeptFacts
<1>2. /\ g = [k \in 0 .. (n + 1) |-> g[k]] /\ g[n + 1] = last
      /\ \A k \in 0 .. n : g[k] = f[k]
  OBVIOUS
<1>3. g[n + 1] = IF IsEOT(s[n + 1]) THEN g[n] ELSE Append(g[n], s[n + 1])
  BY <1>2
<1> HIDE DEF g, last
<1>4. g[0] = <<>>
  BY <1>1, <1>2
<1>5. \A k \in 1 .. n : g[k] = IF IsEOT(s[k]) THEN g[k - 1] ELSE Append(g[k - 1], s[k])
  <2> TAKE k \in 1 .. n
  <2>1. k \in 0 .. n /\ k - 1 \in 0 .. n
    OBVIOUS
  <2> QED BY <2>1, <1>1, <1>2
<1>6. \A k \in 0 .. (n + 1) :
        g[k] = IF k = 0 THEN <<>>
               ELSE IF IsEOT(s[k]) THEN g[k - 1] ELSE Append(g[k - 1], s[k])
  <2>1. \A k \in 0 .. (n + 1) : k = 0 \/ k = n + 1 \/ k \in 1 .. n
    OBVIOUS
  <2>2. (n + 1) - 1 = n /\ n + 1 # 0
    OBVIOUS
  <2> QED BY <2>1, <2>2, <1>3, <1>4, <1>5
<1>7. Kept(s, n + 1, g)
  <2>1. g = [k \in 0 .. (n + 1) |->
               IF k = 0 THEN <<>>
               ELSE IF IsEOT(s[k]) THEN g[k - 1] ELSE Append(g[k - 1], s[k])]
    BY <1>2, <1>6
  <2> QED BY <2>1 DEF Kept
<1> QED BY <1>7

LEMMA KeptExists ==
  ASSUME NEW s, NEW n \in Nat
  PROVE  \E f : Kept(s, n, f)
<1> DEFINE S == {k \in 0 .. n : \E f : Kept(s, k, f)}
<1>1. 0 \in S
  <2> DEFINE f == [k \in 0 .. 0 |-> <<>>]
  <2>1. f = [k \in 0 .. 0 |->
               IF k = 0 THEN <<>>
               ELSE IF IsEOT(s[k]) THEN f[k - 1] ELSE Append(f[k - 1], s[k])]
    OBVIOUS
  <2>2. Kept(s, 0, f)
    BY <2>1 DEF Kept
  <2> QED BY <2>2
<1>2. ASSUME NEW k \in 0 .. (n - 1), k \in S PROVE k + 1 \in S
  <2>1. k + 1 \in 0 .. n /\ k \in Nat
    OBVIOUS
  <2>2. \E f : Kept(s, k, f)
    BY <1>2
  <2>3. \E g : Kept(s, k + 1, g)
    BY <2>1, <2>2, KeptLonger
  <2> QED BY <2>1, <2>3
<1> HIDE DEF S
<1>3. n \in S
  BY <1>1, <1>2, CountUp
<1> QED BY <1>3 DEF S

LEMMA KeptIsUnique ==
  ASSUME NEW s, Len(s) \in Nat
  PROVE  \E f : Kept(s, Len(s), f) /\ WithoutEOT(s) = f[Len(s)]
<1> DEFINE P(f) == f = [k \in 0 .. Len(s) |->
                          IF k = 0 THEN <<>>
                          ELSE IF IsEOT(s[k]) THEN f[k - 1] ELSE Append(f[k - 1], s[k])]
           chosen == CHOOSE f : P(f)
<1>1. WithoutEOT(s) = chosen[Len(s)]
  BY DEF WithoutEOT
<1>2. \E f : P(f)
  BY KeptExists DEF Kept
<1>3. P(chosen)
  BY <1>2
<1> HIDE DEF chosen
<1> QED BY <1>1, <1>3 DEF Kept

\* Two sequences that begin alike keep the same of that.
LEMMA KeptAgree ==
  ASSUME NEW s, NEW t, NEW n \in Nat, NEW m \in Nat, n <= m, NEW f, NEW g,
         Kept(s, n, f), Kept(t, m, g), \A k \in 1 .. n : s[k] = t[k]
  PROVE  f[n] = g[n]
<1> DEFINE S == {k \in 0 .. n : f[k] = g[k]}
<1>1. /\ f[0] = <<>> /\ g[0] = <<>>
      /\ \A k \in 1 .. n :
           f[k] = IF IsEOT(s[k]) THEN f[k - 1] ELSE Append(f[k - 1], s[k])
      /\ \A k \in 1 .. m :
           g[k] = IF IsEOT(t[k]) THEN g[k - 1] ELSE Append(g[k - 1], t[k])
  BY KeptFacts
<1>2. 0 \in S
  BY <1>1
<1>3. ASSUME NEW k \in 0 .. (n - 1), k \in S PROVE k + 1 \in S
  <2>1. k + 1 \in 0 .. n /\ k + 1 \in 1 .. n /\ k + 1 \in 1 .. m /\ (k + 1) - 1 = k
    OBVIOUS
  <2>2. f[k] = g[k] /\ s[k + 1] = t[k + 1]
    BY <1>3, <2>1
  <2>3. f[k + 1] = g[k + 1]
    BY <2>1, <2>2, <1>1
  <2> QED BY <2>1, <2>3
<1> HIDE DEF S
<1>4. n \in S
  BY <1>2, <1>3, CountUp
<1> QED BY <1>4 DEF S

LEMMA WithoutNothing == WithoutEOT(<<>>) = <<>>
<1>1. Len(<<>>) = 0
  OBVIOUS
<1>2. PICK f : Kept(<<>>, 0, f) /\ WithoutEOT(<<>>) = f[0]
  BY <1>1, KeptIsUnique
<1> QED BY <1>2, KeptFacts

LEMMA WithoutMore ==
  ASSUME NEW s \in Seq(Chars), NEW e \in Chars
  PROVE  WithoutEOT(Append(s, e)) = IF IsEOT(e) THEN WithoutEOT(s) ELSE Append(WithoutEOT(s), e)
<1> DEFINE t == Append(s, e)
           n == Len(s)
<1>1. /\ n \in Nat /\ t \in Seq(Chars) /\ Len(t) = n + 1 /\ t[n + 1] = e
      /\ \A k \in 1 .. n : s[k] = t[k]
  BY AppendProperties
<1> HIDE DEF t
<1>2. PICK f : Kept(s, n, f) /\ WithoutEOT(s) = f[n]
  BY <1>1, KeptIsUnique
<1>3. PICK g : Kept(t, n + 1, g) /\ WithoutEOT(t) = g[n + 1]
  <2>1. Len(t) \in Nat
    BY <1>1
  <2>2. \E g : Kept(t, Len(t), g) /\ WithoutEOT(t) = g[Len(t)]
    BY <2>1, KeptIsUnique
  <2> QED BY <2>2, <1>1
<1> HIDE DEF n
<1>4. f[n] = g[n]
  <2>1. n + 1 \in Nat /\ n <= n + 1
    BY <1>1
  <2> QED BY <2>1, <1>1, <1>2, <1>3, KeptAgree
<1>5. g[n + 1] = IF IsEOT(e) THEN g[n] ELSE Append(g[n], e)
  <2>1. n + 1 \in 1 .. (n + 1) /\ (n + 1) - 1 = n /\ n + 1 \in Nat
    BY <1>1
  <2>2. g[n + 1] = IF IsEOT(t[n + 1]) THEN g[(n + 1) - 1] ELSE Append(g[(n + 1) - 1], t[n + 1])
    BY <2>1, <1>3, KeptFacts
  <2> QED BY <2>1, <2>2, <1>1
<1> QED BY <1>2, <1>3, <1>4, <1>5 DEF t

\* What c_gets has got since it was called.
Got == SubSeq(taken, opening + 1, Len(taken))

LineSound ==
  /\ opening \in Nat /\ opening <= Len(taken)
  /\ echoed = WithoutEOT(taken)
  /\ text = WithoutEOT(Got)
  /\ \A k \in (opening + 1) .. Len(taken) :
       (IsEOT(taken[k]) \/ IsNewline(taken[k])) => k = Len(taken) /\ rpc = "idle"

LEMMA RestFacts ==
  ASSUME NEW S, NEW s \in Seq(S), NEW m \in Nat, m <= Len(s)
  PROVE  /\ SubSeq(s, m + 1, Len(s)) \in Seq(S)
         /\ Len(SubSeq(s, m + 1, Len(s))) = Len(s) - m
         /\ \A k \in 1 .. (Len(s) - m) : SubSeq(s, m + 1, Len(s))[k] = s[m + k]
<1>1. Len(s) \in Nat
  OBVIOUS
<1> QED BY ONLY <1>1, s \in Seq(S), m \in Nat, m <= Len(s)

LEMMA GotFacts ==
  ASSUME taken \in Seq(Chars), opening \in Nat, opening <= Len(taken)
  PROVE  /\ Got \in Seq(Chars) /\ Len(Got) = Len(taken) - opening
         /\ \A k \in 1 .. (Len(taken) - opening) : Got[k] = taken[opening + k]
BY RestFacts DEF Got

LEMMA InitLine == KeyInit => LineSound
<1> SUFFICES ASSUME KeyInit PROVE LineSound
  OBVIOUS
<1>1. taken = <<>> /\ echoed = <<>> /\ text = <<>> /\ opening = 0 /\ Len(taken) = 0
  BY DEF KeyInit
<1>2. taken \in Seq(Chars)
  BY <1>1
<1>3. Len(Got) = 0 /\ Got \in Seq(Chars)
  BY <1>1, <1>2, GotFacts
<1>4. Got = <<>>
  BY <1>3
<1> QED BY <1>1, <1>4, WithoutNothing DEF LineSound

LEMMA KeepLine == ASSUME RingSound, LineSound, Keep PROVE LineSound'
<1>1. /\ rpc = "taken" /\ taken' = Append(taken, c) /\ opening' = opening
      /\ echoed' = IF IsEOT(c) THEN echoed ELSE Append(echoed, c)
      /\ text' = IF IsEOT(c) THEN text ELSE Append(text, c)
      /\ IsEOT(c) \/ IsNewline(c) => rpc' = "idle"
  BY DEF Keep
<1>2. taken \in Seq(Chars) /\ c \in Chars
  BY <1>1, CountFacts, RingSize DEF RingSound, RingTyped
<1>3. opening \in Nat /\ opening <= Len(taken) /\ Len(taken) \in Nat
  BY <1>2 DEF LineSound
<1>4. /\ taken' \in Seq(Chars) /\ Len(taken') = Len(taken) + 1
      /\ \A i \in 1 .. Len(taken) : taken'[i] = taken[i]
      /\ taken'[Len(taken) + 1] = c
  <2>1. taken \in Seq(Chars) /\ c \in Chars /\ taken' = Append(taken, c)
    BY <1>1, <1>2
  <2> QED BY ONLY <2>1, AppendProperties
<1>5. echoed' = WithoutEOT(taken')
  BY <1>1, <1>2, WithoutMore DEF LineSound
<1>6. Got \in Seq(Chars) /\ Len(Got) = Len(taken) - opening
      /\ \A k \in 1 .. (Len(taken) - opening) : Got[k] = taken[opening + k]
  BY <1>2, <1>3, GotFacts
<1>7. Got' = Append(Got, c)
  <2> DEFINE n == Len(taken) - opening
             g == Got'
             a == Append(Got, c)
  <2>1. n \in Nat
    BY <1>3
  <2>2. /\ g \in Seq(Chars) /\ Len(g) = n + 1
        /\ \A k \in 1 .. (n + 1) : g[k] = taken'[opening + k]
    <3>1. g = SubSeq(taken', opening + 1, Len(taken'))
      BY <1>1 DEF Got
    <3>2. Len(taken') - opening = n + 1 /\ opening <= Len(taken')
      BY <1>3, <1>4
    <3> DEFINE t == taken'
    <3>3. g = SubSeq(t, opening + 1, Len(t)) /\ t \in Seq(Chars) /\ opening <= Len(t)
          /\ Len(t) - opening = n + 1
      BY <3>1, <3>2, <1>4
    <3> HIDE DEF g, t
    <3>4. /\ g \in Seq(Chars) /\ Len(g) = Len(t) - opening
          /\ \A k \in 1 .. (Len(t) - opening) : g[k] = t[opening + k]
      BY <1>3, <3>3, RestFacts
    <3> QED BY <3>3, <3>4 DEF t
  <2>3. /\ a \in Seq(Chars) /\ Len(a) = n + 1 /\ a[n + 1] = c
        /\ \A k \in 1 .. n : a[k] = Got[k]
    BY <1>2, <1>6, AppendProperties
  <2>4. \A k \in 1 .. (n + 1) : g[k] = a[k]
    <3> TAKE k \in 1 .. (n + 1)
    <3>1. CASE k \in 1 .. n
      <4>1. opening + k \in 1 .. Len(taken)
        BY <3>1, <1>3
      <4> QED BY <4>1, <3>1, <2>2, <2>3, <1>4, <1>6
    <3>2. CASE k \notin 1 .. n
      <4>1. k = n + 1 /\ opening + k = Len(taken) + 1
        BY <3>2, <1>3
      <4> QED BY <4>1, <2>2, <2>3, <1>4
    <3> QED BY <3>1, <3>2
  <2> HIDE DEF n, g, a
  <2>5. g = a
    BY <2>1, <2>2, <2>3, <2>4, SeqEqual
  <2> QED BY <2>5 DEF g, a
<1>8. text' = WithoutEOT(Got')
  BY <1>1, <1>2, <1>6, <1>7, WithoutMore DEF LineSound
<1>9. \A k \in (opening' + 1) .. Len(taken') :
        (IsEOT(taken'[k]) \/ IsNewline(taken'[k])) => k = Len(taken') /\ rpc' = "idle"
  <2> TAKE k \in (opening' + 1) .. Len(taken')
  <2>1. CASE k \in (opening + 1) .. Len(taken)
    <3>1. k \in 1 .. Len(taken)
      BY <2>1, <1>3
    <3>2. ~(IsEOT(taken[k]) \/ IsNewline(taken[k]))
      BY <2>1, <1>1 DEF LineSound
    <3> QED BY <3>1, <3>2, <1>4
  <2>2. CASE k \notin (opening + 1) .. Len(taken)
    <3>1. k = Len(taken) + 1
      BY <2>2, <1>1, <1>3, <1>4
    <3> QED BY <3>1, <1>1, <1>4
  <2> QED BY <2>1, <2>2
<1> QED BY <1>1, <1>3, <1>4, <1>5, <1>8, <1>9 DEF LineSound

LEMMA StepLine ==
  ASSUME RingSound, LineSound, [KeyNext]_keyVars
  PROVE  LineSound'
<1>1. ASSUME UNCHANGED <<taken, echoed, text, opening>>, rpc = "idle" => rpc' = "idle"
      PROVE  LineSound'
  BY <1>1 DEF LineSound, Got
<1>2. CASE __c_keyboard_isr \/ Poll \/ UNCHANGED keyVars
  BY <1>1, <1>2 DEF __c_keyboard_isr, Poll, readerVars, keyVars
<1>3. CASE c_gets
  <2>1. /\ text' = <<>> /\ opening' = Len(taken)
        /\ UNCHANGED <<taken, echoed>>
    BY <1>3 DEF c_gets
  <2>2. taken \in Seq(Chars) /\ Len(taken) \in Nat
    BY DEF RingSound, RingTyped
  <2>3. Got' = <<>>
    <3>1. Got' = SubSeq(taken, Len(taken) + 1, Len(taken))
      BY <2>1 DEF Got
    <3> QED BY <3>1, <2>2
  <2>4. (opening' + 1) .. Len(taken') = {}
    BY <2>1, <2>2
  <2> QED BY <2>1, <2>2, <2>3, <2>4, WithoutNothing DEF LineSound
<1>4. CASE LineFull
  BY <1>1, <1>4 DEF LineFull
<1>5. CASE Fetch
  <2>1. rpc # "idle" /\ UNCHANGED <<taken, echoed, text, opening>>
    BY <1>5 DEF Fetch
  <2> QED BY <1>1, <2>1
<1>6. CASE Keep
  BY <1>6, KeepLine
<1> QED BY <1>2, <1>3, <1>4, <1>5, <1>6 DEF KeyNext

LEMMA LineIsInOrder == RingSound /\ LineSound => KeysInOrder
<1> SUFFICES ASSUME RingSound, LineSound PROVE KeysInOrder
  OBVIOUS
<1>1. taken \in Seq(Chars) /\ Len(taken) \in Nat
  BY DEF RingSound, RingTyped
<1>2. opening \in Nat /\ opening <= Len(taken)
  BY DEF LineSound
<1>3. /\ Got \in Seq(Chars) /\ Len(Got) = Len(taken) - opening
      /\ \A k \in 1 .. (Len(taken) - opening) : Got[k] = taken[opening + k]
  BY <1>1, <1>2, GotFacts
<1>4. DOMAIN Got = 1 .. (Len(taken) - opening)
  BY <1>3
<1>5. \A k \in DOMAIN Got :
        (IsEOT(Got[k]) \/ IsNewline(Got[k])) => k = Len(Got) /\ rpc = "idle"
  <2> TAKE k \in DOMAIN Got
  <2>1. k \in 1 .. (Len(taken) - opening) /\ Got[k] = taken[opening + k]
    BY <1>3, <1>4
  <2>2. opening + k \in (opening + 1) .. Len(taken)
    BY <2>1, <1>1, <1>2
  <2>3. (IsEOT(Got[k]) \/ IsNewline(Got[k])) => opening + k = Len(taken) /\ rpc = "idle"
    BY <2>1, <2>2 DEF LineSound
  <2>4. opening + k = Len(taken) => k = Len(Got)
    BY <2>1, <1>1, <1>2, <1>3
  <2> QED BY <2>3, <2>4
<1>6. RingInOrder
  BY SoundIsInOrder
<1> QED BY <1>5, <1>6 DEF KeysInOrder, LineSound, Got

(* Readers get the keys in the order in which they were typed, each once,  *)
(* and a line is what was typed since c_gets was called, up to a newline,  *)
(* control-D or the size, for every size of the ring and of the line.      *)
THEOREM KeysAlwaysInOrder == KeySpec => []KeysInOrder
<1>1. RingSound /\ [KeyNext]_keyVars => RingSound'
  BY StepRing
<1>2. RingSound /\ LineSound /\ [KeyNext]_keyVars => LineSound'
  BY StepLine
<1> QED BY <1>1, <1>2, InitRing, InitLine, LineIsInOrder, PTL DEF KeySpec

-----------------------------------------------------------------------------
(* The painters.                                                           *)

\* A loop whose rounds are the functions st goes through states of S.
Iterates(S, n, a, st, f) ==
  /\ f \in [0 .. n -> S] /\ f[0] = a
  /\ \A k \in 1 .. n : f[k] = st[k][f[k - 1]]

LEMMA Iteration ==
  ASSUME NEW S, NEW n \in Nat, NEW a \in S, NEW st \in [1 .. n -> [S -> S]]
  PROVE  \E f : Iterates(S, n, a, st, f)
<1> DEFINE T == {m \in 0 .. n : \E f : Iterates(S, m, a, st, f)}
<1>1. 0 \in T
  <2> DEFINE f == [k \in 0 .. 0 |-> a]
  <2>1. f \in [0 .. 0 -> S] /\ f[0] = a /\ 1 .. 0 = {}
    OBVIOUS
  <2> HIDE DEF f
  <2>2. Iterates(S, 0, a, st, f)
    BY <2>1 DEF Iterates
  <2> QED BY <2>2
<1>2. ASSUME NEW m \in 0 .. (n - 1), m \in T PROVE m + 1 \in T
  <2>1. PICK f : Iterates(S, m, a, st, f)
    BY <1>2
  <2> DEFINE g == [k \in 0 .. (m + 1) |-> IF k = m + 1 THEN st[m + 1][f[m]] ELSE f[k]]
  <2>2. m \in 0 .. m /\ m + 1 \in 1 .. n /\ m + 1 \in 0 .. n
    OBVIOUS
  <2>3. /\ f \in [0 .. m -> S] /\ f[0] = a
        /\ \A k \in 1 .. m : f[k] = st[k][f[k - 1]]
    BY <2>1 DEF Iterates
  <2>4. f[m] \in S /\ st[m + 1][f[m]] \in S
    BY <2>2, <2>3
  <2>5. g \in [0 .. (m + 1) -> S]
    BY <2>3, <2>4
  <2>6. g[m + 1] = st[m + 1][f[m]] /\ \A k \in 0 .. m : g[k] = f[k]
    OBVIOUS
  <2>7. g[0] = a
    BY <2>3, <2>6
  <2> HIDE DEF g
  <2>8. \A k \in 1 .. (m + 1) : g[k] = st[k][g[k - 1]]
    <3> TAKE k \in 1 .. (m + 1)
    <3>1. CASE k = m + 1
      <4>1. k - 1 = m /\ m \in 0 .. m
        BY <3>1
      <4> QED BY <4>1, <3>1, <2>6
    <3>2. CASE k # m + 1
      <4>1. k \in 1 .. m /\ k \in 0 .. m /\ k - 1 \in 0 .. m
        BY <3>2
      <4> QED BY <4>1, <2>3, <2>6
    <3> QED BY <3>1, <3>2
  <2>9. Iterates(S, m + 1, a, st, g)
    BY <2>5, <2>7, <2>8 DEF Iterates
  <2> QED BY <2>2, <2>9
<1> HIDE DEF T
<1>3. n \in T
  <2>1. n \in Nat
    OBVIOUS
  <2>2. \A m \in 0 .. (n - 1) : m \in T => m + 1 \in T
    BY <1>2
  <2>3. \A m \in 0 .. n : m \in T
    BY ONLY <2>1, <2>2, <1>1, CountUp
  <2> QED BY <2>3
<1> QED BY <1>3 DEF T

ModeChoices == [mode : 0 .. Len(Modes), diff : Int]

\* The turns of the loop, and what it returns.
ModeLoop(first, f) ==
  /\ f \in [0 .. Len(Modes) -> ModeChoices] /\ f[0] = [mode |-> 0, diff |-> first]
  /\ \A k \in 1 .. Len(Modes) : f[k] = Better(f[k - 1], k)
  /\ _vesa_choose_mode(first) = f[Len(Modes)].mode

LEMMA AreaIsInt == \A k \in 1 .. Len(Modes) : Distance(Modes[k]) \in Int
<1>1. \A k \in 1 .. Len(Modes) : {Modes[k].width, Modes[k].height} \subseteq Nat
  BY PaintingAssumption
<1>2. \A m, w \in Nat : m * w \in Int
  OBVIOUS
<1> TAKE k \in 1 .. Len(Modes)
<1>3. WantedWidth * WantedHeight \in Int
  BY <1>2, PaintingAssumption
<1>4. Modes[k].width * Modes[k].height \in Int
  BY <1>1, <1>2
<1> QED BY <1>3, <1>4 DEF Distance

LEMMA ModeLoops ==
  ASSUME NEW first \in Int PROVE \E f : ModeLoop(first, f)
<1> DEFINE n == Len(Modes)
           S == ModeChoices
           a == [mode |-> 0, diff |-> first]
           st == [k \in 1 .. n |-> [s \in S |-> Better(s, k)]]
           P(f) == f = [k \in 0 .. n |-> IF k = 0 THEN a ELSE Better(f[k - 1], k)]
           chosen == CHOOSE f : P(f)
<1>1. n \in Nat
  BY PaintingAssumption
<1>4. \A b \in S, k \in 1 .. n : Better(b, k) \in S
  BY <1>1, AreaIsInt DEF Better, ModeChoices
<1>5. a \in S
  BY <1>1 DEF ModeChoices
<1>6. st \in [1 .. n -> [S -> S]]
  BY <1>4
<1>7. \A b \in S, k \in 1 .. n : st[k][b] = Better(b, k)
  OBVIOUS
<1> HIDE DEF st, S, a
<1> HIDE DEF n, P, chosen
<1>8. PICK f : Iterates(S, n, a, st, f)
  <2>1. n \in Nat
    BY <1>1
  <2> QED BY ONLY <2>1, <1>5, <1>6, Iteration
<1>9. \A k \in 1 .. n : f[k] = Better(f[k - 1], k)
  <2> TAKE k \in 1 .. n
  <2>1. k - 1 \in 0 .. n
    BY <1>1
  <2>2. f[k - 1] \in S /\ f[k] = st[k][f[k - 1]]
    BY <2>1, <1>8 DEF Iterates
  <2> QED BY <2>2, <1>7
<1>10. P(f)
  <2>1. \A k \in 0 .. n : f[k] = IF k = 0 THEN a ELSE Better(f[k - 1], k)
    BY <1>1, <1>8, <1>9 DEF Iterates
  <2> QED BY <2>1, <1>8 DEF P, Iterates
<1>11. P(chosen)
  BY <1>10 DEF chosen
<1>12. _vesa_choose_mode(first) = chosen[n].mode
  BY DEF _vesa_choose_mode, a, n, chosen, P
<1> DEFINE T == {k \in 0 .. n : chosen[k] \in S}
<1>13. 0 \in T
  BY <1>1, <1>5, <1>11 DEF P
<1>14. ASSUME NEW k \in 0 .. (n - 1), k \in T PROVE k + 1 \in T
  <2>1. k + 1 \in 1 .. n /\ k + 1 \in 0 .. n /\ (k + 1) - 1 = k /\ k + 1 # 0
    BY <1>1
  <2>2. chosen[k + 1] = Better(chosen[k], k + 1)
    BY <2>1, <1>11 DEF P
  <2> QED BY <2>1, <2>2, <1>4, <1>14
<1> HIDE DEF T
<1>15. \A k \in 0 .. n : k \in T
  BY <1>1, <1>13, <1>14, CountUp
<1>16. \A k \in 0 .. n : chosen[k] \in S
  BY <1>15 DEF T
<1>17. chosen \in [0 .. n -> S]
  BY <1>11, <1>16 DEF P
<1>18. chosen[0] = a /\ \A k \in 1 .. n : chosen[k] = Better(chosen[k - 1], k)
  BY <1>1, <1>11 DEF P
<1>19. ModeLoop(first, chosen)
  BY <1>12, <1>17, <1>18 DEF ModeLoop, S, a, n
<1> QED BY <1>19

LEMMA ChosenMode ==
  ASSUME NEW first \in Int
  PROVE  _vesa_choose_mode(first) \in 0 .. Len(Modes)
<1>1. PICK f : ModeLoop(first, f)
  BY ModeLoops
<1>2. Len(Modes) \in 0 .. Len(Modes)
  BY PaintingAssumption
<1> QED BY <1>1, <1>2 DEF ModeLoop, ModeChoices

\* A loop that begins with a distance no mode exceeds ends with the closest.
LEMMA ModeIsClosest ==
  ASSUME NEW first \in Int,
         \A k \in 1 .. Len(Modes) : Usable(Modes[k]) => Distance(Modes[k]) <= first
  PROVE  \A k \in 1 .. Len(Modes) : Usable(Modes[k]) =>
           /\ _vesa_choose_mode(first) # 0
           /\ Distance(Modes[_vesa_choose_mode(first)]) <= Distance(Modes[k])
<1>1. PICK f : ModeLoop(first, f)
  BY ModeLoops
<1> DEFINE n == Len(Modes)
           Best(k) ==
             /\ f[k].mode = 0 => f[k].diff = first
             /\ f[k].mode # 0 => f[k].diff = Distance(Modes[f[k].mode])
             /\ \A l \in 1 .. k : Usable(Modes[l]) =>
                  f[k].mode # 0 /\ f[k].diff <= Distance(Modes[l])
           T == {k \in 0 .. n : Best(k)}
<1>2. n \in Nat /\ \A k \in 1 .. n : Distance(Modes[k]) \in Int
  BY AreaIsInt, PaintingAssumption
<1>3. /\ \A k \in 0 .. n : f[k].mode \in 0 .. n /\ f[k].diff \in Int
      /\ f[0].mode = 0 /\ f[0].diff = first
      /\ \A k \in 1 .. n : f[k] = Better(f[k - 1], k)
  <2>1. /\ f \in [0 .. n -> ModeChoices] /\ f[0] = [mode |-> 0, diff |-> first]
        /\ \A k \in 1 .. n : f[k] = Better(f[k - 1], k)
    BY <1>1 DEF ModeLoop
  <2>2. \A k \in 0 .. n : f[k] \in ModeChoices
    BY <2>1
  <2>3. \A k \in 0 .. n : f[k].mode \in 0 .. n /\ f[k].diff \in Int
    BY <2>2 DEF ModeChoices
  <2> QED BY <2>1, <2>3
<1>4. 0 \in T
  BY <1>2, <1>3
<1> HIDE DEF n
<1>5. ASSUME NEW k \in 0 .. (n - 1), k \in T PROVE k + 1 \in T
  <2>1. /\ k + 1 \in 1 .. n /\ k + 1 \in 0 .. n /\ (k + 1) - 1 = k /\ k \in 0 .. n
        /\ k + 1 # 0
    BY <1>2
  <2>2. f[k + 1] = Better(f[k], k + 1) /\ Best(k)
    BY <2>1, <1>3, <1>5
  <2> DEFINE m == Modes[k + 1]
  <2>3. f[k].diff \in Int /\ Distance(m) \in Int
    BY <2>1, <1>2, <1>3
  <2>4. CASE Usable(m) /\ f[k].diff >= Distance(m)
    <3>1. f[k + 1].mode = k + 1 /\ f[k + 1].diff = Distance(m)
      BY <2>2, <2>4 DEF Better
    <3>2. ASSUME NEW l \in 1 .. (k + 1), Usable(Modes[l])
          PROVE  f[k + 1].diff <= Distance(Modes[l])
      <4>1. CASE l = k + 1
        BY <4>1, <3>1, <2>3
      <4>2. CASE l # k + 1
        <5>1. l \in 1 .. k /\ l \in 1 .. n
          BY <4>2, <2>1, <1>2
        <5>2. f[k].diff <= Distance(Modes[l]) /\ Distance(Modes[l]) \in Int
          BY <5>1, <3>2, <2>2, <1>2
        <5> QED BY <5>2, <3>1, <2>3, <2>4
      <4> QED BY <4>1, <4>2
    <3>3. Best(k + 1)
      BY <3>1, <3>2, <2>1
    <3> QED BY <3>3, <2>1
  <2>5. CASE ~(Usable(m) /\ f[k].diff >= Distance(m))
    <3>1. f[k + 1] = f[k]
      BY <2>2, <2>5 DEF Better
    <3>2. ASSUME NEW l \in 1 .. (k + 1), Usable(Modes[l])
          PROVE  f[k].mode # 0 /\ f[k].diff <= Distance(Modes[l])
      <4>1. CASE l = k + 1
        <5>1. f[k].diff < Distance(m)
          BY <4>1, <3>2, <2>3, <2>5
        <5>2. Distance(m) <= first
          BY <4>1, <3>2, <2>1 DEF n
        <5> QED BY <5>1, <5>2, <4>1, <2>2, <2>3
      <4>2. CASE l # k + 1
        <5>1. l \in 1 .. k
          BY <4>2, <2>1, <1>2
        <5> QED BY <5>1, <3>2, <2>2
      <4> QED BY <4>1, <4>2
    <3>3. Best(k + 1)
      BY <3>1, <3>2, <2>2
    <3> QED BY <3>3, <2>1
  <2> QED BY <2>4, <2>5
<1> HIDE DEF T
<1>6. \A k \in 0 .. n : k \in T
  BY <1>2, <1>4, <1>5, CountUp
<1>7. Best(n) /\ _vesa_choose_mode(first) = f[n].mode
  BY <1>6, <1>2, <1>1 DEF T, ModeLoop, n
<1> QED BY <1>7 DEF n

\* A screen with room for the pointer.
Screen ==
  /\ bounds.x = 0 /\ bounds.y = 0
  /\ bounds.width \in Nat /\ bounds.height \in Nat
  /\ bounds.x2 = bounds.width /\ bounds.y2 = bounds.height
  /\ CURSOR_SIZE <= bounds.width /\ CURSOR_SIZE <= bounds.height

\* What lies between two edges after both are clipped is what lay between them
\* and is not cut off.
LEMMA ClippedEdges ==
  ASSUME NEW a \in Int, NEW b \in Int, NEW n \in Nat, NEW v \in Int
  PROVE  /\ Between(a, 0, n) \in Int /\ Between(b, 0, n) \in Int
         /\ v \in Between(a, 0, n) .. (Between(b, 0, n) - 1)
              <=> v \in a .. (b - 1) /\ v \in 0 .. (n - 1)
BY DEF Between

\* FillRect writes what of the rectangle is on the screen.
LEMMA FillIs ==
  ASSUME Screen, NEW a \in Int, NEW b \in Int, NEW w \in Int, NEW h \in Int
  PROVE  \A x, y : <<x, y>> \in FillRect(Rect(a, b, w, h)) <=>
                     /\ x \in a .. (a + w - 1) /\ y \in b .. (b + h - 1)
                     /\ x \in 0 .. (bounds.width - 1) /\ y \in 0 .. (bounds.height - 1)
<1> DEFINE r == Rect(a, b, w, h)
           l == Between(a, 0, bounds.width)
           m == Between(a + w, 0, bounds.width)
           t == Between(b, 0, bounds.height)
           u == Between(b + h, 0, bounds.height)
<1>1. Clip(r, bounds) = Rect(l, t, m - l, u - t)
  BY DEF Screen, Clip, Rect
<1>2. FillRect(r) = (l .. (l + (m - l) - 1)) \X (t .. (t + (u - t) - 1))
  BY <1>1 DEF FillRect, Pixels, Rect
<1>3. bounds.width \in Nat /\ bounds.height \in Nat /\ a + w \in Int /\ b + h \in Int
  BY DEF Screen
<1>4. l \in Int /\ m \in Int /\ t \in Int /\ u \in Int
  BY <1>3 DEF Between
<1>5. \A x \in Int : x \in l .. (m - 1) <=>
                       x \in a .. (a + w - 1) /\ x \in 0 .. (bounds.width - 1)
  BY <1>3, ClippedEdges
<1>6. \A y \in Int : y \in t .. (u - 1) <=>
                       y \in b .. (b + h - 1) /\ y \in 0 .. (bounds.height - 1)
  BY <1>3, ClippedEdges
<1> HIDE DEF r, l, m, t, u
<1>7. l + (m - l) - 1 = m - 1 /\ t + (u - t) - 1 = u - 1
  BY <1>4
<1>8. \A x, y : <<x, y>> \in FillRect(r) <=> x \in l .. (m - 1) /\ y \in t .. (u - 1)
  BY <1>2, <1>7
<1>9. \A x : x \in l .. (m - 1) <=>
               x \in a .. (a + w - 1) /\ x \in 0 .. (bounds.width - 1)
  <2> TAKE x
  <2>1. x \in l .. (m - 1) => x \in Int
    BY <1>4
  <2>2. x \in 0 .. (bounds.width - 1) => x \in Int
    BY <1>3
  <2> QED BY <2>1, <2>2, <1>5
<1>10. \A y : y \in t .. (u - 1) <=>
                y \in b .. (b + h - 1) /\ y \in 0 .. (bounds.height - 1)
  <2> TAKE y
  <2>1. y \in t .. (u - 1) => y \in Int
    BY <1>4
  <2>2. y \in 0 .. (bounds.height - 1) => y \in Int
    BY <1>3
  <2> QED BY <2>1, <2>2, <1>6
<1> QED BY <1>8, <1>9, <1>10 DEF r

\* The nine parts of a box.
LEMMA Parts ==
  ASSUME NEW r, NEW s
  PROVE  LET p == BoxParts(r, s) IN
         /\ Len(p) = 9
         /\ p[1] = <<1, Rect(r.x + s, r.y + s, r.width - s * 2, r.height - s * 2)>>
         /\ p[2] = <<2, Rect(r.x + s, r.y, r.width - s * 2, s)>>
         /\ p[3] = <<2, Rect(r.x + s, r.y2 - s, r.width - s * 2, s)>>
         /\ p[4] = <<3, Rect(r.x, r.y + s, s, r.height - s * 2)>>
         /\ p[5] = <<3, Rect(r.x2 - s, r.y + s, s, r.height - s * 2)>>
         /\ p[6] = <<4, Rect(r.x, r.y, s, s)>>
         /\ p[7] = <<4, Rect(r.x2 - s, r.y, s, s)>>
         /\ p[8] = <<4, Rect(r.x, r.y2 - s, s, s)>>
         /\ p[9] = <<4, Rect(r.x2 - s, r.y2 - s, s, s)>>
BY DEF BoxParts

\* Together they are the box, as far as it is on the screen.
LEMMA PartsCover ==
  ASSUME Screen, NEW a \in Int, NEW b \in Int, NEW w \in Int, NEW h \in Int,
         NEW s \in Nat, s <= w, s <= h
  PROVE  LET r == Rect(a, b, w, h)
             p == BoxParts(r, s)
         IN  \A x, y :
               (\E k \in 1 .. 9 : <<x, y>> \in FillRect(p[k][2]))
                 <=> <<x, y>> \in Pixels(r) \cap Inside
<1> DEFINE r == Rect(a, b, w, h)
           p == BoxParts(r, s)
           On(x, y) == x \in 0 .. (bounds.width - 1) /\ y \in 0 .. (bounds.height - 1)
           Cov(x, y, e, d, v, g) == x \in e .. (e + v - 1) /\ y \in d .. (d + g - 1)
<1>1. r.x = a /\ r.y = b /\ r.width = w /\ r.height = h /\ r.x2 = a + w /\ r.y2 = b + h
  BY DEF Rect
<1>2. \A e, d, v, g \in Int : \A x, y :
        <<x, y>> \in FillRect(Rect(e, d, v, g)) <=> Cov(x, y, e, d, v, g) /\ On(x, y)
  <2> TAKE e \in Int, d \in Int, v \in Int, g \in Int
  <2>1. \A x, y : <<x, y>> \in FillRect(Rect(e, d, v, g)) <=>
                     /\ x \in e .. (e + v - 1) /\ y \in d .. (d + g - 1)
                     /\ x \in 0 .. (bounds.width - 1) /\ y \in 0 .. (bounds.height - 1)
    BY FillIs
  <2> QED BY <2>1
<1>3. /\ p[1][2] = Rect(a + s, b + s, w - s * 2, h - s * 2)
      /\ p[2][2] = Rect(a + s, b, w - s * 2, s)
      /\ p[3][2] = Rect(a + s, b + h - s, w - s * 2, s)
      /\ p[4][2] = Rect(a, b + s, s, h - s * 2)
      /\ p[5][2] = Rect(a + w - s, b + s, s, h - s * 2)
      /\ p[6][2] = Rect(a, b, s, s)
      /\ p[7][2] = Rect(a + w - s, b, s, s)
      /\ p[8][2] = Rect(a, b + h - s, s, s)
      /\ p[9][2] = Rect(a + w - s, b + h - s, s, s)
  <2> HIDE DEF r, p
  <2>1. /\ p[1] = <<1, Rect(a + s, b + s, w - s * 2, h - s * 2)>>
        /\ p[2] = <<2, Rect(a + s, b, w - s * 2, s)>>
        /\ p[3] = <<2, Rect(a + s, b + h - s, w - s * 2, s)>>
        /\ p[4] = <<3, Rect(a, b + s, s, h - s * 2)>>
        /\ p[5] = <<3, Rect(a + w - s, b + s, s, h - s * 2)>>
        /\ p[6] = <<4, Rect(a, b, s, s)>>
        /\ p[7] = <<4, Rect(a + w - s, b, s, s)>>
        /\ p[8] = <<4, Rect(a, b + h - s, s, s)>>
        /\ p[9] = <<4, Rect(a + w - s, b + h - s, s, s)>>
    BY <1>1, Parts DEF p
  <2> QED BY <2>1
<1>4. /\ a + s \in Int /\ b + s \in Int /\ w - s * 2 \in Int /\ h - s * 2 \in Int
      /\ a + w - s \in Int /\ b + h - s \in Int
  OBVIOUS
<1>5. \A x, y : <<x, y>> \in Pixels(r) \cap Inside <=> Cov(x, y, a, b, w, h) /\ On(x, y)
  BY <1>1 DEF Pixels, Inside, Screen
<1> HIDE DEF r, p
<1> DEFINE Some(x, y) ==
      \/ Cov(x, y, a + s, b + s, w - s * 2, h - s * 2)
      \/ Cov(x, y, a + s, b, w - s * 2, s)
      \/ Cov(x, y, a + s, b + h - s, w - s * 2, s)
      \/ Cov(x, y, a, b + s, s, h - s * 2)
      \/ Cov(x, y, a + w - s, b + s, s, h - s * 2)
      \/ Cov(x, y, a, b, s, s)
      \/ Cov(x, y, a + w - s, b, s, s)
      \/ Cov(x, y, a, b + h - s, s, s)
      \/ Cov(x, y, a + w - s, b + h - s, s, s)
<1>6. \A x, y \in Int : Some(x, y) <=> Cov(x, y, a, b, w, h)
  OBVIOUS
<1>7. \A x, y : On(x, y) => x \in Int /\ y \in Int
  BY DEF Screen
<1> HIDE DEF Cov, On
<1>8. \A x, y : (\E k \in 1 .. 9 : <<x, y>> \in FillRect(p[k][2]))
                  <=> Some(x, y) /\ On(x, y)
  <2> TAKE x, y
  <2>1. /\ <<x, y>> \in FillRect(p[1][2]) <=>
             Cov(x, y, a + s, b + s, w - s * 2, h - s * 2) /\ On(x, y)
        /\ <<x, y>> \in FillRect(p[2][2]) <=> Cov(x, y, a + s, b, w - s * 2, s) /\ On(x, y)
        /\ <<x, y>> \in FillRect(p[3][2]) <=>
             Cov(x, y, a + s, b + h - s, w - s * 2, s) /\ On(x, y)
        /\ <<x, y>> \in FillRect(p[4][2]) <=> Cov(x, y, a, b + s, s, h - s * 2) /\ On(x, y)
        /\ <<x, y>> \in FillRect(p[5][2]) <=>
             Cov(x, y, a + w - s, b + s, s, h - s * 2) /\ On(x, y)
        /\ <<x, y>> \in FillRect(p[6][2]) <=> Cov(x, y, a, b, s, s) /\ On(x, y)
        /\ <<x, y>> \in FillRect(p[7][2]) <=> Cov(x, y, a + w - s, b, s, s) /\ On(x, y)
        /\ <<x, y>> \in FillRect(p[8][2]) <=> Cov(x, y, a, b + h - s, s, s) /\ On(x, y)
        /\ <<x, y>> \in FillRect(p[9][2]) <=>
             Cov(x, y, a + w - s, b + h - s, s, s) /\ On(x, y)
    BY <1>2, <1>3, <1>4
  <2>2. \A k \in 1 .. 9 : \/ k = 1 \/ k = 2 \/ k = 3 \/ k = 4 \/ k = 5 \/ k = 6
                          \/ k = 7 \/ k = 8 \/ k = 9
    OBVIOUS
  <2>3. {1, 2, 3, 4, 5, 6, 7, 8, 9} \subseteq 1 .. 9
    OBVIOUS
  <2> QED BY <2>1, <2>2, <2>3
<1> HIDE DEF Some
<1>9. \A x, y : (\E k \in 1 .. 9 : <<x, y>> \in FillRect(p[k][2]))
                  <=> <<x, y>> \in Pixels(r) \cap Inside
  BY <1>5, <1>6, <1>7, <1>8
<1> QED BY <1>9 DEF r, p

\* What later parts leave: each pixel of one of them, once.
Drawn(r, s, K) ==
  /\ {q[1] : q \in DrawBox(r, s)} =
       {q \in K : \E k \in 1 .. 9 : q \in FillRect(BoxParts(r, s)[k][2])}
  /\ \A q, o \in DrawBox(r, s) : q[1] = o[1] => q[2] = o[2]

LEMMA BoxDrawn ==
  ASSUME NEW r, NEW s, NEW K, Len(BoxParts(r, s)) = 9,
         \A k \in 1 .. 9 : \A q \in FillRect(BoxParts(r, s)[k][2]) : q \in K
  PROVE  Drawn(r, s, K)
<1> DEFINE p == BoxParts(r, s)
           d == DrawBox(r, s)
           After(k) == UNION {FillRect(p[j][2]) : j \in k + 1 .. 9}
<1>1. d = UNION {(FillRect(p[k][2]) \ After(k)) \X {p[k][1]} : k \in 1 .. 9}
  BY DEF DrawBox
<1>2. \A k : \A q : q \in After(k) <=> \E j \in k + 1 .. 9 : q \in FillRect(p[j][2])
  OBVIOUS
<1> HIDE DEF p, d, After
<1>3. ASSUME NEW q \in d
      PROVE  \E k \in 1 .. 9 : /\ q[1] \in FillRect(p[k][2]) /\ q[1] \notin After(k)
                               /\ q[2] = p[k][1]
  BY <1>1
<1>4. ASSUME NEW k \in 1 .. 9, NEW q \in FillRect(p[k][2])
      PROVE  \E o \in d : o[1] = q
  <2> DEFINE S == {9 - j : j \in {i \in 1 .. 9 : q \in FillRect(p[i][2])}}
  <2>1. S \in SUBSET Nat /\ S # {}
    BY <1>4
  <2>2. PICK m \in S : \A n \in S : m <= n
    BY <2>1, LeastElement
  <2>3. PICK j \in 1 .. 9 : m = 9 - j /\ q \in FillRect(p[j][2])
    BY <2>2
  <2>4. q \notin After(j)
    <3>1. SUFFICES ASSUME NEW i \in j + 1 .. 9, q \in FillRect(p[i][2]) PROVE FALSE
      BY <1>2
    <3>2. i \in 1 .. 9 /\ 9 - i \in S
      BY <3>1, <2>3
    <3>3. m <= 9 - i
      BY <3>2, <2>2
    <3> QED BY <3>3, <2>3
  <2>5. <<q, p[j][1]>> \in d
    BY <1>1, <2>3, <2>4
  <2> QED BY <2>5
<1>5. {q[1] : q \in d} = {q \in K : \E k \in 1 .. 9 : q \in FillRect(p[k][2])}
  <2>1. ASSUME NEW q \in d
        PROVE  q[1] \in K /\ \E k \in 1 .. 9 : q[1] \in FillRect(p[k][2])
    BY <1>3 DEF p
  <2> QED BY <2>1, <1>4
<1>6. ASSUME NEW q \in d, NEW o \in d, q[1] = o[1] PROVE q[2] = o[2]
  <2>1. PICK k \in 1 .. 9 : /\ q[1] \in FillRect(p[k][2]) /\ q[1] \notin After(k)
                            /\ q[2] = p[k][1]
    BY <1>3
  <2>2. PICK j \in 1 .. 9 : /\ o[1] \in FillRect(p[j][2]) /\ o[1] \notin After(j)
                            /\ o[2] = p[j][1]
    BY <1>3
  <2>3. ~(k < j) /\ ~(j < k)
    <3>1. k < j => j \in k + 1 .. 9
      OBVIOUS
    <3>2. j < k => k \in j + 1 .. 9
      OBVIOUS
    <3> QED BY <3>1, <3>2, <2>1, <2>2, <1>2, <1>6
  <2>4. k = j
    BY <2>3
  <2> QED BY <2>1, <2>2, <2>4
<1> QED BY <1>5, <1>6 DEF p, d, Drawn

PaintSound ==
  /\ mode \in 0 .. Len(Modes)
  /\ bounds = IF mode = 0 THEN Rect(0, 0, 0, 0)
              ELSE Rect(0, 0, Modes[mode].width, Modes[mode].height)
  /\ BoxTiled

LEMMA InitPaint == PaintInit => PaintSound
<1> SUFFICES ASSUME PaintInit PROVE PaintSound
  OBVIOUS
<1>1. mode \in 0 .. Len(Modes)
  BY ChosenMode, PaintingAssumption DEF PaintInit
<1>2. job[1] = "none"
  BY DEF PaintInit
<1>3. BoxTiled
  BY <1>2 DEF BoxTiled
<1> QED BY <1>1, <1>3 DEF PaintInit, PaintSound

LEMMA BoxSound == ASSUME Screen, PaintBox, UNCHANGED bounds PROVE BoxTiled'
<1>1. PICK b \in Boxes :
        /\ painted' = DrawBox(Rect(b[1], b[2], b[3], b[4]), Scale)
        /\ job' = <<"box", Rect(b[1], b[2], b[3], b[4])>>
  BY DEF PaintBox
<1> DEFINE r == Rect(b[1], b[2], b[3], b[4])
           p == BoxParts(r, Scale)
<1>2. /\ b[1] \in Int /\ b[2] \in Int /\ b[3] \in Int /\ b[4] \in Int
      /\ Scale \in Nat /\ Scale <= b[3] /\ Scale <= b[4]
  BY PaintingAssumption
<1>3. \A x, y : (\E k \in 1 .. 9 : <<x, y>> \in FillRect(p[k][2]))
                  <=> <<x, y>> \in Pixels(r) \cap Inside
  BY <1>2, PartsCover
<1>4. Len(p) = 9
  BY Parts
<1>5. job'[1] = "box" /\ job'[2] = r /\ painted' = DrawBox(r, Scale)
  BY <1>1
<1> HIDE DEF p, r
<1>6. \A k \in 1 .. 9 : \A q \in FillRect(p[k][2]) : q \in Pixels(r) \cap Inside
  <2> TAKE k \in 1 .. 9
  <2> TAKE q \in FillRect(p[k][2])
  <2>1. q = <<q[1], q[2]>>
    BY DEF FillRect, Pixels
  <2> QED BY <2>1, <1>3
<1>7. /\ {q[1] : q \in DrawBox(r, Scale)} =
           {q \in Pixels(r) \cap Inside : \E k \in 1 .. 9 : q \in FillRect(p[k][2])}
      /\ \A q, o \in DrawBox(r, Scale) : q[1] = o[1] => q[2] = o[2]
  <2> DEFINE K == Pixels(r) \cap Inside
  <2>1. Len(BoxParts(r, Scale)) = 9
    BY <1>4 DEF p
  <2>2. \A k \in 1 .. 9 : \A q \in FillRect(BoxParts(r, Scale)[k][2]) : q \in K
    BY <1>6 DEF p
  <2> HIDE DEF K
  <2>3. Drawn(r, Scale, K)
    BY <2>1, <2>2, BoxDrawn
  <2> QED BY <2>3 DEF p, K, Drawn
<1>8. \A q \in Pixels(r) \cap Inside : \E k \in 1 .. 9 : q \in FillRect(p[k][2])
  <2> TAKE q \in Pixels(r) \cap Inside
  <2>1. q = <<q[1], q[2]>>
    BY DEF Pixels
  <2> QED BY <2>1, <1>3
<1>9. {q[1] : q \in painted'} = Pixels(r) \cap Inside
  BY <1>5, <1>7, <1>8
<1>10. Inside' = Inside
  BY DEF Inside
<1>11. \A q \in painted' : q[1] \in Inside
  BY <1>9
<1> QED BY <1>5, <1>7, <1>9, <1>10, <1>11 DEF BoxTiled, Pixels

LEMMA CursorSound == ASSUME Screen, PaintCursor, UNCHANGED bounds PROVE BoxTiled'
<1>1. PICK x \in 0 .. bounds.x2, y \in {0, bounds.y2} :
        painted' = DrawCursor(x, y) \X {0} /\ job' = <<"cursor", x, y>>
  BY DEF PaintCursor
<1> DEFINE a == Between(x, bounds.x, bounds.x2 - CURSOR_SIZE)
           b == Between(y, bounds.y, bounds.y2 - CURSOR_SIZE)
<1>2. /\ a \in Int /\ 0 <= a /\ a + CURSOR_SIZE <= bounds.x2
      /\ b \in Int /\ 0 <= b /\ b + CURSOR_SIZE <= bounds.y2
  BY DEF Screen, Between, CURSOR_SIZE
<1>3. DrawCursor(x, y) = (a .. a + CURSOR_SIZE - 1) \X (b .. b + CURSOR_SIZE - 1)
  BY DEF DrawCursor, Pixels, Rect
<1> HIDE DEF a, b
<1>4. DrawCursor(x, y) \subseteq Inside
  BY <1>2, <1>3 DEF Inside, Screen, CURSOR_SIZE
<1>5. \A q \in painted' : q[1] \in Inside
  BY <1>1, <1>4
<1>6. Inside' = Inside
  BY DEF Inside
<1> QED BY <1>1, <1>5, <1>6 DEF BoxTiled

LEMMA StepPaint == ASSUME PaintSound, [PaintNext]_paintVars PROVE PaintSound'
<1>1. CASE UNCHANGED paintVars
  <2>1. mode' = mode /\ bounds' = bounds /\ painted' = painted /\ job' = job
    BY <1>1 DEF paintVars
  <2>2. BoxTiled'
    BY <2>1 DEF PaintSound, BoxTiled, Inside
  <2> QED BY <2>1, <2>2 DEF PaintSound
<1>2. CASE PaintNext
  <2>1. mode # 0 /\ mode' = mode /\ bounds' = bounds
    BY <1>2 DEF PaintNext
  <2>2. Screen
    <3>1. mode \in 1 .. Len(Modes)
      BY <2>1, PaintingAssumption DEF PaintSound
    <3>2. bounds = Rect(0, 0, Modes[mode].width, Modes[mode].height)
      BY <2>1 DEF PaintSound
    <3>3. /\ Modes[mode].width \in Nat /\ Modes[mode].height \in Nat
          /\ CURSOR_SIZE <= Modes[mode].width /\ CURSOR_SIZE <= Modes[mode].height
      BY <3>1, PaintingAssumption
    <3> QED BY <3>2, <3>3 DEF Screen, Rect
  <2>3. ASSUME PaintBox PROVE BoxTiled'
    <3>1. UNCHANGED bounds
      BY <2>1
    <3> QED BY <3>1, <2>2, <2>3, BoxSound
  <2>4. ASSUME PaintText PROVE BoxTiled'
    <3>1. job'[1] = "text"
      BY <2>4 DEF PaintText
    <3>2. job'[1] \notin {"box", "cursor", "fill"} /\ job'[1] # "box"
      BY <3>1
    <3> QED BY <3>2 DEF BoxTiled
  <2>5. ASSUME PaintCursor PROVE BoxTiled'
    <3>1. UNCHANGED bounds
      BY <2>1
    <3> QED BY <3>1, <2>2, <2>5, CursorSound
  <2>6. ASSUME PaintAll PROVE BoxTiled'
    <3>1. painted' = Fill \X {0} /\ job'[1] = "fill"
      BY <2>6 DEF PaintAll
    <3>2. \A q \in Fill : q \in Inside
      BY <2>2 DEF Fill, Inside, Pixels, Screen
    <3>3. Inside' = Inside
      BY <2>1 DEF Inside
    <3>4. \A q \in painted' : q[1] \in Inside'
      BY <3>1, <3>2, <3>3
    <3>5. job'[1] # "box"
      BY <3>1
    <3> QED BY <3>4, <3>5 DEF BoxTiled
  <2>7. BoxTiled'
    BY <1>2, <2>3, <2>4, <2>5, <2>6 DEF PaintNext
  <2> QED BY <2>1, <2>7 DEF PaintSound
<1> QED BY <1>1, <1>2

(* A box leaves no gap and none of its pixels twice, and what the box, the *)
(* pointer and the fill write stays on the screen, for every screen with   *)
(* room for the pointer and every box with room for its bevel.             *)
THEOREM BoxAlwaysTiled == PaintSpec => []BoxTiled
<1>1. PaintSound /\ [PaintNext]_paintVars => PaintSound'
  BY StepPaint
<1>2. PaintSound => BoxTiled
  BY DEF PaintSound
<1> QED BY <1>1, <1>2, InitPaint, PTL DEF PaintSpec

LEMMA ClosestBeforePainting ==
  ASSUME \A first \in FirstBest : \A k \in DOMAIN Modes :
           Usable(Modes[k]) => Distance(Modes[k]) <= first
  PROVE  PaintInit => ClosestMode
<1> SUFFICES ASSUME PaintInit PROVE ClosestMode
  OBVIOUS
<1>1. PICK first \in FirstBest : mode = _vesa_choose_mode(first)
  BY DEF PaintInit
<1>2. first \in Int /\ DOMAIN Modes = 1 .. Len(Modes)
  BY PaintingAssumption
<1>3. \A k \in 1 .. Len(Modes) : Usable(Modes[k]) => Distance(Modes[k]) <= first
  BY <1>2
<1>4. \A k \in 1 .. Len(Modes) : Usable(Modes[k]) =>
        /\ _vesa_choose_mode(first) # 0
        /\ Distance(Modes[_vesa_choose_mode(first)]) <= Distance(Modes[k])
  BY <1>2, <1>3, ModeIsClosest
<1> QED BY <1>1, <1>2, <1>4 DEF ClosestMode

(* The loop that chooses the video mode lacks nothing but a first value of *)
(* best_diff: with one that no usable mode exceeds, and whatever modes the *)
(* adapter has, the chosen mode is the closest that can be used (vesa.c,   *)
(* _vesa_choose_mode; video.h).                                            *)
THEOREM ClosestWhenBestDiffIsSet ==
  ASSUME \A first \in FirstBest : \A k \in DOMAIN Modes :
           Usable(Modes[k]) => Distance(Modes[k]) <= first
  PROVE  PaintSpec => []ClosestMode
<1>1. PaintInit => ClosestMode
  BY ClosestBeforePainting
<1>2. ClosestMode /\ [PaintNext]_paintVars => ClosestMode'
  <2> SUFFICES ASSUME ClosestMode, [PaintNext]_paintVars PROVE ClosestMode'
    OBVIOUS
  <2>1. mode' = mode
    BY DEF PaintNext, paintVars
  <2> QED BY <2>1 DEF ClosestMode
<1> QED BY <1>1, <1>2, PTL DEF PaintSpec

-----------------------------------------------------------------------------
(* The console: the cells of the screen.                                   *)

\* The cells of the memory.
ScreenCells(row0) == row0 * Width .. Width * (MaxY + 1) - 1

\* A console with its region on the screen; where the cursor is, is said apart.
Shape(cn) ==
  /\ cn = [mem |-> cn.mem, x1 |-> cn.x1, y1 |-> cn.y1, x2 |-> cn.x2, y2 |-> cn.y2,
          x |-> cn.x, y |-> cn.y, row0 |-> cn.row0]
  /\ cn.row0 \in {0, -1} /\ cn.mem = [a \in ScreenCells(cn.row0) |-> cn.mem[a]]
  /\ cn.x1 \in 0 .. MaxX /\ cn.x2 \in 0 .. MaxX /\ cn.x1 <= cn.x2
  /\ cn.y1 \in 0 .. MaxY /\ cn.y2 \in 0 .. MaxY /\ cn.y1 <= cn.y2

CellAt(cn, x, y) == cn.mem[Address(cn, x, y)]
InRegion(cn, x, y) == x \in cn.x1 .. cn.x2 /\ y \in cn.y1 .. cn.y2

\* The same console but for the cursor and what is in the cells.
Keeps(d, cn) ==
  /\ Shape(d) /\ d.row0 = cn.row0
  /\ d.x1 = cn.x1 /\ d.x2 = cn.x2 /\ d.y1 = cn.y1 /\ d.y2 = cn.y2

LEMMA ScreenFacts == MaxX \in Nat /\ MaxY \in Nat /\ Width \in Nat \ {0} /\ Width = MaxX + 1
BY ConsoleAssumptions DEF ConsoleAssumption, Width

\* Rows follow each other: an address is of one cell, and those from one cell
\* of a row to another are of the cells between them.
LEMMA AddressBetween ==
  ASSUME NEW cn, cn.row0 \in Int, NEW x \in 0 .. MaxX, NEW y \in Int,
         NEW u \in 0 .. MaxX, NEW v \in Int
  PROVE  /\ Address(cn, x, y) \in Int
         /\ Address(cn, x, y) <= Address(cn, u, v) <=> y < v \/ (y = v /\ x <= u)
<1> DEFINE r == y + cn.row0
           s == v + cn.row0
<1>1. r \in Int /\ s \in Int /\ Width \in Nat /\ Width = MaxX + 1
  BY ScreenFacts
<1>2. r * Width \in Int /\ s * Width \in Int
  BY <1>1
<1>3. Address(cn, x, y) = x + r * Width /\ Address(cn, u, v) = u + s * Width
  BY DEF Address
<1>4. (y < v <=> r < s) /\ (y = v <=> r = s)
  OBVIOUS
<1> HIDE DEF r, s
<1>5. \A m, n \in Int : m < n => m * Width + Width <= n * Width
  <2> SUFFICES ASSUME NEW m \in Int, NEW n \in Int, m < n
               PROVE  m * Width + Width <= n * Width
    OBVIOUS
  <2>1. PICK k \in Nat : n = m + 1 + k
    <3>1. n - m - 1 \in Nat /\ n = m + 1 + (n - m - 1)
      OBVIOUS
    <3> QED BY <3>1
  <2>2. n * Width = m * Width + Width + k * Width /\ k * Width \in Nat
    BY <2>1, <1>1
  <2> QED BY <2>2, <1>1
<1> DEFINE p == r * Width
           q == s * Width
<1>a. (r < s => p + Width <= q) /\ (s < r => q + Width <= p)
  BY <1>1, <1>5
<1>b. p \in Int /\ q \in Int
  BY <1>2
<1> HIDE DEF p, q
<1>cn. x \in 0 .. (Width - 1) /\ u \in 0 .. (Width - 1)
  BY <1>1, ScreenFacts
<1>6. r < s => x + p <= u + q
  BY <1>1, <1>a, <1>b, <1>cn
<1>7. s < r => ~(x + p <= u + q)
  BY <1>1, <1>a, <1>b, <1>cn
<1>8. r = s => (x + r * Width <= u + s * Width <=> x <= u)
  BY <1>1, <1>2
<1>9. r < s \/ s < r \/ r = s
  BY <1>1
<1> QED BY <1>1, <1>2, <1>3, <1>4, <1>6, <1>7, <1>8, <1>9 DEF p, q

LEMMA AddressApart ==
  ASSUME NEW cn, cn.row0 \in Int, NEW x \in 0 .. MaxX, NEW y \in Int,
         NEW u \in 0 .. MaxX, NEW v \in Int, Address(cn, x, y) = Address(cn, u, v)
  PROVE  x = u /\ y = v
<1>1. Address(cn, x, y) \in Int /\ Address(cn, u, v) \in Int
  BY AddressBetween
<1>2. Address(cn, x, y) <= Address(cn, u, v) /\ Address(cn, u, v) <= Address(cn, x, y)
  BY <1>1
<1>3. y < v \/ (y = v /\ x <= u)
  BY <1>2, AddressBetween
<1>4. v < y \/ (v = y /\ u <= x)
  BY <1>2, AddressBetween
<1> QED BY <1>3, <1>4

LEMMA AddressIsCell ==
  ASSUME NEW cn, cn.row0 \in {0, -1}, NEW x \in 0 .. MaxX, NEW y \in 0 .. MaxY
  PROVE  Address(cn, x, y) \in ScreenCells(cn.row0)
<1>1. /\ Width \in Nat /\ Width = MaxX + 1 /\ MaxY \in Nat /\ MaxX \in Nat
      /\ cn.row0 \in Int /\ cn.row0 <= 0
  BY ScreenFacts
<1>2. (y + cn.row0) * Width = y * Width + cn.row0 * Width
  <2>1. \A m, n, w \in Int : (m + n) * w = m * w + n * w
    OBVIOUS
  <2>2. y \in Int /\ cn.row0 \in Int /\ Width \in Int
    BY <1>1
  <2> HIDE DEF Width
  <2> QED BY <2>1, <2>2
<1>3. cn.row0 * Width \in Int /\ y * Width \in Nat /\ MaxY * Width \in Nat
  BY <1>1
<1>4. y * Width <= MaxY * Width
  <2>1. \A m, n, w \in Nat : m <= n => m * w <= n * w
    OBVIOUS
  <2> QED BY <2>1, <1>1
<1>5. Width * (MaxY + 1) = MaxY * Width + Width
  BY <1>1
<1>6. cn.row0 * Width <= 0
  <2>1. 0 * Width = 0 /\ (-1) * Width = -Width
    BY <1>1
  <2> QED BY <2>1, <1>1
<1> DEFINE p == cn.row0 * Width
           q == y * Width
           t == MaxY * Width
<1>7. p \in Int /\ q \in Nat /\ t \in Nat /\ q <= t /\ p <= 0
  BY <1>3, <1>4, <1>6
<1> HIDE DEF p, q, t
<1>8. x + (q + p) \in p .. (t + Width - 1)
  BY <1>1, <1>7
<1>9. Address(cn, x, y) = x + (q + p)
  BY <1>2 DEF Address, p, q
<1>10. ScreenCells(cn.row0) = p .. (t + Width - 1)
  <2>1. Width * (MaxY + 1) = t + Width
    BY <1>5 DEF t
  <2> DEFINE z == Width * (MaxY + 1)
  <2>2. ScreenCells(cn.row0) = p .. z - 1
    BY DEF ScreenCells, p
  <2>3. z = t + Width
    BY <2>1
  <2> HIDE DEF z
  <2>4. z \in Int /\ Width \in Int /\ z - 1 = t + Width - 1
    BY <2>3, <1>1, <1>7
  <2> QED BY <2>2, <2>4
<1> QED BY <1>8, <1>9, <1>10

-----------------------------------------------------------------------------
(* What the routines write.                                                *)

\* Another memory, or another place of the cursor.
LEMMA NewMemory ==
  ASSUME NEW cn, Shape(cn), NEW m, m = [a \in ScreenCells(cn.row0) |-> m[a]],
         NEW d, d = [cn EXCEPT !.mem = m]
  PROVE  Keeps(d, cn) /\ d.mem = m /\ d.x = cn.x /\ d.y = cn.y
<1>1. cn = [mem |-> cn.mem, x1 |-> cn.x1, y1 |-> cn.y1, x2 |-> cn.x2, y2 |-> cn.y2,
           x |-> cn.x, y |-> cn.y, row0 |-> cn.row0]
  BY DEF Shape
<1>2. d = [mem |-> m, x1 |-> cn.x1, y1 |-> cn.y1, x2 |-> cn.x2, y2 |-> cn.y2,
           x |-> cn.x, y |-> cn.y, row0 |-> cn.row0]
  BY <1>1
<1> QED BY <1>2 DEF Shape, Keeps

LEMMA NewX ==
  ASSUME NEW cn, Shape(cn), NEW x, NEW d, d = [cn EXCEPT !.x = x]
  PROVE  Keeps(d, cn) /\ d.mem = cn.mem /\ d.x = x /\ d.y = cn.y
<1>1. cn = [mem |-> cn.mem, x1 |-> cn.x1, y1 |-> cn.y1, x2 |-> cn.x2, y2 |-> cn.y2,
           x |-> cn.x, y |-> cn.y, row0 |-> cn.row0]
  BY DEF Shape
<1>2. d = [mem |-> cn.mem, x1 |-> cn.x1, y1 |-> cn.y1, x2 |-> cn.x2, y2 |-> cn.y2,
           x |-> x, y |-> cn.y, row0 |-> cn.row0]
  BY <1>1
<1> QED BY <1>2 DEF Shape, Keeps

LEMMA NewY ==
  ASSUME NEW cn, Shape(cn), NEW y, NEW d, d = [cn EXCEPT !.y = y]
  PROVE  Keeps(d, cn) /\ d.mem = cn.mem /\ d.x = cn.x /\ d.y = y
<1>1. cn = [mem |-> cn.mem, x1 |-> cn.x1, y1 |-> cn.y1, x2 |-> cn.x2, y2 |-> cn.y2,
           x |-> cn.x, y |-> cn.y, row0 |-> cn.row0]
  BY DEF Shape
<1>2. d = [mem |-> cn.mem, x1 |-> cn.x1, y1 |-> cn.y1, x2 |-> cn.x2, y2 |-> cn.y2,
           x |-> cn.x, y |-> y, row0 |-> cn.row0]
  BY <1>1
<1> QED BY <1>2 DEF Shape, Keeps

LEMMA KeepsThrough ==
  ASSUME NEW b, NEW cn, NEW d, Keeps(d, cn), Keeps(cn, b)
  PROVE  Keeps(d, b)
BY DEF Keeps

LEMMA StoreFacts ==
  ASSUME NEW cn, Shape(cn), NEW x \in 0 .. MaxX, NEW y \in 0 .. MaxY, NEW ch
  PROVE  LET d == Store(cn, x, y, ch)
         IN  /\ Keeps(d, cn) /\ d.x = cn.x /\ d.y = cn.y /\ CellAt(d, x, y) = ch
             /\ \A u \in 0 .. MaxX, v \in 0 .. MaxY :
                  ~(u = x /\ v = y) => CellAt(d, u, v) = CellAt(cn, u, v)
<1> DEFINE k == Address(cn, x, y)
           m == [cn.mem EXCEPT ![k] = ch]
           d == [cn EXCEPT !.mem = m]
<1>1. Store(cn, x, y, ch) = d
  <2>1. x <= MaxX /\ y <= MaxY
    BY ScreenFacts
  <2>2. [cn EXCEPT !.mem[k] = ch] = [cn EXCEPT !.mem = [cn.mem EXCEPT ![k] = ch]]
    BY DEF Shape
  <2> QED BY <2>1, <2>2 DEF Store
<1>2. cn.mem = [a \in ScreenCells(cn.row0) |-> cn.mem[a]] /\ cn.row0 \in {0, -1} /\ cn.row0 \in Int
  BY DEF Shape
<1>3. k \in ScreenCells(cn.row0)
  BY <1>2, AddressIsCell
<1> HIDE DEF k
<1>4. m = [a \in ScreenCells(cn.row0) |-> m[a]] /\ m[k] = ch
      /\ \A a \in ScreenCells(cn.row0) : a # k => m[a] = cn.mem[a]
  BY <1>2, <1>3
<1> HIDE DEF m
<1>5. Keeps(d, cn) /\ d.mem = m /\ d.x = cn.x /\ d.y = cn.y
  BY <1>4, NewMemory
<1> HIDE DEF d
<1>6. \A u, v : Address(d, u, v) = Address(cn, u, v)
  BY <1>5 DEF Keeps, Address
<1>7. CellAt(d, x, y) = ch
  BY <1>4, <1>5, <1>6 DEF CellAt, k
<1>8. ASSUME NEW u \in 0 .. MaxX, NEW v \in 0 .. MaxY, ~(u = x /\ v = y)
      PROVE  CellAt(d, u, v) = CellAt(cn, u, v)
  <2>1. Address(cn, u, v) # k
    <3>1. y \in Int /\ v \in Int
      OBVIOUS
    <3> QED BY <3>1, <1>2, <1>8, AddressApart DEF k
  <2>2. Address(cn, u, v) \in ScreenCells(cn.row0)
    BY <1>2, AddressIsCell
  <2> QED BY <2>1, <2>2, <1>4, <1>5, <1>6 DEF CellAt
<1> QED BY <1>1, <1>5, <1>7, <1>8

LEMMA StoreRowFacts ==
  ASSUME NEW cn, Shape(cn), NEW p \in 0 .. MaxX, NEW q \in 0 .. MaxX,
         NEW y \in 0 .. MaxY, NEW row
  PROVE  LET d == StoreRow(cn, p, q, y, row)
         IN  /\ Keeps(d, cn) /\ d.x = cn.x /\ d.y = cn.y
             /\ \A u \in 0 .. MaxX, v \in 0 .. MaxY :
                  CellAt(d, u, v) = IF v = y /\ p <= u /\ u <= q THEN row[u]
                                ELSE CellAt(cn, u, v)
<1> DEFINE m == [a \in DOMAIN cn.mem |->
                   IF Address(cn, p, y) <= a /\ a <= Address(cn, q, y)
                   THEN row[a - Address(cn, 0, y)] ELSE cn.mem[a]]
           d == [cn EXCEPT !.mem = m]
<1>1. StoreRow(cn, p, q, y, row) = d
  BY DEF StoreRow, Shape
<1>2. cn.mem = [a \in ScreenCells(cn.row0) |-> cn.mem[a]] /\ cn.row0 \in {0, -1} /\ cn.row0 \in Int
  BY DEF Shape
<1>3. m = [a \in ScreenCells(cn.row0) |-> m[a]]
  BY <1>2
<1>4. \A a \in ScreenCells(cn.row0) :
        m[a] = IF Address(cn, p, y) <= a /\ a <= Address(cn, q, y)
               THEN row[a - Address(cn, 0, y)] ELSE cn.mem[a]
  BY <1>2
<1> HIDE DEF m
<1>5. Keeps(d, cn) /\ d.mem = m /\ d.x = cn.x /\ d.y = cn.y
  BY <1>3, NewMemory
<1> HIDE DEF d
<1>6. \A u, v : Address(d, u, v) = Address(cn, u, v)
  BY <1>5 DEF Keeps, Address
<1>7. ASSUME NEW u \in 0 .. MaxX, NEW v \in 0 .. MaxY
      PROVE  CellAt(d, u, v) = IF v = y /\ p <= u /\ u <= q THEN row[u] ELSE CellAt(cn, u, v)
  <2> DEFINE a == Address(cn, u, v)
  <2>1. a \in ScreenCells(cn.row0)
    BY <1>2, AddressIsCell
  <2>2. y \in Int /\ v \in Int /\ MaxX \in Nat
    BY ScreenFacts
  <2>3. /\ Address(cn, p, y) <= a <=> y < v \/ (y = v /\ p <= u)
        /\ a <= Address(cn, q, y) <=> v < y \/ (v = y /\ u <= q)
    BY <2>2, <1>2, AddressBetween
  <2>4. Address(cn, p, y) <= a /\ a <= Address(cn, q, y) <=> v = y /\ p <= u /\ u <= q
    BY <2>2, <2>3
  <2>5. v = y => a - Address(cn, 0, y) = u
    <3> DEFINE k == (y + cn.row0) * Width
    <3>1. k \in Int
      BY <1>2, ScreenFacts
    <3>2. v = y => a = u + k
      BY DEF Address
    <3>3. Address(cn, 0, y) = 0 + k
      BY DEF Address
    <3> HIDE DEF k, a
    <3> QED BY <3>1, <3>2, <3>3
  <2>6. m[a] = IF Address(cn, p, y) <= a /\ a <= Address(cn, q, y)
               THEN row[a - Address(cn, 0, y)] ELSE cn.mem[a]
    BY <2>1, <1>4
  <2>7. CellAt(d, u, v) = m[a] /\ CellAt(cn, u, v) = cn.mem[a]
    BY <1>5, <1>6 DEF CellAt
  <2> HIDE DEF a
  <2> QED BY <2>4, <2>5, <2>6, <2>7
<1> QED BY <1>1, <1>5, <1>7

-----------------------------------------------------------------------------
(* The loops over lines and over characters.                               *)

Pass(loop, cn, a, s, k) ==
  CASE loop = "clear"  -> StoreRow(s, cn.x1, cn.x2, cn.y1 + k - 1, BlankRow)
    [] loop = "scroll" -> StoreRow(s, cn.x1, cn.x2, cn.y1 + k - 1,
                                   RowBelow(cn, s, cn.y1 + k - 1, a))
    [] loop = "print"  -> Printed(s, a[k])

\* What n passes that begin with m go through.
Passes(loop, cn, a, m, n, g) ==
  g = [k \in 0 .. n |-> IF k = 0 THEN m ELSE Pass(loop, cn, a, g[k - 1], k)]

LEMMA PassesExist ==
  ASSUME NEW loop, NEW cn, NEW a, NEW m, NEW n \in Nat
  PROVE  \E g : Passes(loop, cn, a, m, n, g)
<1> DEFINE S == {k \in 0 .. n : \E g : Passes(loop, cn, a, m, k, g)}
<1>1. 0 \in S
  <2> DEFINE g == [k \in 0 .. 0 |-> m]
  <2>1. g = [k \in 0 .. 0 |-> IF k = 0 THEN m ELSE Pass(loop, cn, a, g[k - 1], k)]
    OBVIOUS
  <2>2. Passes(loop, cn, a, m, 0, g)
    BY <2>1 DEF Passes
  <2> QED BY <2>2
<1>2. ASSUME NEW k \in 0 .. (n - 1), k \in S PROVE k + 1 \in S
  <2>1. PICK g : g = [i \in 0 .. k |->
                        IF i = 0 THEN m ELSE Pass(loop, cn, a, g[i - 1], i)]
    BY <1>2 DEF Passes
  <2> DEFINE h == [i \in 0 .. (k + 1) |->
                     IF i = k + 1 THEN Pass(loop, cn, a, g[k], k + 1) ELSE g[i]]
  <2>2. \A i \in 0 .. k : h[i] = g[i]
    OBVIOUS
  <2>3. h[k + 1] = Pass(loop, cn, a, h[k], k + 1)
    BY <2>2
  <2>4. h[0] = m
    BY <2>1, <2>2
  <2>5. \A i \in 1 .. k : h[i] = Pass(loop, cn, a, h[i - 1], i)
    BY <2>1, <2>2
  <2>6. \A i \in 0 .. (k + 1) :
          h[i] = IF i = 0 THEN m ELSE Pass(loop, cn, a, h[i - 1], i)
    <3>1. \A i \in 0 .. (k + 1) : i = 0 \/ i = k + 1 \/ i \in 1 .. k
      OBVIOUS
    <3>2. (k + 1) - 1 = k
      OBVIOUS
    <3> HIDE DEF h
    <3> QED BY <3>1, <3>2, <2>3, <2>4, <2>5
  <2>7. h = [i \in 0 .. (k + 1) |-> h[i]]
    OBVIOUS
  <2> HIDE DEF h
  <2>8. h = [i \in 0 .. (k + 1) |->
               IF i = 0 THEN m ELSE Pass(loop, cn, a, h[i - 1], i)]
    BY <2>6, <2>7
  <2>9. Passes(loop, cn, a, m, k + 1, h)
    BY <2>8 DEF Passes
  <2> QED BY <2>9
<1>3. \A k \in 0 .. (n - 1) : k \in S => k + 1 \in S
  BY <1>2
<1> HIDE DEF S
<1>4. \A k \in 0 .. n : k \in S
  BY <1>1, <1>3, CountUp
<1>5. n \in S
  BY <1>4
<1> QED BY <1>5 DEF S

OneByOne(loop, cn, a, m, n, g) ==
  g[0] = m /\ \A k \in 0 .. (n - 1) : g[k + 1] = Pass(loop, cn, a, g[k], k + 1)

LEMMA PassesFacts ==
  ASSUME NEW loop, NEW cn, NEW a, NEW m, NEW n \in Nat, NEW g,
         Passes(loop, cn, a, m, n, g)
  PROVE  OneByOne(loop, cn, a, m, n, g)
<1>1. \A k \in 0 .. n : g[k] = IF k = 0 THEN m ELSE Pass(loop, cn, a, g[k - 1], k)
  BY DEF Passes
<1>2. g[0] = m
  BY <1>1
<1>3. ASSUME NEW k \in 0 .. (n - 1) PROVE g[k + 1] = Pass(loop, cn, a, g[k], k + 1)
  <2>1. k + 1 \in 0 .. n /\ k + 1 # 0 /\ (k + 1) - 1 = k
    OBVIOUS
  <2> QED BY <2>1, <1>1
<1> QED BY <1>2, <1>3 DEF OneByOne

LEMMA ClearPasses ==
  ASSUME NEW cn, Height(cn) \in Nat
  PROVE  \E g : Passes("clear", cn, 0, cn, Height(cn), g) /\ c_clearscroll(cn) = g[Height(cn)]
<1>1. PICK g : Passes("clear", cn, 0, cn, Height(cn), g)
  BY PassesExist
<1>2. g = [k \in 0 .. Height(cn) |->
             IF k = 0 THEN cn
             ELSE StoreRow(g[k - 1], cn.x1, cn.x2, cn.y1 + k - 1, BlankRow)]
  BY <1>1 DEF Passes, Pass
<1> QED BY <1>2 DEF c_clearscroll, Passes, Pass

LEMMA ScrollPasses ==
  ASSUME NEW cn, Height(cn) \in Nat, NEW lines, ~(lines > cn.y2 - cn.y1)
  PROVE  \E g : /\ Passes("scroll", cn, lines, cn, Height(cn), g)
                /\ c_scroll(cn, lines) = g[Height(cn)]
<1>1. PICK g : Passes("scroll", cn, lines, cn, Height(cn), g)
  BY PassesExist
<1>2. g = [k \in 0 .. Height(cn) |->
             IF k = 0 THEN cn
             ELSE StoreRow(g[k - 1], cn.x1, cn.x2, cn.y1 + k - 1,
                           RowBelow(cn, g[k - 1], cn.y1 + k - 1, lines))]
  BY <1>1 DEF Passes, Pass
<1> QED BY <1>2 DEF c_scroll, Passes, Pass

\* Clearing leaves blanks in the region and nothing else changed.
LEMMA ClearFacts ==
  ASSUME NEW cn, Shape(cn)
  PROVE  LET d == c_clearscroll(cn)
         IN  /\ Keeps(d, cn) /\ d.x = cn.x /\ d.y = cn.y
             /\ \A u \in 0 .. MaxX, v \in 0 .. MaxY :
                  CellAt(d, u, v) = IF InRegion(cn, u, v) THEN Blank ELSE CellAt(cn, u, v)
<1> DEFINE n == Height(cn)
           Done(d, k) ==
             /\ Keeps(d, cn) /\ d.x = cn.x /\ d.y = cn.y
             /\ \A u \in 0 .. MaxX, v \in 0 .. MaxY :
                  CellAt(d, u, v) = IF InRegion(cn, u, v) /\ v < cn.y1 + k THEN Blank
                                ELSE CellAt(cn, u, v)
<1>1. /\ cn.x1 \in 0 .. MaxX /\ cn.x2 \in 0 .. MaxX /\ cn.y1 \in 0 .. MaxY
      /\ cn.y2 \in 0 .. MaxY /\ cn.y1 <= cn.y2 /\ MaxX \in Nat /\ MaxY \in Nat
  BY ScreenFacts DEF Shape
<1>2. n \in Nat /\ n = cn.y2 - cn.y1 + 1
  BY <1>1 DEF Height
<1>3. PICK g : Passes("clear", cn, 0, cn, n, g) /\ c_clearscroll(cn) = g[n]
  BY <1>2, ClearPasses
<1>4. g[0] = cn /\ \A k \in 0 .. (n - 1) : g[k + 1] = Pass("clear", cn, 0, g[k], k + 1)
  <2> HIDE DEF n, Done
  <2>1. OneByOne("clear", cn, 0, cn, n, g)
    BY <1>2, <1>3, PassesFacts
  <2> QED BY <2>1 DEF OneByOne
<1>5. Done(g[0], 0)
  <2>1. ASSUME NEW u, NEW v \in 0 .. MaxY, InRegion(cn, u, v) PROVE ~(v < cn.y1 + 0)
    BY <1>1, <2>1 DEF InRegion
  <2>2. Keeps(cn, cn)
    BY DEF Keeps
  <2> QED BY <1>4, <2>1, <2>2
<1>6. ASSUME NEW k \in 0 .. (n - 1), Done(g[k], k) PROVE Done(g[k + 1], k + 1)
  <2> DEFINE s == g[k]
             d == g[k + 1]
             y == cn.y1 + k
  <2>1. y \in 0 .. MaxY /\ y \in cn.y1 .. cn.y2 /\ cn.y1 + (k + 1) - 1 = y
        /\ cn.y1 + (k + 1) = y + 1
    BY <1>1, <1>2
  <2>2. d = StoreRow(s, cn.x1, cn.x2, y, BlankRow)
    BY <1>4, <2>1 DEF Pass
  <2>3. Shape(s) /\ Keeps(s, cn)
    BY <1>6 DEF Keeps
  <2> HIDE DEF s, d, y
  <2>4. /\ Keeps(d, s) /\ d.x = s.x /\ d.y = s.y
        /\ \A u \in 0 .. MaxX, v \in 0 .. MaxY :
             CellAt(d, u, v) = IF v = y /\ cn.x1 <= u /\ u <= cn.x2 THEN BlankRow[u]
                           ELSE CellAt(s, u, v)
    BY <1>1, <2>1, <2>2, <2>3, StoreRowFacts
  <2>5. Keeps(d, cn)
    BY <2>3, <2>4, KeepsThrough
  <2>6. ASSUME NEW u \in 0 .. MaxX, NEW v \in 0 .. MaxY
        PROVE  CellAt(d, u, v) = IF InRegion(cn, u, v) /\ v < y + 1 THEN Blank
                             ELSE CellAt(cn, u, v)
    <3>1. BlankRow[u] = Blank
      BY DEF BlankRow
    <3>2. CellAt(s, u, v) = IF InRegion(cn, u, v) /\ v < y THEN Blank ELSE CellAt(cn, u, v)
      BY <1>6 DEF s, y
    <3>3. CellAt(d, u, v) = IF v = y /\ cn.x1 <= u /\ u <= cn.x2 THEN Blank ELSE CellAt(s, u, v)
      BY <2>4, <3>1
    <3> QED BY <3>2, <3>3, <1>1, <2>1 DEF InRegion
  <2>7. d.x = cn.x /\ d.y = cn.y
    BY <1>6, <2>4 DEF s
  <2> QED BY <2>1, <2>5, <2>6, <2>7 DEF d
<1> HIDE DEF Done
<1>7. Done(g[n], n)
  <2> DEFINE S == {k \in 0 .. n : Done(g[k], k)}
  <2>1. 0 \in S
    BY <1>2, <1>5
  <2>2. \A k \in 0 .. (n - 1) : k \in S => k + 1 \in S
    BY <1>2, <1>6
  <2> HIDE DEF S
  <2>3. \A k \in 0 .. n : k \in S
    BY <1>2, <2>1, <2>2, CountUp
  <2> QED BY <1>2, <2>3 DEF S
<1>8. \A u \in 0 .. MaxX, v \in 0 .. MaxY :
        InRegion(cn, u, v) => v < cn.y1 + n
  BY <1>1, <1>2 DEF InRegion
<1> QED BY <1>3, <1>7, <1>8 DEF Done

\* Scrolling moves the region up and leaves blanks below.
LEMMA ScrollFacts ==
  ASSUME NEW cn, Shape(cn), NEW lines \in Nat \ {0}
  PROVE  LET d == c_scroll(cn, lines)
         IN  /\ Keeps(d, cn) /\ (d.x = cn.x \/ d.x = cn.x1)
             /\ \A u \in 0 .. MaxX, v \in 0 .. MaxY :
                  CellAt(d, u, v) = IF ~InRegion(cn, u, v) THEN CellAt(cn, u, v)
                                ELSE IF v + lines <= cn.y2 THEN CellAt(cn, u, v + lines)
                                ELSE Blank
<1> DEFINE n == Height(cn)
           Moved(u, v) == IF v + lines <= cn.y2 THEN CellAt(cn, u, v + lines) ELSE Blank
           Done(d, k) ==
             /\ Keeps(d, cn) /\ d.x = cn.x
             /\ \A u \in 0 .. MaxX, v \in 0 .. MaxY :
                  CellAt(d, u, v) = IF InRegion(cn, u, v) /\ v < cn.y1 + k THEN Moved(u, v)
                                ELSE CellAt(cn, u, v)
<1>1. /\ cn.x1 \in 0 .. MaxX /\ cn.x2 \in 0 .. MaxX /\ cn.y1 \in 0 .. MaxY
      /\ cn.y2 \in 0 .. MaxY /\ cn.y1 <= cn.y2 /\ MaxX \in Nat /\ MaxY \in Nat
  BY ScreenFacts DEF Shape
<1>2. n \in Nat /\ n = cn.y2 - cn.y1 + 1
  BY <1>1 DEF Height
<1>3. ASSUME lines > cn.y2 - cn.y1
      PROVE  LET d == c_scroll(cn, lines)
             IN  /\ Keeps(d, cn) /\ d.x = cn.x1
                 /\ \A u \in 0 .. MaxX, v \in 0 .. MaxY :
                      CellAt(d, u, v) = IF ~InRegion(cn, u, v) THEN CellAt(cn, u, v)
                                    ELSE Moved(u, v)
  <2> DEFINE d == c_clearscroll(cn)
             e == [d EXCEPT !.x = cn.x1]
             f == [e EXCEPT !.y = cn.y1]
  <2>1. c_scroll(cn, lines) = f
    BY <1>3 DEF c_scroll
  <2>2. /\ Keeps(d, cn)
        /\ \A u \in 0 .. MaxX, v \in 0 .. MaxY :
             CellAt(d, u, v) = IF InRegion(cn, u, v) THEN Blank ELSE CellAt(cn, u, v)
    BY ClearFacts
  <2> HIDE DEF d
  <2>3. Keeps(e, d) /\ e.mem = d.mem /\ e.x = cn.x1
    BY <2>2, NewX DEF Keeps
  <2> HIDE DEF e
  <2>4. Keeps(f, e) /\ f.mem = e.mem /\ f.x = e.x
    BY <2>3, NewY DEF Keeps
  <2> HIDE DEF f
  <2>5. Keeps(f, cn) /\ f.mem = d.mem /\ f.x = cn.x1 /\ f.row0 = d.row0
    BY <2>2, <2>3, <2>4 DEF Keeps
  <2>6. ASSUME NEW u \in 0 .. MaxX, NEW v \in 0 .. MaxY
        PROVE  CellAt(f, u, v) = IF ~InRegion(cn, u, v) THEN CellAt(cn, u, v) ELSE Moved(u, v)
    <3>1. CellAt(f, u, v) = CellAt(d, u, v)
      BY <2>5 DEF CellAt, Address
    <3>2. InRegion(cn, u, v) => ~(v + lines <= cn.y2)
      BY <1>1, <1>3 DEF InRegion
    <3> QED BY <3>1, <3>2, <2>2
  <2> QED BY <2>1, <2>5, <2>6
<1>4. ASSUME ~(lines > cn.y2 - cn.y1)
      PROVE  LET d == c_scroll(cn, lines)
             IN  /\ Keeps(d, cn) /\ d.x = cn.x
                 /\ \A u \in 0 .. MaxX, v \in 0 .. MaxY :
                      CellAt(d, u, v) = IF ~InRegion(cn, u, v) THEN CellAt(cn, u, v)
                                    ELSE Moved(u, v)
  <2>3. PICK g : Passes("scroll", cn, lines, cn, n, g) /\ c_scroll(cn, lines) = g[n]
    BY <1>2, <1>4, ScrollPasses
  <2>4. g[0] = cn /\ \A k \in 0 .. (n - 1) :
                      g[k + 1] = Pass("scroll", cn, lines, g[k], k + 1)
    <3> HIDE DEF n, Done, Moved
    <3>1. OneByOne("scroll", cn, lines, cn, n, g)
      BY <1>2, <2>3, PassesFacts
    <3> QED BY <3>1 DEF OneByOne
  <2>5. Done(g[0], 0)
    <3>1. ASSUME NEW u, NEW v \in 0 .. MaxY, InRegion(cn, u, v) PROVE ~(v < cn.y1 + 0)
      BY <1>1, <3>1 DEF InRegion
    <3>2. Keeps(cn, cn)
      BY DEF Keeps
    <3> QED BY <2>4, <3>1, <3>2
  <2>6. ASSUME NEW k \in 0 .. (n - 1), Done(g[k], k) PROVE Done(g[k + 1], k + 1)
    <3> DEFINE s == g[k]
               d == g[k + 1]
               y == cn.y1 + k
               row == RowBelow(cn, s, y, lines)
    <3>1. y \in 0 .. MaxY /\ y \in cn.y1 .. cn.y2 /\ cn.y1 + (k + 1) - 1 = y
          /\ cn.y1 + (k + 1) = y + 1
      BY <1>1, <1>2
    <3>2. d = StoreRow(s, cn.x1, cn.x2, y, row)
      BY <2>4, <3>1 DEF Pass
    <3>3. Shape(s) /\ Keeps(s, cn)
      BY <2>6 DEF Keeps
    <3>4. ASSUME NEW u \in 0 .. MaxX, NEW v \in 0 .. MaxY
          PROVE  CellAt(s, u, v) = IF InRegion(cn, u, v) /\ v < y THEN Moved(u, v)
                               ELSE CellAt(cn, u, v)
      BY <2>6
    <3>5. ASSUME NEW u \in 0 .. MaxX PROVE row[u] = Moved(u, y)
      <4>1. row[u] = IF y + lines <= cn.y2 THEN s.mem[Address(cn, u, y + lines)] ELSE Blank
        BY DEF RowBelow
      <4>2. s.mem[Address(cn, u, y + lines)] = CellAt(s, u, y + lines)
        BY <3>3 DEF Keeps, CellAt, Address
      <4>3. ASSUME y + lines <= cn.y2 PROVE CellAt(s, u, y + lines) = CellAt(cn, u, y + lines)
        <5>1. y + lines \in 0 .. MaxY /\ ~(y + lines < y)
          BY <4>3, <1>1, <3>1
        <5> QED BY <5>1, <3>4
      <4> QED BY <4>1, <4>2, <4>3
    <3>6. d.x = s.x /\ s.x = cn.x
      BY <1>1, <3>1, <3>2, <3>3, <2>6, StoreRowFacts
    <3> HIDE DEF s, d, y, row
    <3>7. /\ Keeps(d, s)
          /\ \A u \in 0 .. MaxX, v \in 0 .. MaxY :
               CellAt(d, u, v) = IF v = y /\ cn.x1 <= u /\ u <= cn.x2 THEN row[u]
                             ELSE CellAt(s, u, v)
      BY <1>1, <3>1, <3>2, <3>3, StoreRowFacts
    <3>8. Keeps(d, cn)
      BY <3>3, <3>7, KeepsThrough
    <3>9. ASSUME NEW u \in 0 .. MaxX, NEW v \in 0 .. MaxY
          PROVE  CellAt(d, u, v) = IF InRegion(cn, u, v) /\ v < y + 1 THEN Moved(u, v)
                               ELSE CellAt(cn, u, v)
      <4>1. CellAt(s, u, v) = IF InRegion(cn, u, v) /\ v < y THEN Moved(u, v)
                          ELSE CellAt(cn, u, v)
        BY <3>4
      <4>2. CellAt(d, u, v) = IF v = y /\ cn.x1 <= u /\ u <= cn.x2 THEN Moved(u, y)
                          ELSE CellAt(s, u, v)
        BY <3>5, <3>7
      <4> HIDE DEF Moved
      <4> QED BY <4>1, <4>2, <1>1, <3>1 DEF InRegion
    <3> QED BY <3>1, <3>6, <3>8, <3>9 DEF d
  <2> HIDE DEF Done, Moved
  <2>7. Done(g[n], n)
    <3> DEFINE S == {k \in 0 .. n : Done(g[k], k)}
    <3>1. 0 \in S
      BY <1>2, <2>5
    <3>2. \A k \in 0 .. (n - 1) : k \in S => k + 1 \in S
      BY <1>2, <2>6
    <3> HIDE DEF S
    <3>3. \A k \in 0 .. n : k \in S
      BY <1>2, <3>1, <3>2, CountUp
    <3> QED BY <1>2, <3>3 DEF S
  <2>8. \A u \in 0 .. MaxX, v \in 0 .. MaxY : InRegion(cn, u, v) => v < cn.y1 + n
    BY <1>1, <1>2 DEF InRegion
  <2> QED BY <2>3, <2>7, <2>8 DEF Done
<1> QED BY <1>3, <1>4

-----------------------------------------------------------------------------
(* One character on the screen and on the sheet.                           *)

\* The cursor is in the region, or before the first column below it.
Cursor(cn) ==
  /\ cn.x \in cn.x1 .. cn.x2 /\ cn.y \in cn.y1 .. cn.y2 + 1
  /\ cn.y = cn.y2 + 1 => cn.x = cn.x1

Down(cn) == IF cn.y > cn.y2 THEN cn.y - cn.y2 ELSE 0

LEMMA ScrolledFacts ==
  ASSUME NEW cn, Shape(cn), Cursor(cn)
  PROVE  LET d == Scrolled(cn)
         IN  /\ Keeps(d, cn) /\ d.x = cn.x /\ d.y = cn.y - Down(cn)
             /\ d.y \in cn.y1 .. cn.y2 /\ Down(cn) \in {0, 1}
             /\ \A u \in 0 .. MaxX, v \in 0 .. MaxY :
                  CellAt(d, u, v) = IF ~InRegion(cn, u, v) THEN CellAt(cn, u, v)
                                ELSE IF v + Down(cn) <= cn.y2 THEN CellAt(cn, u, v + Down(cn))
                                ELSE Blank
<1>1. /\ cn.x1 \in 0 .. MaxX /\ cn.x2 \in 0 .. MaxX /\ cn.y1 \in 0 .. MaxY
      /\ cn.y2 \in 0 .. MaxY /\ cn.y1 <= cn.y2 /\ MaxX \in Nat /\ MaxY \in Nat
      /\ cn.y \in cn.y1 .. cn.y2 + 1
  BY ScreenFacts DEF Shape, Cursor
<1>2. CASE cn.y > cn.y2
  <2> DEFINE d == c_scroll(cn, 1)
             e == [d EXCEPT !.y = cn.y2]
  <2>1. Down(cn) = 1 /\ cn.y = cn.y2 + 1 /\ cn.x = cn.x1 /\ cn.y - cn.y2 = 1
    BY <1>1, <1>2 DEF Down, Cursor
  <2>2. Scrolled(cn) = e
    BY <1>2, <2>1 DEF Scrolled
  <2>3. /\ Keeps(d, cn) /\ d.x = cn.x
        /\ \A u \in 0 .. MaxX, v \in 0 .. MaxY :
             CellAt(d, u, v) = IF ~InRegion(cn, u, v) THEN CellAt(cn, u, v)
                           ELSE IF v + 1 <= cn.y2 THEN CellAt(cn, u, v + 1) ELSE Blank
    BY <2>1, ScrollFacts
  <2> HIDE DEF d
  <2>4. Keeps(e, d) /\ e.mem = d.mem /\ e.x = d.x /\ e.y = cn.y2
    BY <2>3, NewY DEF Keeps
  <2> HIDE DEF e
  <2>5. Keeps(e, cn)
    BY <2>3, <2>4, KeepsThrough
  <2>6. \A u, v : CellAt(e, u, v) = CellAt(d, u, v)
    BY <2>4 DEF CellAt, Address, Keeps
  <2> QED BY <1>1, <2>1, <2>2, <2>3, <2>4, <2>5, <2>6
<1>3. CASE ~(cn.y > cn.y2)
  <2>1. Down(cn) = 0 /\ Scrolled(cn) = cn
    BY <1>3 DEF Down, Scrolled
  <2>2. Keeps(cn, cn) /\ cn.y - 0 = cn.y /\ cn.y \in cn.y1 .. cn.y2
    BY <1>1, <1>3 DEF Keeps
  <2>3. ASSUME NEW u \in 0 .. MaxX, NEW v \in 0 .. MaxY, InRegion(cn, u, v)
        PROVE  v + 0 <= cn.y2 /\ v + 0 = v
    BY <2>3, <1>1 DEF InRegion
  <2> QED BY <2>1, <2>2, <2>3
<1> QED BY <1>2, <1>3

\* Which cells of its line a character writes, and what.
Writes(cn, ch, u) ==
  \/ ch = "nl" /\ cn.x <= u
  \/ ch \notin {"nl", "cr"} /\ u = cn.x
Mark(ch) == IF ch = "nl" THEN Blank ELSE ch

LEMMA PutCharFacts ==
  ASSUME NEW cn, Shape(cn), Cursor(cn), NEW ch
  PROVE  LET d == c_putchar(cn, ch)
             n == Down(cn)
         IN  /\ Keeps(d, cn) /\ Cursor(d)
             /\ \A u \in 0 .. MaxX, v \in 0 .. MaxY :
                  CellAt(d, u, v) = IF ~InRegion(cn, u, v) THEN CellAt(cn, u, v)
                                ELSE IF v = cn.y - n /\ Writes(cn, ch, u) THEN Mark(ch)
                                ELSE IF v + n <= cn.y2 THEN CellAt(cn, u, v + n)
                                ELSE Blank
<1> DEFINE s == Scrolled(cn)
           n == Down(cn)
           Moved(u, v) == IF ~InRegion(cn, u, v) THEN CellAt(cn, u, v)
                          ELSE IF v + n <= cn.y2 THEN CellAt(cn, u, v + n)
                          ELSE Blank
           d == c_putchar(cn, ch)
           Right == \A u \in 0 .. MaxX, v \in 0 .. MaxY :
                      CellAt(d, u, v) = IF ~InRegion(cn, u, v) THEN CellAt(cn, u, v)
                                    ELSE IF v = cn.y - n /\ Writes(cn, ch, u) THEN Mark(ch)
                                    ELSE Moved(u, v)
<1>1. /\ Keeps(s, cn) /\ s.x = cn.x /\ s.y = cn.y - n /\ s.y \in cn.y1 .. cn.y2
      /\ n \in {0, 1}
      /\ \A u \in 0 .. MaxX, v \in 0 .. MaxY : CellAt(s, u, v) = Moved(u, v)
  BY ScrolledFacts
<1>2. /\ s.x1 = cn.x1 /\ s.x2 = cn.x2 /\ s.y1 = cn.y1 /\ s.y2 = cn.y2 /\ Shape(s)
      /\ s.row0 = cn.row0
  BY <1>1 DEF Keeps
<1>3. /\ cn.x1 \in 0 .. MaxX /\ cn.x2 \in 0 .. MaxX /\ cn.y1 \in 0 .. MaxY
      /\ cn.y2 \in 0 .. MaxY /\ cn.y1 <= cn.y2 /\ MaxX \in Nat /\ MaxY \in Nat
      /\ cn.x \in cn.x1 .. cn.x2
  BY ScreenFacts DEF Shape, Cursor
<1>4. s.x \in 0 .. MaxX /\ s.x2 \in 0 .. MaxX /\ s.y \in 0 .. MaxY
  BY <1>1, <1>2, <1>3
<1>5. d = CASE ch = "nl" ->
                 [StoreRow(s, s.x, s.x2, s.y, BlankRow) EXCEPT !.x = s.x1, !.y = s.y + 1]
            [] ch = "cr" -> [s EXCEPT !.x = s.x1]
            [] OTHER ->
                 IF s.x + 1 > s.x2
                 THEN [Store(s, s.x, s.y, ch) EXCEPT !.x = s.x1, !.y = s.y + 1]
                 ELSE [Store(s, s.x, s.y, ch) EXCEPT !.x = s.x + 1]
  BY DEF c_putchar
<1> HIDE DEF s, Moved, d, n
\* A state that has all that was moved, but for some cells of its line.
<1>6. ASSUME NEW p, NEW e, Keeps(p, s), Keeps(e, p), e.mem = p.mem, d = e,
             e.x \in cn.x1 .. cn.x2, e.y \in cn.y1 .. cn.y2 + 1,
             e.y = cn.y2 + 1 => e.x = cn.x1,
             \A u \in 0 .. MaxX, v \in 0 .. MaxY :
               CellAt(p, u, v) = IF v = s.y /\ u \in cn.x1 .. cn.x2 /\ Writes(cn, ch, u)
                             THEN Mark(ch) ELSE CellAt(s, u, v)
      PROVE  Keeps(d, cn) /\ Cursor(d) /\ Right
  <2>1. Keeps(d, cn)
    BY <1>1, <1>6, KeepsThrough
  <2>2. Cursor(d)
    BY <1>6, <2>1 DEF Cursor, Keeps
  <2>3. \A u, v : CellAt(d, u, v) = CellAt(p, u, v)
    BY <1>6 DEF CellAt, Address, Keeps
  <2>4. ASSUME NEW u \in 0 .. MaxX, NEW v \in 0 .. MaxY
        PROVE  CellAt(d, u, v) = IF ~InRegion(cn, u, v) THEN CellAt(cn, u, v)
                             ELSE IF v = cn.y - n /\ Writes(cn, ch, u) THEN Mark(ch)
                             ELSE Moved(u, v)
    <3>1. CellAt(d, u, v) = IF v = s.y /\ u \in cn.x1 .. cn.x2 /\ Writes(cn, ch, u)
                        THEN Mark(ch) ELSE Moved(u, v)
      BY <1>1, <1>6, <2>3
    <3>2. ~InRegion(cn, u, v) => Moved(u, v) = CellAt(cn, u, v)
      BY DEF Moved
    <3>3. (v = s.y /\ u \in cn.x1 .. cn.x2) => InRegion(cn, u, v)
      BY <1>1 DEF InRegion
    <3>4. InRegion(cn, u, v) => u \in cn.x1 .. cn.x2
      BY DEF InRegion
    <3> QED BY <3>1, <3>2, <3>3, <3>4, <1>1
  <2> QED BY <2>1, <2>2, <2>4
<1>7. CASE ch = "nl"
  <2> DEFINE p == StoreRow(s, s.x, s.x2, s.y, BlankRow)
             q == [p EXCEPT !.x = s.x1]
             e == [q EXCEPT !.y = s.y + 1]
  <2>1. d = e
    BY <1>5, <1>7
  <2>2. /\ Keeps(p, s)
        /\ \A u \in 0 .. MaxX, v \in 0 .. MaxY :
             CellAt(p, u, v) = IF v = s.y /\ s.x <= u /\ u <= s.x2 THEN BlankRow[u]
                           ELSE CellAt(s, u, v)
    BY <1>2, <1>4, StoreRowFacts
  <2> HIDE DEF p
  <2>3. Keeps(q, p) /\ q.mem = p.mem /\ q.x = s.x1
    BY <2>2, NewX DEF Keeps
  <2> HIDE DEF q
  <2>4. Keeps(e, q) /\ e.mem = q.mem /\ e.x = q.x /\ e.y = s.y + 1
    BY <2>3, NewY DEF Keeps
  <2> HIDE DEF e
  <2>5. Keeps(e, p) /\ e.mem = p.mem
    BY <2>3, <2>4, KeepsThrough
  <2>6. ASSUME NEW u \in 0 .. MaxX, NEW v \in 0 .. MaxY
        PROVE  CellAt(p, u, v) = IF v = s.y /\ u \in cn.x1 .. cn.x2 /\ Writes(cn, ch, u)
                             THEN Mark(ch) ELSE CellAt(s, u, v)
    <3>1. BlankRow[u] = Mark(ch)
      BY <1>7 DEF BlankRow, Mark
    <3>2. (s.x <= u /\ u <= s.x2) <=> (u \in cn.x1 .. cn.x2 /\ Writes(cn, ch, u))
      BY <1>1, <1>2, <1>3, <1>7 DEF Writes
    <3> QED BY <3>1, <3>2, <2>2
  <2>7. e.x \in cn.x1 .. cn.x2 /\ e.y \in cn.y1 .. cn.y2 + 1 /\ e.x = cn.x1
    BY <1>1, <1>2, <1>3, <2>3, <2>4
  <2>8. Keeps(d, cn) /\ Cursor(d) /\ Right
    BY <2>1, <2>2, <2>5, <2>6, <2>7, <1>6
  <2> QED BY <2>8 DEF Moved, d, n
<1>8. CASE ch = "cr"
  <2> DEFINE e == [s EXCEPT !.x = s.x1]
  <2>1. d = e
    BY <1>5, <1>8
  <2>2. Keeps(s, s)
    BY <1>2 DEF Keeps
  <2>3. Keeps(e, s) /\ e.mem = s.mem /\ e.x = s.x1 /\ e.y = s.y
    BY <1>2, NewX
  <2> HIDE DEF e
  <2>4. \A u \in 0 .. MaxX : ~Writes(cn, ch, u)
    BY <1>8 DEF Writes
  <2>5. e.x \in cn.x1 .. cn.x2 /\ e.y \in cn.y1 .. cn.y2 + 1 /\ e.x = cn.x1
    BY <1>1, <1>2, <1>3, <2>3
  <2>6. Keeps(d, cn) /\ Cursor(d) /\ Right
    BY <2>1, <2>2, <2>3, <2>4, <2>5, <1>6
  <2> QED BY <2>6 DEF Moved, d, n
<1>9. CASE ch \notin {"nl", "cr"}
  <2> DEFINE p == Store(s, s.x, s.y, ch)
             q == [p EXCEPT !.x = s.x1]
             e == [q EXCEPT !.y = s.y + 1]
             f == [p EXCEPT !.x = s.x + 1]
  <2>1. d = IF s.x + 1 > s.x2 THEN e ELSE f
    BY <1>5, <1>9
  <2>2. /\ Keeps(p, s) /\ p.x = s.x /\ p.y = s.y /\ CellAt(p, s.x, s.y) = ch
        /\ \A u \in 0 .. MaxX, v \in 0 .. MaxY :
             ~(u = s.x /\ v = s.y) => CellAt(p, u, v) = CellAt(s, u, v)
    BY <1>2, <1>4, StoreFacts
  <2> HIDE DEF p
  <2>3. Keeps(q, p) /\ q.mem = p.mem /\ q.x = s.x1
    BY <2>2, NewX DEF Keeps
  <2>4. Keeps(f, p) /\ f.mem = p.mem /\ f.x = s.x + 1 /\ f.y = s.y
    BY <2>2, NewX DEF Keeps
  <2> HIDE DEF q, f
  <2>5. Keeps(e, q) /\ e.mem = q.mem /\ e.x = q.x /\ e.y = s.y + 1
    BY <2>3, NewY DEF Keeps
  <2> HIDE DEF e
  <2>6. Keeps(e, p) /\ e.mem = p.mem
    BY <2>3, <2>5, KeepsThrough
  <2>7. ASSUME NEW u \in 0 .. MaxX, NEW v \in 0 .. MaxY
        PROVE  CellAt(p, u, v) = IF v = s.y /\ u \in cn.x1 .. cn.x2 /\ Writes(cn, ch, u)
                             THEN Mark(ch) ELSE CellAt(s, u, v)
    <3>1. Mark(ch) = ch /\ (Writes(cn, ch, u) <=> u = s.x)
      BY <1>1, <1>9 DEF Mark, Writes
    <3>2. s.x \in cn.x1 .. cn.x2
      BY <1>1, <1>3
    <3> QED BY <3>1, <3>2, <2>2
  <2>8. CASE s.x + 1 > s.x2
    <3>1. e.x \in cn.x1 .. cn.x2 /\ e.y \in cn.y1 .. cn.y2 + 1 /\ e.x = cn.x1
      BY <1>1, <1>2, <1>3, <2>3, <2>5
    <3>2. Keeps(d, cn) /\ Cursor(d) /\ Right
      BY <2>1, <2>2, <2>6, <2>7, <2>8, <3>1, <1>6
    <3> QED BY <3>2 DEF Moved, d, n
  <2>9. CASE ~(s.x + 1 > s.x2)
    <3>1. f.x \in cn.x1 .. cn.x2 /\ f.y \in cn.y1 .. cn.y2 + 1 /\ f.y # cn.y2 + 1
      BY <1>1, <1>2, <1>3, <2>4, <2>9
    <3>2. Keeps(d, cn) /\ Cursor(d) /\ Right
      BY <2>1, <2>2, <2>4, <2>7, <2>9, <3>1, <1>6
    <3> QED BY <3>2 DEF Moved, d, n
  <2> QED BY <2>8, <2>9
<1> QED BY <1>7, <1>8, <1>9

-----------------------------------------------------------------------------
(* The sheet.                                                              *)

\* Lines of w + 1 characters.
IsSheet(s, w) ==
  /\ Len(s) \in Nat /\ s = [k \in 1 .. Len(s) |-> s[k]]
  /\ \A k \in 1 .. Len(s) : s[k] = [m \in 0 .. w |-> s[k][m]]

LEMMA LineFacts ==
  ASSUME NEW s, NEW cn, NEW i \in Nat, Len(s) \in Nat
  PROVE  LineAt(s, cn, i) = IF i + 1 \in 1 .. Len(s) THEN s[i + 1] ELSE EmptyLine(cn)
BY DEF LineAt

\* Blank lines behind those that are there.
LEMMA LongerSheet ==
  ASSUME NEW s, NEW cn, IsSheet(s, Margin(cn)), NEW n \in Nat
  PROVE  LET t == s \o [k \in 1 .. n |-> EmptyLine(cn)]
         IN  /\ IsSheet(t, Margin(cn)) /\ Len(t) = Len(s) + n
             /\ \A i \in Nat : LineAt(t, cn, i) = LineAt(s, cn, i)
<1> DEFINE E == EmptyLine(cn)
           T == {s[k] : k \in 1 .. Len(s)} \cup {E}
           z == [k \in 1 .. n |-> E]
           t == s \o z
           w == Margin(cn)
<1>1. Len(s) \in Nat /\ s = [k \in 1 .. Len(s) |-> s[k]]
  BY DEF IsSheet
<1>2. s \in Seq(T)
  <2>1. \A k \in 1 .. Len(s) : s[k] \in T
    OBVIOUS
  <2> HIDE DEF T
  <2> QED BY <1>1, <2>1
<1>3. z \in Seq(T) /\ Len(z) = n /\ \A k \in 1 .. n : z[k] = E
  <2>1. E \in T
    OBVIOUS
  <2> HIDE DEF T, E
  <2> QED BY <2>1
<1> HIDE DEF T, z
<1>4. /\ t \in Seq(T) /\ Len(t) = Len(s) + n
      /\ \A k \in 1 .. Len(s) : t[k] = s[k]
      /\ \A k \in Len(s) + 1 .. Len(s) + n : t[k] = z[k - Len(s)]
  BY <1>2, <1>3
<1> HIDE DEF t
<1>5. \A k \in Len(s) + 1 .. Len(s) + n : t[k] = E
  <2>1. \A k \in Len(s) + 1 .. Len(s) + n : k - Len(s) \in 1 .. n
    BY <1>1
  <2> HIDE DEF E
  <2> QED BY <2>1, <1>3, <1>4
<1>6. E = [m \in 0 .. w |-> E[m]]
  BY DEF EmptyLine
<1> HIDE DEF E
<1>7. IsSheet(t, w)
  <2>1. Len(t) \in Nat /\ t = [k \in 1 .. Len(t) |-> t[k]]
    BY <1>1, <1>4
  <2>2. \A k \in 1 .. Len(t) : k \in 1 .. Len(s) \/ k \in Len(s) + 1 .. Len(s) + n
    BY <1>1, <1>4
  <2>3. \A k \in 1 .. Len(s) : s[k] = [m \in 0 .. w |-> s[k][m]]
    BY DEF IsSheet
  <2>4. ASSUME NEW k \in 1 .. Len(t) PROVE t[k] = [m \in 0 .. w |-> t[k][m]]
    <3>1. CASE k \in 1 .. Len(s)
      BY <3>1, <2>3, <1>4
    <3>2. CASE k \in Len(s) + 1 .. Len(s) + n
      BY <3>2, <1>5, <1>6
    <3> QED BY <2>2, <3>1, <3>2
  <2> QED BY <2>1, <2>4 DEF IsSheet
<1>8. ASSUME NEW i \in Nat PROVE LineAt(t, cn, i) = LineAt(s, cn, i)
  <2>1. LineAt(s, cn, i) = IF i + 1 \in 1 .. Len(s) THEN s[i + 1] ELSE E
    BY <1>1, LineFacts DEF E
  <2>2. LineAt(t, cn, i) = IF i + 1 \in 1 .. Len(t) THEN t[i + 1] ELSE E
    BY <1>1, <1>4, LineFacts DEF E
  <2>3. CASE i + 1 \in 1 .. Len(s)
    BY <2>1, <2>2, <2>3, <1>1, <1>4
  <2>4. CASE i + 1 \in Len(s) + 1 .. Len(s) + n
    BY <2>1, <2>2, <2>4, <1>1, <1>4, <1>5
  <2>5. CASE ~(i + 1 \in 1 .. Len(s) + n)
    BY <2>1, <2>2, <2>5, <1>1, <1>4
  <2> QED BY <1>1, <2>3, <2>4, <2>5
<1> QED BY <1>4, <1>7, <1>8 DEF t, z, E

IsLine(new, w) == new = [m \in 0 .. w |-> new[m]]

\* t has line at its place i, and else what s has.
Replaced(t, s, i, new) ==
  /\ Len(t) = Len(s) /\ t = [k \in 1 .. Len(t) |-> t[k]]
  /\ \A k \in 1 .. Len(t) : t[k] = IF k = i THEN new ELSE s[k]

\* A line of a sheet that is there is replaced.
LEMMA ReplacedLine ==
  ASSUME NEW s, NEW cn, IsSheet(s, Margin(cn)), NEW i \in Nat, i < Len(s), NEW new,
         IsLine(new, Margin(cn)), NEW t, Replaced(t, s, i + 1, new)
  PROVE  /\ IsSheet(t, Margin(cn)) /\ Len(t) = Len(s)
         /\ \A k \in Nat : LineAt(t, cn, k) = IF k = i THEN new ELSE LineAt(s, cn, k)
<1> DEFINE n == Len(s)
           w == Margin(cn)
<1>1. n \in Nat /\ s = [k \in 1 .. n |-> s[k]]
      /\ \A k \in 1 .. n : s[k] = [m \in 0 .. w |-> s[k][m]]
  BY DEF IsSheet
<1> HIDE DEF n
<1>2. i + 1 \in 1 .. n
  BY <1>1 DEF n
<1>4. Len(t) = n /\ t = [k \in 1 .. n |-> t[k]]
  BY DEF Replaced, n
<1>5. \A k \in 1 .. n : t[k] = IF k = i + 1 THEN new ELSE s[k]
  BY <1>4 DEF Replaced
<1>6. IsSheet(t, w)
  <2>1. ASSUME NEW k \in 1 .. n PROVE t[k] = [m \in 0 .. w |-> t[k][m]]
    BY <1>1, <1>5 DEF IsLine
  <2> QED BY <1>1, <1>4, <2>1 DEF IsSheet
<1>7. ASSUME NEW k \in Nat
      PROVE  LineAt(t, cn, k) = IF k = i THEN new ELSE LineAt(s, cn, k)
  <2>1. /\ LineAt(s, cn, k) = IF k + 1 \in 1 .. n THEN s[k + 1] ELSE EmptyLine(cn)
        /\ LineAt(t, cn, k) = IF k + 1 \in 1 .. n THEN t[k + 1] ELSE EmptyLine(cn)
    BY <1>1, <1>4, LineFacts DEF n
  <2>2. k + 1 = i + 1 <=> k = i
    OBVIOUS
  <2>3. k + 1 \in 1 .. n => t[k + 1] = IF k = i THEN new ELSE s[k + 1]
    BY <2>2, <1>5
  <2>4. k = i => k + 1 \in 1 .. n
    BY <1>2
  <2> QED BY <2>1, <2>3, <2>4
<1> QED BY <1>4, <1>6, <1>7 DEF n

\* t is s but for the cells of line i that ch writes.
Marked(t, s, cn, i, ch) ==
  /\ IsSheet(t, Margin(cn)) /\ (Len(t) = Len(s) \/ Len(t) <= i + 1)
  /\ \A k \in Nat, m \in 0 .. Margin(cn) :
       LineAt(t, cn, k)[m] = IF k = i /\ Writes(cn, ch, cn.x1 + m) THEN Mark(ch)
                            ELSE LineAt(s, cn, k)[m]

\* The sheet after a character: its line has it, the others are as they were.
LEMMA OnSheetFacts ==
  ASSUME NEW s, NEW cn, Shape(cn), IsSheet(s, Margin(cn)), NEW i \in Nat,
         cn.x \in cn.x1 .. cn.x2, NEW ch, NEW t, t = OnSheet(s, cn, i, cn.x - cn.x1, ch)
  PROVE  Marked(t, s, cn, i, ch)
<1> DEFINE n == IF i < Len(s) THEN 0 ELSE i + 1 - Len(s)
           longer == s \o [k \in 1 .. n |-> EmptyLine(cn)]
           j == cn.x - cn.x1
           w == Margin(cn)
           old == longer[i + 1]
<1>1. Len(s) \in Nat
  BY DEF IsSheet
<1>2. n \in Nat /\ Len(s) + n > i /\ (n = 0 \/ Len(s) + n = i + 1)
  BY <1>1
<1>3. /\ cn.x1 \in Int /\ cn.x \in Int /\ j \in 0 .. w /\ w \in Nat /\ w = cn.x2 - cn.x1
  BY ScreenFacts DEF Shape, Margin
<1> HIDE DEF n
<1>4. /\ IsSheet(longer, w) /\ Len(longer) = Len(s) + n
      /\ \A k \in Nat : LineAt(longer, cn, k) = LineAt(s, cn, k)
  BY <1>2, LongerSheet
<1>5. t = CASE ch = "nl" ->
                 [longer EXCEPT ![i + 1] = [k \in DOMAIN @ |-> IF k < j THEN @[k] ELSE Blank]]
            [] ch = "cr" -> s
            [] OTHER -> [longer EXCEPT ![i + 1][j] = ch]
  BY DEF OnSheet, n
<1> HIDE DEF longer, j, w
<1>6. i < Len(longer) /\ i + 1 \in 1 .. Len(longer) /\ Len(longer) \in Nat
  BY <1>1, <1>2, <1>4
<1>7. old = [m \in 0 .. w |-> old[m]] /\ LineAt(longer, cn, i) = old
  BY <1>6, <1>4, LineFacts DEF IsSheet
<1>8. longer = [k \in 1 .. Len(longer) |-> longer[k]]
  BY <1>4 DEF IsSheet
\* A line that differs where the character is written.
<1>9. ASSUME NEW new, new = [m \in 0 .. w |-> new[m]], t = [longer EXCEPT ![i + 1] = new],
             \A m \in 0 .. w : new[m] = IF Writes(cn, ch, cn.x1 + m) THEN Mark(ch) ELSE old[m]
      PROVE  Marked(t, s, cn, i, ch)
  <2>a. IsSheet(longer, Margin(cn)) /\ IsLine(new, Margin(cn))
    BY <1>4, <1>9 DEF w, IsLine
  <2>b. Replaced(t, longer, i + 1, new)
    <3> DEFINE z == Len(longer)
               r == [k \in 1 .. z |-> IF k = i + 1 THEN new ELSE longer[k]]
    <3>1. z \in Nat /\ longer = [k \in 1 .. z |-> longer[k]]
      BY <1>6, <1>8
    <3>2. t = r
      BY <3>1, <1>9
    <3>3. Len(r) = z /\ r = [k \in 1 .. z |-> r[k]]
          /\ \A k \in 1 .. z : r[k] = IF k = i + 1 THEN new ELSE longer[k]
      BY <3>1
    <3> HIDE DEF z, r
    <3>4. Len(t) = z /\ t = [k \in 1 .. z |-> t[k]]
          /\ \A k \in 1 .. z : t[k] = IF k = i + 1 THEN new ELSE longer[k]
      BY <3>2, <3>3
    <3> QED BY <3>4 DEF z, Replaced
  <2>1. /\ IsSheet(t, w) /\ Len(t) = Len(longer)
        /\ \A k \in Nat : LineAt(t, cn, k) = IF k = i THEN new ELSE LineAt(longer, cn, k)
    BY <2>a, <2>b, <1>6, ReplacedLine DEF w
  <2>2. Len(t) = Len(s) \/ Len(t) <= i + 1
    BY <2>1, <1>1, <1>2, <1>4
  <2>3. ASSUME NEW k \in Nat, NEW m \in 0 .. w
        PROVE  LineAt(t, cn, k)[m] = IF k = i /\ Writes(cn, ch, cn.x1 + m) THEN Mark(ch)
                                    ELSE LineAt(s, cn, k)[m]
    BY <2>1, <1>4, <1>7, <1>9
  <2> QED BY <2>1, <2>2, <2>3 DEF w, Marked
<1>10. CASE ch = "nl"
  <2> DEFINE new == [m \in 0 .. w |-> IF m < j THEN old[m] ELSE Blank]
  <2>1. t = [longer EXCEPT ![i + 1] = new]
    <3>1. DOMAIN old = 0 .. w
      BY <1>7
    <3>2. t = [longer EXCEPT ![i + 1] = [k \in DOMAIN old |-> IF k < j THEN old[k] ELSE Blank]]
      BY <1>5, <1>6, <1>8, <1>10
    <3> QED BY <3>1, <3>2
  <2>2. \A m \in 0 .. w : new[m] = IF Writes(cn, ch, cn.x1 + m) THEN Mark(ch) ELSE old[m]
    <3>1. ASSUME NEW m \in 0 .. w PROVE Writes(cn, ch, cn.x1 + m) <=> ~(m < j)
      BY <1>3, <1>10 DEF Writes, j
    <3>2. Mark(ch) = Blank
      BY <1>10 DEF Mark
    <3> QED BY <3>1, <3>2
  <2>3. new = [m \in 0 .. w |-> new[m]]
    OBVIOUS
  <2> HIDE DEF new
  <2> QED BY <2>1, <2>2, <2>3, <1>9
<1>11. CASE ch = "cr"
  <2>1. t = s /\ \A m : ~Writes(cn, ch, cn.x1 + m)
    BY <1>5, <1>11 DEF Writes
  <2> QED BY <2>1, <1>1 DEF Marked
<1>12. CASE ch \notin {"nl", "cr"}
  <2> DEFINE new == [old EXCEPT ![j] = ch]
  <2>1. t = [longer EXCEPT ![i + 1] = new]
    BY <1>5, <1>6, <1>8, <1>12
  <2>2. new = [m \in 0 .. w |-> new[m]]
        /\ \A m \in 0 .. w : new[m] = IF m = j THEN ch ELSE old[m]
    BY <1>3, <1>7
  <2> HIDE DEF new
  <2>3. \A m \in 0 .. w : new[m] = IF Writes(cn, ch, cn.x1 + m) THEN Mark(ch) ELSE old[m]
    <3>1. ASSUME NEW m \in 0 .. w PROVE Writes(cn, ch, cn.x1 + m) <=> m = j
      BY <1>3, <1>12 DEF Writes, j
    <3>2. Mark(ch) = ch
      BY <1>12 DEF Mark
    <3> QED BY <3>1, <3>2, <2>2
  <2> QED BY <2>1, <2>2, <2>3, <1>9
<1> QED BY <1>10, <1>11, <1>12

-----------------------------------------------------------------------------
(* The console and its sheet.                                              *)

\* For s with the fields con, above and sheet: the region shows the last lines
\* of the sheet, which has none below the region.
OnPaper(s) ==
  /\ Shape(s.con) /\ Cursor(s.con)
  /\ s.above \in Nat /\ IsSheet(s.sheet, Margin(s.con))
  /\ Len(s.sheet) <= s.above + Height(s.con)
  /\ \A i \in 0 .. s.con.y2 - s.con.y1, j \in 0 .. Margin(s.con) :
       CellAt(s.con, s.con.x1 + j, s.con.y1 + i) = LineAt(s.sheet, s.con, s.above + i)[j]

SameOutside(d, cn) ==
  \A u \in 0 .. MaxX, v \in 0 .. MaxY : ~InRegion(cn, u, v) => CellAt(d, u, v) = CellAt(cn, u, v)

LEMMA SameLines ==
  ASSUME NEW cn, NEW d, Keeps(d, cn)
  PROVE  /\ Margin(d) = Margin(cn) /\ Height(d) = Height(cn)
         /\ \A s, i : LineAt(s, d, i) = LineAt(s, cn, i)
BY DEF Keeps, Margin, Height, LineAt, EmptyLine

LEMMA PrintedFacts ==
  ASSUME NEW s, OnPaper(s), NEW ch
  PROVE  LET t == Printed(s, ch)
         IN  OnPaper(t) /\ Keeps(t.con, s.con) /\ SameOutside(t.con, s.con)
<1> DEFINE cn == s.con
           n == Down(cn)
           i == s.above + (cn.y - cn.y1)
           d == c_putchar(cn, ch)
           p == OnSheet(s.sheet, cn, i, cn.x - cn.x1, ch)
           t == Printed(s, ch)
           w == Margin(cn)
<1>1. t.con = d /\ t.above = s.above + n /\ t.sheet = p
  BY DEF Printed, Down
<1>2. Shape(cn) /\ Cursor(cn) /\ s.above \in Nat /\ IsSheet(s.sheet, w)
      /\ Len(s.sheet) <= s.above + Height(cn)
  BY DEF OnPaper
<1>3. \A m \in 0 .. cn.y2 - cn.y1, j \in 0 .. w :
        CellAt(cn, cn.x1 + j, cn.y1 + m) = LineAt(s.sheet, cn, s.above + m)[j]
  BY DEF OnPaper
<1> HIDE DEF cn, i, d, p, t
<1>4. /\ cn.x1 \in 0 .. MaxX /\ cn.x2 \in 0 .. MaxX /\ cn.y1 \in 0 .. MaxY /\ cn.x1 <= cn.x2
      /\ cn.y2 \in 0 .. MaxY /\ cn.y1 <= cn.y2 /\ MaxX \in Nat /\ MaxY \in Nat
      /\ cn.x \in cn.x1 .. cn.x2 /\ cn.y \in cn.y1 .. cn.y2 + 1
  BY <1>2, ScreenFacts DEF Shape, Cursor
<1>5. /\ n \in Nat /\ cn.y - n \in cn.y1 .. cn.y2 /\ w = cn.x2 - cn.x1
      /\ Height(cn) = cn.y2 - cn.y1 + 1
  BY <1>4 DEF Down, Margin, Height
<1>6. i \in Nat /\ i = s.above + (cn.y - cn.y1)
  BY <1>2, <1>4 DEF i
<1>7. /\ Keeps(d, cn) /\ Cursor(d)
      /\ \A u \in 0 .. MaxX, v \in 0 .. MaxY :
           CellAt(d, u, v) = IF ~InRegion(cn, u, v) THEN CellAt(cn, u, v)
                         ELSE IF v = cn.y - n /\ Writes(cn, ch, u) THEN Mark(ch)
                         ELSE IF v + n <= cn.y2 THEN CellAt(cn, u, v + n)
                         ELSE Blank
  BY <1>2, PutCharFacts DEF d
<1>8. /\ IsSheet(p, w) /\ (Len(p) = Len(s.sheet) \/ Len(p) <= i + 1)
      /\ \A k \in Nat, m \in 0 .. w :
           LineAt(p, cn, k)[m] = IF k = i /\ Writes(cn, ch, cn.x1 + m) THEN Mark(ch)
                                ELSE LineAt(s.sheet, cn, k)[m]
  <2>1. p = OnSheet(s.sheet, cn, i, cn.x - cn.x1, ch)
    BY DEF p
  <2>2. IsSheet(s.sheet, Margin(cn)) /\ Shape(cn) /\ cn.x \in cn.x1 .. cn.x2 /\ i \in Nat
    BY <1>2, <1>4, <1>6 DEF w
  <2>3. Marked(p, s.sheet, cn, i, ch)
    BY <2>1, <2>2, OnSheetFacts
  <2> QED BY <2>3 DEF Marked, w
<1>9. Len(s.sheet) \in Nat /\ Len(p) \in Nat
  BY <1>2, <1>8 DEF IsSheet
<1>a. /\ cn.x1 \in Nat /\ cn.x2 \in Nat /\ cn.y1 \in Nat /\ cn.y2 \in Nat /\ cn.x \in Nat
      /\ cn.y \in Nat /\ cn.x1 <= cn.x2 /\ cn.y1 <= cn.y2 /\ cn.x2 <= MaxX /\ cn.y2 <= MaxY
      /\ MaxX \in Nat /\ MaxY \in Nat
  BY <1>4
<1>b. n \in Nat /\ cn.y1 <= cn.y - n /\ cn.y - n <= cn.y2 /\ s.above \in Nat
  BY <1>2, <1>4, <1>5
<1>cn. w = cn.x2 - cn.x1 /\ Height(cn) = cn.y2 - cn.y1 + 1
  BY <1>5
<1> HIDE DEF n, w
<1>10. Len(p) <= s.above + n + Height(cn)
  <2> DEFINE old == Len(s.sheet)
             new == Len(p)
             h == Height(cn)
             a == s.above
             y == cn.y
             y1 == cn.y1
  <2>1. /\ old \in Nat /\ new \in Nat /\ a \in Nat /\ y \in Nat /\ y1 \in Nat /\ n \in Nat
        /\ cn.y2 \in Nat /\ h = cn.y2 - y1 + 1 /\ old <= a + h /\ y - n <= cn.y2 /\ i = a + (y - y1)
    BY <1>2, <1>6, <1>9, <1>a, <1>b, <1>cn
  <2>2. new = old \/ new <= i + 1
    BY <1>8
  <2> HIDE DEF old, new, h, a, y, y1
  <2>3. new <= a + n + h
    BY <2>1, <2>2
  <2> QED BY <2>3 DEF new, h, a
<1>11. ASSUME NEW m \in 0 .. cn.y2 - cn.y1, NEW j \in 0 .. w
       PROVE  CellAt(d, cn.x1 + j, cn.y1 + m) = LineAt(p, cn, s.above + n + m)[j]
  <2> DEFINE u == cn.x1 + j
             v == cn.y1 + m
             k == s.above + n + m
  <2>1. u \in 0 .. MaxX /\ v \in 0 .. MaxY /\ InRegion(cn, u, v) /\ k \in Nat
    BY <1>a, <1>b, <1>cn DEF InRegion
  <2>2. v = cn.y - n <=> k = i
    BY <1>a, <1>b, <1>6
  <2>3. LineAt(p, cn, k)[j] = IF k = i /\ Writes(cn, ch, u) THEN Mark(ch)
                             ELSE LineAt(s.sheet, cn, k)[j]
    BY <1>8, <2>1
  <2>4. CellAt(d, u, v) = IF v = cn.y - n /\ Writes(cn, ch, u) THEN Mark(ch)
                      ELSE IF v + n <= cn.y2 THEN CellAt(cn, u, v + n) ELSE Blank
    BY <1>7, <2>1
  <2>5. ASSUME v + n <= cn.y2 PROVE CellAt(cn, u, v + n) = LineAt(s.sheet, cn, k)[j]
    <3>1. m + n \in 0 .. cn.y2 - cn.y1 /\ cn.y1 + (m + n) = v + n /\ s.above + (m + n) = k
      BY <2>5, <1>a, <1>b
    <3> QED BY <3>1, <1>3
  <2>6. ASSUME ~(v + n <= cn.y2) PROVE LineAt(s.sheet, cn, k)[j] = Blank
    <3>1. ~(k + 1 \in 1 .. Len(s.sheet))
      <4> DEFINE old == Len(s.sheet)
                 h == Height(cn)
                 a == s.above
                 y1 == cn.y1
      <4>1. /\ old \in Nat /\ h = cn.y2 - y1 + 1 /\ old <= a + h /\ a \in Nat /\ y1 \in Nat
            /\ n \in Nat /\ cn.y2 \in Nat /\ v = y1 + m /\ k = a + n + m /\ m \in Nat
        BY <1>2, <1>9, <1>a, <1>b, <1>cn
      <4> HIDE DEF old, h, a, y1, v, k
      <4>2. ~(k + 1 \in 1 .. old)
        BY <2>6, <4>1
      <4> QED BY <4>2 DEF old
    <3>2. LineAt(s.sheet, cn, k) = EmptyLine(cn)
      BY <3>1, <2>1, <1>9, LineFacts
    <3> QED BY <3>2 DEF EmptyLine, w
  <2> HIDE DEF u, v, k
  <2>7. CellAt(d, u, v) = LineAt(p, cn, k)[j]
    BY <2>2, <2>3, <2>4, <2>5, <2>6
  <2> QED BY <2>7 DEF u, v, k
<1>12. /\ Margin(d) = w /\ Height(d) = Height(cn) /\ d.x1 = cn.x1 /\ d.y1 = cn.y1
       /\ d.y2 = cn.y2 /\ Shape(d)
       /\ \A z, k : LineAt(z, d, k) = LineAt(z, cn, k)
  BY <1>7, SameLines DEF w, Keeps
<1>13. OnPaper(t)
  <2>1. t.above \in Nat
    BY <1>1, <1>2, <1>5
  <2> QED BY <1>1, <1>7, <1>8, <1>10, <1>11, <1>12, <2>1 DEF OnPaper
<1>14. SameOutside(d, cn)
  BY <1>7 DEF SameOutside
<1> QED BY <1>1, <1>7, <1>13, <1>14 DEF t, cn

LEMMA SameOutsideThrough ==
  ASSUME NEW b, NEW cn, NEW d, Keeps(cn, b), SameOutside(d, cn), SameOutside(cn, b)
  PROVE  SameOutside(d, b)
BY DEF SameOutside, Keeps, InRegion

\* A text, character by character.
LEMMA PrintPasses ==
  ASSUME NEW n \in Nat, NEW s, OnPaper(s), NEW cn, NEW str, NEW g,
         Passes("print", cn, str, s, n, g)
  PROVE  OnPaper(g[n]) /\ Keeps(g[n].con, s.con) /\ SameOutside(g[n].con, s.con)
<1> DEFINE Done(t) == OnPaper(t) /\ Keeps(t.con, s.con) /\ SameOutside(t.con, s.con)
           S == {k \in 0 .. n : Done(g[k])}
<1>1. g[0] = s /\ \A k \in 0 .. (n - 1) : g[k + 1] = Pass("print", cn, str, g[k], k + 1)
  BY PassesFacts DEF OneByOne
<1>2. Done(s)
  BY DEF OnPaper, Keeps, SameOutside
<1>3. ASSUME NEW k \in 0 .. (n - 1), Done(g[k]) PROVE Done(g[k + 1])
  <2> DEFINE t == Printed(g[k], str[k + 1])
  <2>1. g[k + 1] = t
    BY <1>1 DEF Pass
  <2>2. OnPaper(t) /\ Keeps(t.con, g[k].con) /\ SameOutside(t.con, g[k].con)
    BY <1>3, PrintedFacts
  <2> HIDE DEF t
  <2>3. Keeps(t.con, s.con) /\ SameOutside(t.con, s.con)
    BY <1>3, <2>2, KeepsThrough, SameOutsideThrough
  <2> QED BY <2>1, <2>2, <2>3
<1> HIDE DEF Done
<1>4. 0 \in S
  BY <1>1, <1>2
<1>5. \A k \in 0 .. (n - 1) : k \in S => k + 1 \in S
  BY <1>3
<1> HIDE DEF S
<1>6. \A k \in 0 .. n : k \in S
  BY <1>4, <1>5, CountUp
<1>7. n \in S
  BY <1>6
<1> QED BY <1>7 DEF S, Done

Paper == [con |-> con, above |-> above, sheet |-> sheet]

LEMMA PrintAllFacts ==
  ASSUME NEW str, Len(str) \in Nat, OnPaper(Paper), PrintAll(str)
  PROVE  /\ OnPaper(Paper)' /\ Keeps(con', con) /\ SameOutside(con', con)
         /\ outside' = outside
<1> DEFINE n == Len(str)
           s == Paper
<1> HIDE DEF n, s
<1>1. n \in Nat /\ OnPaper(s)
  BY DEF n, s
<1>2. PICK g : /\ Passes("print", 0, str, s, n, g)
               /\ con' = g[n].con /\ above' = g[n].above /\ sheet' = g[n].sheet
               /\ outside' = outside
  <2> DEFINE F(h) == [k \in 0 .. n |->
                        IF k = 0 THEN [con |-> con, above |-> above, sheet |-> sheet]
                        ELSE Printed(h[k - 1], str[k])]
             h == CHOOSE h : h = F(h)
  <2>1. PICK g : Passes("print", 0, str, s, n, g)
    BY <1>1, PassesExist
  <2>2. g = F(g)
    BY <2>1 DEF Passes, Pass, s, Paper
  <2>3. h = F(h)
    BY <2>2
  <2>4. Passes("print", 0, str, s, n, h)
    BY <2>3 DEF Passes, Pass, s, Paper
  <2>5. /\ con' = h[n].con /\ above' = h[n].above /\ sheet' = h[n].sheet
        /\ outside' = outside
    BY DEF PrintAll, n
  <2> HIDE DEF h
  <2> QED BY <2>4, <2>5
<1>5. OnPaper(g[n]) /\ Keeps(g[n].con, s.con) /\ SameOutside(g[n].con, s.con)
  BY <1>1, <1>2, PrintPasses
<1>6. s.con = con
  BY DEF s, Paper
<1>7. OnPaper(Paper)'
  BY <1>2, <1>5 DEF OnPaper, Paper
<1> QED BY <1>2, <1>5, <1>6, <1>7

-----------------------------------------------------------------------------
(* Powers of two.                                                          *)

Doubling(S, f) == f = [k \in S |-> IF k = 0 THEN 1 ELSE 2 * f[k - 1]]

LEMMA DoublingExists ==
  ASSUME NEW n \in Nat
  PROVE  \E f : Doubling(0 .. n, f)
<1> DEFINE S == {k \in 0 .. n : \E f : Doubling(0 .. k, f)}
<1>1. 0 \in S
  <2> DEFINE f == [k \in 0 .. 0 |-> 1]
  <2>1. f = [k \in 0 .. 0 |-> IF k = 0 THEN 1 ELSE 2 * f[k - 1]]
    OBVIOUS
  <2>2. Doubling(0 .. 0, f)
    BY <2>1 DEF Doubling
  <2> QED BY <2>2
<1>2. ASSUME NEW k \in 0 .. n - 1, k \in S PROVE k + 1 \in S
  <2>1. PICK f : Doubling(0 .. k, f)
    BY <1>2
  <2> DEFINE g == [i \in 0 .. k + 1 |-> IF i = 0 THEN 1 ELSE 2 * f[i - 1]]
  <2>2. \A i \in 0 .. k : g[i] = f[i]
    BY <2>1 DEF Doubling
  <2>3. ASSUME NEW i \in 0 .. k + 1
        PROVE  g[i] = IF i = 0 THEN 1 ELSE 2 * g[i - 1]
    <3>1. i # 0 => i - 1 \in 0 .. k
      OBVIOUS
    <3>2. g[i] = IF i = 0 THEN 1 ELSE 2 * f[i - 1]
      OBVIOUS
    <3> HIDE DEF g
    <3> QED BY <2>2, <3>1, <3>2
  <2>4. g = [i \in 0 .. k + 1 |-> g[i]]
    OBVIOUS
  <2> HIDE DEF g
  <2>5. Doubling(0 .. k + 1, g)
    BY <2>3, <2>4 DEF Doubling
  <2> QED BY <2>5
<1>3. \A k \in 0 .. n - 1 : k \in S => k + 1 \in S
  BY <1>2
<1> HIDE DEF S
<1>4. n \in S
  BY <1>1, <1>3, CountUp
<1> QED BY <1>4 DEF S

LEMMA DoublingUnique ==
  ASSUME NEW n \in Nat, NEW m \in Nat, n <= m, NEW f, NEW g,
         Doubling(0 .. n, f), Doubling(0 .. m, g)
  PROVE  f[n] = g[n]
<1> DEFINE S == {k \in 0 .. n : f[k] = g[k]}
<1>1. 0 \in S
  BY DEF Doubling
<1>2. ASSUME NEW k \in 0 .. n - 1, k \in S PROVE k + 1 \in S
  <2>1. k + 1 \in 0 .. n /\ k + 1 \in 0 .. m /\ k + 1 # 0 /\ (k + 1) - 1 = k /\ f[k] = g[k]
    BY <1>2
  <2>2. f[k + 1] = 2 * f[(k + 1) - 1] /\ g[k + 1] = 2 * g[(k + 1) - 1]
    BY <2>1 DEF Doubling
  <2> QED BY <2>1, <2>2
<1>3. \A k \in 0 .. n - 1 : k \in S => k + 1 \in S
  BY <1>2
<1> HIDE DEF S
<1>4. n \in S
  <2>1. \A k \in 0 .. n : k \in S
    BY <1>1, <1>3, CountUp
  <2> QED BY <2>1
<1> QED BY <1>4 DEF S

LEMMA PowerUnfolds ==
  Power = [k \in Nat |-> IF k = 0 THEN 1 ELSE 2 * Power[k - 1]]
<1> DEFINE f(n) == CHOOSE f : Doubling(0 .. n, f)
           p == [n \in Nat |-> f(n)[n]]
<1>1. \A n \in Nat : Doubling(0 .. n, f(n))
  BY DoublingExists
<1> HIDE DEF f
<1>2. ASSUME NEW n \in Nat PROVE p[n] = IF n = 0 THEN 1 ELSE 2 * p[n - 1]
  <2>1. Doubling(0 .. n, f(n))
    BY <1>1
  <2>2. n \in 0 .. n /\ p[n] = f(n)[n]
    OBVIOUS
  <2>3. CASE n = 0
    BY <2>1, <2>2, <2>3 DEF Doubling
  <2>4. CASE n # 0
    <3>1. n - 1 \in Nat /\ n - 1 <= n /\ p[n - 1] = f(n - 1)[n - 1]
      BY <2>4
    <3>2. Doubling(0 .. n - 1, f(n - 1))
      BY <3>1, <1>1
    <3>3. f(n - 1)[n - 1] = f(n)[n - 1]
      BY <2>1, <3>1, <3>2, DoublingUnique
    <3>4. f(n)[n] = 2 * f(n)[n - 1]
      BY <2>1, <2>2, <2>4 DEF Doubling
    <3> HIDE DEF p
    <3> QED BY <2>2, <2>4, <3>1, <3>3, <3>4
  <2> QED BY <2>3, <2>4
<1>3. p = [n \in Nat |-> p[n]]
  OBVIOUS
<1> HIDE DEF p
<1>4. p = [k \in Nat |-> IF k = 0 THEN 1 ELSE 2 * p[k - 1]]
  BY <1>2, <1>3
<1> DEFINE F(h) == [k \in Nat |-> IF k = 0 THEN 1 ELSE 2 * h[k - 1]]
<1>5. p = F(p)
  BY <1>4
<1>6. Power = CHOOSE h : h = F(h)
  BY DEF Power
<1> HIDE DEF F
<1>7. Power = F(Power)
  BY <1>5, <1>6
<1> QED BY <1>7 DEF F

LEMMA PowerFacts ==
  /\ Power[0] = 1
  /\ \A k \in Nat : Power[k] \in Nat \ {0} /\ Power[k + 1] = 2 * Power[k]
<1>1. Power[0] = 1
  BY PowerUnfolds
<1>2. ASSUME NEW k \in Nat PROVE Power[k + 1] = 2 * Power[k]
  <2>1. k + 1 \in Nat /\ k + 1 # 0 /\ (k + 1) - 1 = k
    OBVIOUS
  <2>2. Power[k + 1] = 2 * Power[(k + 1) - 1]
    BY <2>1, PowerUnfolds
  <2> QED BY <2>1, <2>2
<1>3. ASSUME NEW n \in Nat PROVE Power[n] \in Nat \ {0}
  <2> DEFINE S == {k \in 0 .. n : Power[k] \in Nat \ {0}}
  <2>1. 0 \in S
    BY <1>1
  <2>2. \A k \in 0 .. n - 1 : k \in S => k + 1 \in S
    BY <1>2
  <2> HIDE DEF S
  <2>3. n \in S
    BY <2>1, <2>2, CountUp
  <2> QED BY <2>3 DEF S
<1> QED BY <1>1, <1>2, <1>3

LEMMA PowerGrows ==
  ASSUME NEW a \in Nat, NEW n \in Nat
  PROVE  Power[a] <= Power[a + n]
<1> DEFINE S == {k \in 0 .. n : Power[a] <= Power[a + k]}
<1>1. 0 \in S
  <2>1. a + 0 = a /\ Power[a] \in Nat
    BY PowerFacts
  <2> QED BY <2>1
<1>2. ASSUME NEW k \in 0 .. n - 1, k \in S PROVE k + 1 \in S
  <2>1. a + k \in Nat /\ a + (k + 1) = (a + k) + 1
    OBVIOUS
  <2>2. Power[a] \in Nat /\ Power[a + k] \in Nat /\ Power[(a + k) + 1] = 2 * Power[a + k]
    BY <2>1, PowerFacts
  <2> QED BY <1>2, <2>1, <2>2
<1>3. \A k \in 0 .. n - 1 : k \in S => k + 1 \in S
  BY <1>2
<1> HIDE DEF S
<1>4. n \in S
  BY <1>1, <1>3, CountUp
<1> QED BY <1>4 DEF S

LEMMA PowerOfGroup ==
  /\ Power[3] = 8 /\ \A k \in Nat : Power[k + 3] = 8 * Power[k]
  /\ Power[4] = 16 /\ \A k \in Nat : Power[k + 4] = 16 * Power[k]
<1>1. ASSUME NEW k \in Nat
      PROVE  /\ Power[k] \in Nat /\ Power[k + 1] = 2 * Power[k]
             /\ Power[k + 2] = 4 * Power[k]
             /\ Power[k + 3] = 8 * Power[k] /\ Power[k + 4] = 16 * Power[k]
  <2>1. /\ (k + 1) + 1 = k + 2 /\ (k + 2) + 1 = k + 3 /\ (k + 3) + 1 = k + 4
        /\ k + 1 \in Nat /\ k + 2 \in Nat /\ k + 3 \in Nat
    OBVIOUS
  <2>2. /\ Power[k] \in Nat /\ Power[k + 1] = 2 * Power[k]
        /\ Power[(k + 1) + 1] = 2 * Power[k + 1]
        /\ Power[(k + 2) + 1] = 2 * Power[k + 2] /\ Power[(k + 3) + 1] = 2 * Power[k + 3]
    BY <2>1, PowerFacts
  <2> QED BY <2>1, <2>2
<1>2. Power[0 + 3] = 8 * Power[0] /\ Power[0 + 4] = 16 * Power[0] /\ Power[0] = 1
  BY <1>1, PowerFacts
<1> QED BY <1>1, <1>2

(* Reading a text of digits.                                               *)

\* The value of the text s in base b is x: it is put together from the left.
Reads(s, b, x) ==
  \E v \in [0 .. Len(s) -> Nat] :
    /\ v[0] = 0 /\ v[Len(s)] = x
    /\ \A k \in 1 .. Len(s) :
         \E d \in 0 .. b - 1 : s[k] = DigitOf(d) /\ v[k] = v[k - 1] * b + d

LEMMA DigitsDiffer ==
  ASSUME NEW m \in 0 .. 15, NEW n \in 0 .. 15, DigitOf(m) = DigitOf(n)
  PROVE  m = n
BY DEF DigitOf, Digit

LEMMA ValueRead ==
  ASSUME NEW s, Len(s) \in Nat, NEW b \in 2 .. 16, NEW x, Reads(s, b, x)
  PROVE  ValueOf(s, b) = x
<1> DEFINE n == Len(s)
           digit(e) == CHOOSE d \in 0 .. b - 1 : DigitOf(d) = e
           F(h) == [k \in 0 .. n |-> IF k = 0 THEN 0 ELSE h[k - 1] * b + digit(s[k])]
           g == CHOOSE h : h = F(h)
<1>1. PICK v \in [0 .. n -> Nat] :
        /\ v[0] = 0 /\ v[n] = x
        /\ \A k \in 1 .. n :
             \E d \in 0 .. b - 1 : s[k] = DigitOf(d) /\ v[k] = v[k - 1] * b + d
  BY DEF Reads
<1>2. ValueOf(s, b) = g[n]
  BY DEF ValueOf
<1>3. ASSUME NEW k \in 1 .. n PROVE v[k] = v[k - 1] * b + digit(s[k])
  <2>1. PICK d \in 0 .. b - 1 : s[k] = DigitOf(d) /\ v[k] = v[k - 1] * b + d
    BY <1>1
  <2>2. \A e \in 0 .. b - 1 : DigitOf(e) = s[k] => e = d
    <3>1. \A e \in 0 .. b - 1 : e \in 0 .. 15
      OBVIOUS
    <3> QED BY <2>1, <3>1, DigitsDiffer
  <2>3. digit(s[k]) = d
    BY <2>1, <2>2
  <2> HIDE DEF digit
  <2> QED BY <2>1, <2>3
<1> HIDE DEF digit, n
<1>4. n \in Nat
  BY DEF n
<1>5. v = F(v)
  BY <1>1, <1>3, <1>4
<1>6. g = F(g)
  BY <1>5
<1> HIDE DEF g
<1>7. g[0] = 0 /\ \A k \in 1 .. n : g[k] = g[k - 1] * b + digit(s[k])
  BY <1>6, <1>4
<1> HIDE DEF F
<1> DEFINE S == {k \in 0 .. n : g[k] = v[k]}
<1>8. 0 \in S
  BY <1>1, <1>4, <1>7
<1>9. ASSUME NEW k \in 0 .. n - 1, k \in S PROVE k + 1 \in S
  <2>1. k + 1 \in 1 .. n /\ (k + 1) - 1 = k /\ k + 1 \in 0 .. n
    BY <1>4
  <2>2. g[k + 1] = g[(k + 1) - 1] * b + digit(s[k + 1])
    BY <1>7, <2>1
  <2>3. v[k + 1] = v[(k + 1) - 1] * b + digit(s[k + 1])
    BY <1>3, <2>1
  <2> QED BY <1>9, <2>1, <2>2, <2>3
<1>10. \A k \in 0 .. n - 1 : k \in S => k + 1 \in S
  BY <1>9
<1> HIDE DEF S
<1>11. n \in S
  <2>1. \A k \in 0 .. n : k \in S
    BY <1>4, <1>8, <1>10, CountUp
  <2> QED BY <2>1, <1>4
<1>12. g[n] = v[n]
  BY <1>11 DEF S
<1> QED BY <1>1, <1>2, <1>12

-----------------------------------------------------------------------------
(* What printf prints is a text.                                           *)

IsText(s) == \E T : s \in Seq(T)

LEMMA TextLength ==
  ASSUME NEW s, IsText(s)
  PROVE  Len(s) \in Nat
BY DEF IsText

LEMMA TextOfOne ==
  ASSUME NEW a
  PROVE  IsText(<<a>>) /\ IsText(<<>>)
<1>1. <<a>> \in Seq({a}) /\ <<>> \in Seq({a})
  OBVIOUS
<1> QED BY <1>1 DEF IsText

LEMMA TextJoined ==
  ASSUME NEW s, NEW t, IsText(s), IsText(t)
  PROVE  IsText(s \o t)
<1>1. PICK S, T : s \in Seq(S) /\ t \in Seq(T)
  BY DEF IsText
<1>2. s \in Seq(S \cup T) /\ t \in Seq(S \cup T)
  BY <1>1
<1>3. s \o t \in Seq(S \cup T)
  BY <1>2
<1> QED BY <1>3 DEF IsText

\* A function on 1 .. n.
LEMMA TextOfFunction ==
  ASSUME NEW n \in Nat, NEW s, s = [k \in 1 .. n |-> s[k]]
  PROVE  IsText(s)
<1> DEFINE T == {s[k] : k \in 1 .. n}
<1>1. \A k \in 1 .. n : s[k] \in T
  OBVIOUS
<1> HIDE DEF T
<1>2. s \in Seq(T)
  BY <1>1
<1> QED BY <1>2 DEF IsText

LEMMA PaddedIsText ==
  ASSUME NEW s, IsText(s), NEW width \in Nat, NEW left, NEW cn
  PROVE  IsText(padstr(s, width, left, cn))
<1> DEFINE n == IF width - Len(s) > 0 THEN width - Len(s) ELSE 0
           fill == pad(width - Len(s), cn)
<1>1. Len(s) \in Nat
  BY TextLength
<1>2. n \in Nat
  BY <1>1
<1>3. fill = [k \in 1 .. n |-> cn]
  BY DEF pad
<1> HIDE DEF n, fill
<1>4. fill = [k \in 1 .. n |-> fill[k]]
  BY <1>3
<1>5. IsText(fill)
  BY <1>2, <1>4, TextOfFunction
<1>6. IsText(s \o fill) /\ IsText(fill \o s)
  BY <1>5, TextJoined
<1>7. padstr(s, width, left, cn) = IF left THEN s \o fill ELSE fill \o s
  BY DEF padstr, fill
<1> QED BY <1>6, <1>7

LEMMA WordFacts ==
  ASSUME NEW v \in Word
  PROVE  /\ Half \in Nat \ {0} /\ Word = -Half .. Half - 1
         /\ v \in Int /\ Half \div 10 \in 0 .. Half - 1
<1>1. WordBits - 1 \in Nat
  BY WordIsWide
<1>2. Half \in Int
  BY <1>1, PowerFacts DEF Half
<1> HIDE DEF Half
<1>3. -Half <= v /\ v <= Half - 1 /\ v \in Int
  BY <1>2 DEF Word
<1>4. Half \in Nat \ {0}
  BY <1>2, <1>3
<1>5. Half \div 10 \in 0 .. Half - 1
  BY <1>4
<1> QED BY <1>3, <1>4, <1>5 DEF Word

LEMMA WrapFacts ==
  ASSUME NEW v \in Int, NEW u \in Word
  PROVE  Wrap(v) \in Word
<1> DEFINE h == Half
           m == 2 * h
<1>1. h \in Nat \ {0} /\ Word = -h .. h - 1
  BY WordFacts
<1> HIDE DEF h
<1>2. m \in Nat \ {0} /\ m = h + h /\ v + h \in Int
  BY <1>1
<1> HIDE DEF m
<1>3. (v + h) % m \in 0 .. m - 1
  BY <1>2
<1>4. Wrap(v) = ((v + h) % m) - h
  BY DEF Wrap, m, h
<1> QED BY <1>1, <1>2, <1>3, <1>4

\* What cvtdec0 goes on with, and the digit that it adds.
Leading(v) == IF Quotient(v, 10) < 0 THEN Half \div 10 ELSE Quotient(v, 10)
LastDigit(v) == IF Quotient(v, 10) < 0 THEN Half % 10 ELSE Rest(v, 10)
WithLast(g, v) == (IF Leading(v) # 0 THEN g[Leading(v)] ELSE <<>>) \o <<DigitOf(LastDigit(v))>>

\* g is what cvtdec0 writes for the words in S.
Writing(S, g) == g = [v \in S |-> WithLast(g, v)]

LEMMA LeadingFacts ==
  ASSUME NEW v \in Word
  PROVE  Leading(v) \in 0 .. Half - 1 /\ (v >= 0 /\ Leading(v) # 0 => Leading(v) < v)
<1> DEFINE h == Half
           p == Half \div 10
<1>1. /\ h \in Nat \ {0} /\ v \in Int /\ -h <= v /\ v <= h - 1
      /\ p \in 0 .. h - 1
  BY WordFacts
<1> HIDE DEF h, p
<1>2. Quotient(v, 10) = IF v < 0 THEN -((-v) \div 10) ELSE v \div 10
  BY DEF Quotient
<1>3. Leading(v) = IF Quotient(v, 10) < 0 THEN p ELSE Quotient(v, 10)
  BY DEF Leading, p
<1>4. CASE v < 0
  <2>1. (-v) \div 10 \in Nat /\ Quotient(v, 10) = -((-v) \div 10)
    BY <1>1, <1>2, <1>4
  <2>2. Leading(v) = p \/ Leading(v) = 0
    BY <1>3, <2>1
  <2> QED BY <1>1, <1>4, <2>2 DEF h
<1>5. CASE ~(v < 0)
  <2>1. Quotient(v, 10) = v \div 10 /\ v \div 10 \in Nat /\ v \div 10 <= v
        /\ (v \div 10 = v => v \div 10 = 0)
    BY <1>1, <1>2, <1>5
  <2>2. Leading(v) = v \div 10
    BY <1>3, <2>1
  <2> QED BY <1>1, <1>5, <2>1, <2>2 DEF h
<1> QED BY <1>4, <1>5

LEMMA MoreWords ==
  ASSUME NEW S, NEW T, S \subseteq T, NEW g, Writing(S, g),
         \A v \in T : Leading(v) # 0 => Leading(v) \in S
  PROVE  \E h : Writing(T, h)
<1> DEFINE h == [v \in T |-> WithLast(g, v)]
<1>1. \A v \in S : g[v] = WithLast(g, v)
  BY DEF Writing
<1>2. \A v \in S : h[v] = g[v]
  BY <1>1
<1>3. ASSUME NEW v \in T PROVE WithLast(h, v) = WithLast(g, v)
  <2>1. Leading(v) # 0 => h[Leading(v)] = g[Leading(v)]
    BY <1>2
  <2> HIDE DEF h
  <2> QED BY <2>1 DEF WithLast
<1>4. h = [v \in T |-> WithLast(h, v)]
  BY <1>3
<1> QED BY <1>4 DEF Writing

LEMMA WritingExists ==
  ASSUME NEW u \in Word
  PROVE  \E g : Writing(Word, g)
<1> DEFINE h == Half
           S == {k \in 0 .. h - 1 : \E g : Writing(0 .. k, g)}
<1>1. h \in Nat \ {0} /\ Word = -h .. h - 1
  BY WordFacts
<1>2. \A v \in Word : Leading(v) \in 0 .. h - 1 /\ (v >= 0 /\ Leading(v) # 0 => Leading(v) < v)
  BY LeadingFacts
<1> HIDE DEF h
<1>3. 0 \in S
  <2> DEFINE g == [v \in 0 .. 0 |-> WithLast(<<>>, v)]
  <2>1. ASSUME NEW v \in 0 .. 0 PROVE WithLast(g, v) = WithLast(<<>>, v)
    <3>1. v = 0 /\ 0 \in Word
      BY <1>1
    <3>2. Leading(v) = 0
      BY <3>1, <1>2
    <3> QED BY <3>2 DEF WithLast
  <2>2. g = [v \in 0 .. 0 |-> WithLast(g, v)]
    BY <2>1
  <2>3. Writing(0 .. 0, g)
    BY <2>2 DEF Writing
  <2> QED BY <2>3, <1>1
<1>4. ASSUME NEW k \in 0 .. (h - 1) - 1, k \in S PROVE k + 1 \in S
  <2>1. PICK g : Writing(0 .. k, g)
    BY <1>4
  <2>2. ASSUME NEW v \in 0 .. k + 1, Leading(v) # 0 PROVE Leading(v) \in 0 .. k
    <3>1. v \in Word /\ v >= 0
      BY <1>1
    <3>2. Leading(v) \in 0 .. h - 1 /\ Leading(v) < v
      BY <3>1, <2>2, <1>2
    <3> QED BY <3>2, <1>1
  <2>3. 0 .. k \subseteq 0 .. k + 1
    OBVIOUS
  <2>4. \E f : Writing(0 .. k + 1, f)
    BY <2>1, <2>2, <2>3, MoreWords
  <2>5. k + 1 \in 0 .. h - 1
    BY <1>1
  <2> QED BY <2>4, <2>5
<1>5. \A k \in 0 .. (h - 1) - 1 : k \in S => k + 1 \in S
  BY <1>4
<1> HIDE DEF S
<1>6. h - 1 \in S
  <2>1. h - 1 \in Nat
    BY <1>1
  <2>2. \A k \in 0 .. h - 1 : k \in S
    BY <2>1, <1>3, <1>5, CountUp
  <2> QED BY <2>1, <2>2
<1>7. PICK g : Writing(0 .. h - 1, g)
  BY <1>6 DEF S
<1>8. 0 .. h - 1 \subseteq Word
  BY <1>1
<1> QED BY <1>2, <1>7, <1>8, MoreWords

LEMMA HalfFacts ==
  /\ Half \in Nat /\ Half >= 16 /\ Word = -Half .. Half - 1
  /\ Power[WordBits] = 2 * Half /\ 0 \in Word
<1>1. WordBits \in Nat /\ WordBits >= 5
  BY WordIsWide
<1> DEFINE n == WordBits - 5
<1>2. n \in Nat /\ 4 + n = WordBits - 1 /\ (WordBits - 1) + 1 = WordBits /\ WordBits - 1 \in Nat
  BY <1>1
<1> HIDE DEF n
<1>3. Power[4] <= Power[4 + n] /\ Power[4] = 16
  BY <1>2, PowerGrows, PowerOfGroup
<1>4. Power[WordBits - 1] \in Nat
  BY <1>2, PowerFacts
<1>5. Power[(WordBits - 1) + 1] = 2 * Power[WordBits - 1]
  BY <1>2, PowerFacts
<1>6. Half \in Nat /\ Half >= 16 /\ Power[WordBits] = 2 * Half
  BY <1>2, <1>3, <1>4, <1>5 DEF Half
<1> QED BY <1>6 DEF Word

LEMMA DecimalUnfolds ==
  ASSUME NEW u \in Word
  PROVE  cvtdec0(u) = (IF Leading(u) # 0 THEN cvtdec0(Leading(u)) ELSE <<>>)
                        \o <<DigitOf(LastDigit(u))>>
<1>1. PICK f : Writing(Word, f)
  BY WritingExists
<1> DEFINE F(h) == [v \in Word |->
                      LET odd == Quotient(v, 10) < 0
                          q == IF odd THEN Half \div 10 ELSE Quotient(v, 10)
                          d == IF odd THEN Half % 10 ELSE Rest(v, 10)
                      IN (IF q # 0 THEN h[q] ELSE <<>>) \o <<DigitOf(d)>>]
           g == CHOOSE h : h = F(h)
<1>2. f = F(f)
  BY <1>1 DEF Writing, WithLast, Leading, LastDigit
<1>3. g = F(g)
  BY <1>2
<1>4. Writing(Word, g)
  BY <1>3 DEF Writing, WithLast, Leading, LastDigit
<1>5. \A v : cvtdec0(v) = g[v]
  BY DEF cvtdec0
<1> HIDE DEF g, F
<1>6. g[u] = (IF Leading(u) # 0 THEN g[Leading(u)] ELSE <<>>) \o <<DigitOf(LastDigit(u))>>
  BY <1>4 DEF Writing, WithLast
<1> QED BY <1>5, <1>6

LEMMA DecimalIsText ==
  ASSUME NEW u \in Word
  PROVE  IsText(cvtdec0(u))
<1> DEFINE h == Half
           S == {v \in Word : IsText(cvtdec0(v))}
<1>6. h \in Nat \ {0} /\ Word = -h .. h - 1
  BY WordFacts
<1>7. \A v \in Word : Leading(v) \in 0 .. h - 1 /\ (v >= 0 /\ Leading(v) # 0 => Leading(v) < v)
  BY LeadingFacts
<1> HIDE DEF h
<1>8. ASSUME NEW v \in Word, Leading(v) = 0 \/ Leading(v) \in S PROVE v \in S
  <2> DEFINE t == IF Leading(v) # 0 THEN cvtdec0(Leading(v)) ELSE <<>>
             l == <<DigitOf(LastDigit(v))>>
  <2>1. cvtdec0(v) = t \o l
    BY DecimalUnfolds
  <2>2. IsText(t) /\ IsText(l)
    BY <1>8, TextOfOne
  <2> HIDE DEF t, l
  <2>4. IsText(cvtdec0(v))
    BY <2>1, <2>2, TextJoined
  <2> QED BY <2>4
<1>9. ASSUME NEW v \in Word, v >= 0 PROVE v \in S
  <2> DEFINE Bad == {k \in Nat : k \in Word /\ k \notin S}
  <2> SUFFICES ASSUME v \notin S PROVE FALSE
    OBVIOUS
  <2>1. v \in Bad
    BY <1>6, <1>9
  <2>2. PICK m \in Bad : \A k \in Bad : m <= k
    BY <2>1, LeastElement
  <2>3. m \in Word /\ m >= 0 /\ m \in Int
    BY <2>2, <1>6
  <2>4. Leading(m) # 0 => Leading(m) \in S
    <3>1. SUFFICES ASSUME Leading(m) # 0, Leading(m) \notin S PROVE FALSE
      OBVIOUS
    <3>2. Leading(m) \in 0 .. h - 1 /\ Leading(m) < m
      BY <3>1, <2>3, <1>7
    <3>3. Leading(m) \in Bad
      BY <3>1, <3>2, <1>6
    <3>4. m <= Leading(m)
      BY <3>3, <2>2
    <3> QED BY <3>2, <3>4, <2>3, <1>6
  <2>5. m \in S
    BY <2>3, <2>4, <1>8
  <2> QED BY <2>2, <2>5
<1>10. u \in S
  <2>1. Leading(u) \in 0 .. h - 1
    BY <1>7
  <2>2. Leading(u) \in Word /\ Leading(u) >= 0
    BY <2>1, <1>6
  <2>3. Leading(u) \in S
    BY <2>2, <1>9
  <2> QED BY <2>3, <1>8
<1> QED BY <1>10 DEF S

LEMMA SignedIsText ==
  ASSUME NEW u \in Word
  PROVE  IsText(cvtdec(u))
<1>1. u \in Int
  BY WordFacts
<1>2. IsText(cvtdec0(u))
  BY DecimalIsText
<1>3. Wrap(-u) \in Word
  <2>1. -u \in Int
    BY <1>1
  <2> QED BY <2>1, WrapFacts
<1>4. IsText(cvtdec0(Wrap(-u)))
  BY <1>3, DecimalIsText
<1>5. IsText(<<"-">>)
  BY TextOfOne
<1>6. IsText(<<"-">> \o cvtdec0(Wrap(-u)))
  BY <1>4, <1>5, TextJoined
<1> QED BY <1>2, <1>6 DEF cvtdec

(* Groups of bits.                                                         *)

Groups(bits) == (WordBits + bits - 1) \div bits
Unsigned(u) == u % (2 * Half)
GroupDigit(v, bits, k) == (v \div Power[bits * (Groups(bits) - k)]) % Power[bits]

\* Of the groups there is a first that is written.
LEMMA GroupedForm ==
  ASSUME NEW u, NEW bits \in {3, 4}
  PROVE  \E first \in 1 .. Groups(bits) :
           /\ \A j \in 1 .. first - 1 : GroupDigit(Unsigned(u), bits, j) = 0
           /\ Grouped(u, bits) =
                [k \in 1 .. Groups(bits) - first + 1 |->
                   DigitOf(GroupDigit(Unsigned(u), bits, first + k - 1))]
<1> DEFINE n == Groups(bits)
           v == Unsigned(u)
           D(k) == GroupDigit(v, bits, k)
           digit == [k \in 1 .. n |-> (v \div Power[bits * (n - k)]) % Power[bits]]
           Starts(k) == /\ k = n \/ digit[k] # 0
                        /\ \A j \in 1 .. k - 1 : digit[j] = 0
           first == CHOOSE k \in 1 .. n : Starts(k)
           g == [k \in 1 .. n - first + 1 |-> DigitOf(digit[first + k - 1])]
<1>1. Grouped(u, bits) = g
  BY DEF Grouped, Groups, Unsigned
<1>2. n \in Nat \ {0}
  BY WordIsWide DEF Groups
<1>3. \A k \in 1 .. n : digit[k] = D(k)
  BY DEF GroupDigit
<1> HIDE DEF n, v, D, digit
<1>4. \E k \in 1 .. n : Starts(k)
  <2> DEFINE S == {k \in 1 .. n : k = n \/ digit[k] # 0}
  <2>1. n \in S /\ S \in SUBSET Nat
    BY <1>2
  <2>2. PICK k \in S : \A j \in S : k <= j
    BY <2>1, LeastElement
  <2>3. \A j \in 1 .. k - 1 : digit[j] = 0
    <3> SUFFICES ASSUME NEW j \in 1 .. k - 1, digit[j] # 0 PROVE FALSE
      OBVIOUS
    <3>1. j \in S /\ k \in Int /\ j < k
      BY <2>2, <1>2
    <3> QED BY <3>1, <2>2, <1>2
  <2> QED BY <2>2, <2>3
<1> HIDE DEF Starts
<1>5. first \in 1 .. n /\ Starts(first)
  BY <1>4
<1> HIDE DEF first
<1>6. \A j \in 1 .. first - 1 : D(j) = 0
  <2>1. \A j \in 1 .. first - 1 : j \in 1 .. n
    BY <1>2, <1>5
  <2> QED BY <1>3, <1>5, <2>1 DEF Starts
<1>7. g = [k \in 1 .. n - first + 1 |-> DigitOf(D(first + k - 1))]
  <2>1. \A k \in 1 .. n - first + 1 : first + k - 1 \in 1 .. n
    BY <1>2, <1>5
  <2> QED BY <1>3, <2>1
<1> HIDE DEF g
<1> QED BY <1>1, <1>5, <1>6, <1>7 DEF n, v, D

LEMMA GroupedIsText ==
  ASSUME NEW u, NEW bits \in {3, 4}
  PROVE  IsText(Grouped(u, bits))
<1> DEFINE g == Grouped(u, bits)
           n == Groups(bits)
<1>1. n \in Nat
  BY WordIsWide DEF Groups
<1>2. PICK first \in 1 .. n :
        g = [k \in 1 .. n - first + 1 |->
               DigitOf(GroupDigit(Unsigned(u), bits, first + k - 1))]
  BY GroupedForm
<1> HIDE DEF g, n
<1> DEFINE m == n - first + 1
<1>3. m \in Nat
  BY <1>1
<1>4. g = [k \in 1 .. m |-> g[k]]
  BY <1>2
<1> HIDE DEF m
<1>5. IsText(g)
  BY <1>3, <1>4, TextOfFunction
<1> QED BY <1>5 DEF g

LEMMA FormatFacts ==
  ASSUME NEW f \in Formats
  PROVE  /\ f[1].type \in {"d", "x", "o", "s", "c"} /\ f[1].width \in Nat
         /\ f[1].type \in {"d", "x", "o"} => f[2] \in Word
         /\ f[1].type = "s" => f[2] \in Seq(STRING)
BY ConsoleAssumptions DEF ConsoleAssumption

LEMMA ConvertedIsText ==
  ASSUME NEW f \in Formats
  PROVE  IsText(Converted(f[1], f[2]))
<1> DEFINE type == f[1].type
<1>1. /\ type \in {"d", "x", "o", "s", "c"}
      /\ type \in {"d", "x", "o"} => f[2] \in Word
      /\ type = "s" => f[2] \in Seq(STRING)
  BY FormatFacts
<1>2. CASE type = "d"
  BY <1>2, <1>1, SignedIsText DEF Converted
<1>3. CASE type = "x"
  <2>1. IsText(Grouped(f[2], 4))
    BY GroupedIsText
  <2> QED BY <1>3, <2>1 DEF Converted, cvthex
<1>4. CASE type = "o"
  <2>1. IsText(Grouped(f[2], 3))
    BY GroupedIsText
  <2> QED BY <1>4, <2>1 DEF Converted, cvtoct
<1>5. CASE type = "s"
  BY <1>5, <1>1 DEF Converted, IsText
<1>6. CASE type = "c"
  BY <1>6, TextOfOne DEF Converted
<1> QED BY <1>1, <1>2, <1>3, <1>4, <1>5, <1>6

LEMMA FieldIsText ==
  ASSUME NEW f \in Formats
  PROVE  IsText(Field(f[1], f[2])) /\ IsText(gcon_field(f[1], f[2]))
<1>1. IsText(Converted(f[1], f[2])) /\ f[1].width \in Nat
  BY ConvertedIsText, FormatFacts
<1>2. \A cn : IsText(padstr(Converted(f[1], f[2]), f[1].width, f[1].left, cn))
  BY <1>1, PaddedIsText
<1> QED BY <1>2 DEF Field, gcon_field

-----------------------------------------------------------------------------
(* The invariant of the console.                                           *)

OutsideKept ==
  /\ outside = [p \in Fixed |-> CellAt(con, p[1], p[2])]
  /\ \A p \in Fixed : ~InRegion(con, p[1], p[2])

ViewKept == flushed => con.row0 = -1 /\ view = View(con)

ConsoleInv == OnPaper(Paper) /\ OutsideKept /\ ViewKept

LEMMA FixedFacts ==
  ASSUME NEW p \in Fixed
  PROVE  p[1] \in 0 .. MaxX /\ p[2] \in 0 .. MaxY /\ p = <<p[1], p[2]>>
<1>1. p \in (0 .. MaxX) \X (0 .. MaxY)
  BY ConsoleAssumptions DEF ConsoleAssumption
<1> QED BY <1>1

LEMMA PaperFacts ==
  ASSUME OnPaper(Paper)
  PROVE  /\ Shape(con) /\ Cursor(con) /\ above \in Nat /\ IsSheet(sheet, Margin(con))
         /\ Len(sheet) <= above + Height(con)
         /\ \A i \in 0 .. con.y2 - con.y1, j \in 0 .. Margin(con) :
              CellAt(con, con.x1 + j, con.y1 + i) = LineAt(sheet, con, above + i)[j]
BY DEF OnPaper, Paper

LEMMA PaperOf ==
  ASSUME NEW d, Shape(d), Cursor(d), NEW a \in Nat, NEW s, IsSheet(s, Margin(d)),
         Len(s) <= a + Height(d),
         \A i \in 0 .. d.y2 - d.y1, j \in 0 .. Margin(d) :
           CellAt(d, d.x1 + j, d.y1 + i) = LineAt(s, d, a + i)[j]
  PROVE  OnPaper([con |-> d, above |-> a, sheet |-> s])
BY DEF OnPaper

LEMMA OutsideStays ==
  ASSUME OutsideKept, Keeps(con', con), SameOutside(con', con), outside' = outside
  PROVE  OutsideKept'
<1>1. ASSUME NEW p \in Fixed
      PROVE  CellAt(con', p[1], p[2]) = CellAt(con, p[1], p[2]) /\ ~InRegion(con', p[1], p[2])
  <2>1. p[1] \in 0 .. MaxX /\ p[2] \in 0 .. MaxY /\ ~InRegion(con, p[1], p[2])
    BY FixedFacts DEF OutsideKept
  <2> QED BY <2>1 DEF SameOutside, InRegion, Keeps
<1> QED BY <1>1 DEF OutsideKept

LEMMA GCallPrints ==
  ASSUME ConsoleInv, GPutChar \/ GPrintf
  PROVE  ConsoleInv'
<1>1. PICK str : PrintAll(str) /\ IsText(str)
  <2>1. CASE GPutChar
    BY <2>1, TextOfOne DEF GPutChar, PutChar
  <2>2. CASE GPrintf
    BY <2>2, FieldIsText DEF GPrintf, gcon_printf
  <2> QED BY <2>1, <2>2
<1>2. flushed' = FALSE
  BY DEF GPutChar, GPrintf, gcon_flush
<1>3. Len(str) \in Nat /\ OnPaper(Paper)
  BY <1>1, TextLength DEF ConsoleInv
<1>4. /\ OnPaper(Paper)' /\ Keeps(con', con) /\ SameOutside(con', con) /\ outside' = outside
  BY <1>1, <1>3, PrintAllFacts
<1>5. OutsideKept'
  BY <1>4, OutsideStays DEF ConsoleInv
<1> QED BY <1>2, <1>4, <1>5 DEF ConsoleInv, ViewKept

\* Another place of the cursor.
LEMMA GMoveToKeeps ==
  ASSUME ConsoleInv, GMoveTo
  PROVE  ConsoleInv'
<1>1. PICK x \in 0 .. MaxX, y \in 0 .. MaxY : con' = c_moveto(con, x, y)
  BY DEF GMoveTo, MoveTo
<1>2. /\ above' = above /\ sheet' = sheet /\ outside' = outside /\ flushed' = flushed
      /\ view' = view
  BY DEF GMoveTo, MoveTo
<1>3. OnPaper(Paper) /\ Shape(con)
  BY PaperFacts DEF ConsoleInv
<1> DEFINE cn == con
           u == Bound(cn.x1, x + cn.x1, cn.x2)
           v == Bound(cn.y1, y + cn.y1, cn.y2)
           d == [cn EXCEPT !.x = u]
           e == [d EXCEPT !.y = v]
<1>4. con' = e
  BY <1>1, <1>3 DEF c_moveto, Shape
<1>5. u \in cn.x1 .. cn.x2 /\ v \in cn.y1 .. cn.y2
  <2>1. /\ cn.x1 \in Nat /\ cn.x2 \in Nat /\ cn.x1 <= cn.x2 /\ cn.y1 \in Nat /\ cn.y2 \in Nat
        /\ cn.y1 <= cn.y2 /\ x \in Nat /\ y \in Nat
    BY <1>3, ScreenFacts DEF Shape
  <2> QED BY <2>1 DEF Bound
<1> HIDE DEF u, v
<1>6. Keeps(d, cn) /\ d.mem = cn.mem /\ d.x = u
  BY <1>3, NewX
<1> HIDE DEF d
<1>7. Keeps(e, d) /\ e.mem = d.mem /\ e.x = d.x /\ e.y = v
  BY <1>6, NewY DEF Keeps
<1> HIDE DEF e
<1>8. Keeps(e, cn) /\ e.mem = cn.mem /\ e.x = u /\ e.y = v
  BY <1>6, <1>7, KeepsThrough
<1>9. \A p, q : CellAt(e, p, q) = CellAt(cn, p, q)
  BY <1>8 DEF CellAt, Address, Keeps
<1>10. OnPaper(Paper)'
  <2>1. Cursor(e)
    <3>1. /\ cn.y2 \in Int /\ cn.y1 \in Int
      BY <1>3, ScreenFacts DEF Shape
    <3>2. e.x \in e.x1 .. e.x2 /\ e.y \in e.y1 .. e.y2 + 1 /\ e.y # e.y2 + 1
      BY <1>5, <1>8, <3>1 DEF Keeps
    <3> QED BY <3>2 DEF Cursor
  <2>2. /\ Margin(e) = Margin(cn) /\ Height(e) = Height(cn)
        /\ \A s, i : LineAt(s, e, i) = LineAt(s, cn, i)
    BY <1>8, SameLines
  <2>3. Shape(e) /\ e.x1 = cn.x1 /\ e.y1 = cn.y1 /\ e.y2 = cn.y2
    BY <1>8 DEF Keeps
  <2>4. /\ above \in Nat /\ IsSheet(sheet, Margin(cn)) /\ Len(sheet) <= above + Height(cn)
        /\ \A i \in 0 .. cn.y2 - cn.y1, j \in 0 .. Margin(cn) :
             CellAt(cn, cn.x1 + j, cn.y1 + i) = LineAt(sheet, cn, above + i)[j]
    BY <1>3, PaperFacts
  <2> HIDE DEF cn
  <2>a. IsSheet(sheet, Margin(e)) /\ Len(sheet) <= above + Height(e) /\ above \in Nat
    BY <2>2, <2>4
  <2>b. \A i \in 0 .. e.y2 - e.y1, j \in 0 .. Margin(e) :
          CellAt(e, e.x1 + j, e.y1 + i) = LineAt(sheet, e, above + i)[j]
    BY <1>9, <2>2, <2>3, <2>4
  <2>5. OnPaper([con |-> e, above |-> above, sheet |-> sheet])
    BY <2>1, <2>3, <2>a, <2>b, PaperOf
  <2> QED BY <1>2, <1>4, <2>5 DEF Paper
<1>11. SameOutside(e, cn)
  BY <1>9 DEF SameOutside
<1>12. OutsideKept'
  BY <1>2, <1>4, <1>8, <1>11, OutsideStays DEF ConsoleInv
<1>13. View(e) = View(cn) /\ e.row0 = cn.row0
  BY <1>8 DEF View, Keeps
<1> QED BY <1>2, <1>4, <1>10, <1>12, <1>13 DEF ConsoleInv, ViewKept

\* A place outside the region.
LEMMA GPutCharAtKeeps ==
  ASSUME ConsoleInv, GPutCharAt
  PROVE  ConsoleInv'
<1>1. PICK p \in Fixed, ch \in Letters : /\ con' = c_putchar_at(con, p[1], p[2], ch)
                                         /\ outside' = [outside EXCEPT ![p] = ch]
  BY DEF GPutCharAt, PutCharAt
<1>2. above' = above /\ sheet' = sheet /\ flushed' = FALSE
  BY DEF GPutCharAt, PutCharAt, gcon_flush
<1>3. OnPaper(Paper) /\ Shape(con)
  BY PaperFacts DEF ConsoleInv
<1> DEFINE cn == con
           x == p[1]
           y == p[2]
           e == Store(cn, x, y, ch)
<1>4. con' = e
  <2>1. ch # "nl"
    BY ConsoleAssumptions DEF ConsoleAssumption
  <2> QED BY <1>1, <2>1 DEF c_putchar_at
<1>5. x \in 0 .. MaxX /\ y \in 0 .. MaxY /\ ~InRegion(cn, x, y)
  BY FixedFacts DEF ConsoleInv, OutsideKept
<1> HIDE DEF x, y
<1>6. /\ Keeps(e, cn) /\ e.x = cn.x /\ e.y = cn.y /\ CellAt(e, x, y) = ch
      /\ \A u \in 0 .. MaxX, v \in 0 .. MaxY :
           ~(u = x /\ v = y) => CellAt(e, u, v) = CellAt(cn, u, v)
  BY <1>3, <1>5, StoreFacts
<1> HIDE DEF e
<1>7. OnPaper(Paper)'
  <2>1. Cursor(e)
    BY <1>3, <1>6, PaperFacts DEF Cursor, Keeps
  <2>2. /\ Margin(e) = Margin(cn) /\ Height(e) = Height(cn)
        /\ \A s, i : LineAt(s, e, i) = LineAt(s, cn, i)
    BY <1>6, SameLines
  <2>3. Shape(e) /\ e.x1 = cn.x1 /\ e.y1 = cn.y1 /\ e.y2 = cn.y2
    BY <1>6 DEF Keeps
  <2>4. /\ above \in Nat /\ IsSheet(sheet, Margin(cn)) /\ Len(sheet) <= above + Height(cn)
        /\ \A i \in 0 .. cn.y2 - cn.y1, j \in 0 .. Margin(cn) :
             CellAt(cn, cn.x1 + j, cn.y1 + i) = LineAt(sheet, cn, above + i)[j]
    BY <1>3, PaperFacts
  <2>5. ASSUME NEW i \in 0 .. cn.y2 - cn.y1, NEW j \in 0 .. Margin(cn)
        PROVE  CellAt(e, cn.x1 + j, cn.y1 + i) = CellAt(cn, cn.x1 + j, cn.y1 + i)
    <3>1. /\ cn.x1 \in 0 .. MaxX /\ cn.x2 \in 0 .. MaxX /\ cn.y1 \in 0 .. MaxY
          /\ cn.y2 \in 0 .. MaxY /\ MaxX \in Nat /\ MaxY \in Nat
      BY <1>3, ScreenFacts DEF Shape
    <3>2. cn.x1 + j \in 0 .. MaxX /\ cn.y1 + i \in 0 .. MaxY /\ InRegion(cn, cn.x1 + j, cn.y1 + i)
      BY <3>1 DEF Margin, InRegion
    <3>3. ~(cn.x1 + j = x /\ cn.y1 + i = y)
      BY <1>5, <3>2
    <3> QED BY <1>6, <3>2, <3>3
  <2> HIDE DEF cn
  <2>a. IsSheet(sheet, Margin(e)) /\ Len(sheet) <= above + Height(e) /\ above \in Nat
    BY <2>2, <2>4
  <2>b. \A i \in 0 .. e.y2 - e.y1, j \in 0 .. Margin(e) :
          CellAt(e, e.x1 + j, e.y1 + i) = LineAt(sheet, e, above + i)[j]
    BY <2>2, <2>3, <2>4, <2>5
  <2>6. OnPaper([con |-> e, above |-> above, sheet |-> sheet])
    BY <2>1, <2>3, <2>a, <2>b, PaperOf
  <2> QED BY <1>2, <1>4, <2>6 DEF Paper
<1>8. ASSUME NEW q \in Fixed
      PROVE  CellAt(e, q[1], q[2]) = outside'[q] /\ ~InRegion(e, q[1], q[2])
  <2>1. /\ q[1] \in 0 .. MaxX /\ q[2] \in 0 .. MaxY /\ outside[q] = CellAt(cn, q[1], q[2])
        /\ ~InRegion(cn, q[1], q[2])
    BY FixedFacts DEF ConsoleInv, OutsideKept
  <2>2. outside'[q] = IF q = p THEN ch ELSE outside[q]
    BY <1>1 DEF ConsoleInv, OutsideKept
  <2>3. q = p <=> q[1] = x /\ q[2] = y
    BY FixedFacts DEF x, y
  <2>4. ~InRegion(e, q[1], q[2])
    BY <1>6, <2>1 DEF InRegion, Keeps
  <2> QED BY <1>6, <2>1, <2>2, <2>3, <2>4
<1>9. OutsideKept'
  <2>1. outside' = [q \in Fixed |-> outside'[q]]
    BY <1>1 DEF ConsoleInv, OutsideKept
  <2> QED BY <1>4, <1>8, <2>1 DEF OutsideKept
<1> QED BY <1>2, <1>7, <1>9 DEF ConsoleInv, ViewKept

\* The lines that are in the region are torn off.
LEMMA TornSheet ==
  ASSUME NEW s, NEW cn, NEW a \in Nat, IsSheet(s, Margin(cn)), NEW t,
         t = SubSeq(s, 1, IF a < Len(s) THEN a ELSE Len(s))
  PROVE  /\ IsSheet(t, Margin(cn)) /\ Len(t) <= a
         /\ \A i \in Nat : LineAt(t, cn, a + i) = EmptyLine(cn)
<1> DEFINE T == {s[k] : k \in 1 .. Len(s)}
           n == IF a < Len(s) THEN a ELSE Len(s)
           w == Margin(cn)
<1>1. Len(s) \in Nat /\ s = [k \in 1 .. Len(s) |-> s[k]]
      /\ \A k \in 1 .. Len(s) : s[k] = [m \in 0 .. w |-> s[k][m]]
  BY DEF IsSheet
<1>2. s \in Seq(T)
  <2>1. \A k \in 1 .. Len(s) : s[k] \in T
    OBVIOUS
  <2> HIDE DEF T
  <2> QED BY <1>1, <2>1
<1>3. n \in 0 .. Len(s) /\ n <= a
  BY <1>1
<1> HIDE DEF n, T
<1>4. t = SubSeq(s, 1, n)
  BY DEF n
<1>5. t = [k \in 1 .. n |-> s[k]]
  <2>1. SubSeq(s, 1, n) = [k \in 1 .. n |-> s[k]]
    BY <1>2, <1>3
  <2> QED BY <1>4, <2>1
<1>6. Len(t) = n /\ t = [k \in 1 .. n |-> t[k]] /\ \A k \in 1 .. n : t[k] = s[k]
  BY <1>3, <1>5
<1>7. \A k \in 1 .. n : k \in 1 .. Len(s)
  BY <1>1, <1>3
<1>8. ASSUME NEW k \in 1 .. n PROVE t[k] = [m \in 0 .. w |-> t[k][m]]
  BY <1>1, <1>6, <1>7
<1>9. IsSheet(t, w)
  BY <1>3, <1>6, <1>8 DEF IsSheet
<1>10. ASSUME NEW i \in Nat PROVE LineAt(t, cn, a + i) = EmptyLine(cn)
  <2> DEFINE b == a + i
  <2>1. b \in Nat /\ ~(b + 1 \in 1 .. Len(t)) /\ Len(t) \in Nat
    BY <1>1, <1>3, <1>6
  <2> HIDE DEF b
  <2>2. LineAt(t, cn, b) = EmptyLine(cn)
    BY <2>1, LineFacts
  <2> QED BY <2>2 DEF b
<1> QED BY <1>3, <1>6, <1>9, <1>10

LEMMA GClearScrollKeeps ==
  ASSUME ConsoleInv, GClearScroll
  PROVE  ConsoleInv'
<1> DEFINE cn == con
           e == c_clearscroll(cn)
           t == SubSeq(sheet, 1, IF above < Len(sheet) THEN above ELSE Len(sheet))
<1>1. /\ con' = e /\ sheet' = t /\ above' = above /\ outside' = outside /\ flushed' = FALSE
  BY DEF GClearScroll, ClearScroll, gcon_flush
<1>2. OnPaper(Paper) /\ Shape(cn) /\ above \in Nat /\ IsSheet(sheet, Margin(cn)) /\ Cursor(cn)
  BY PaperFacts DEF ConsoleInv
<1>3. /\ Keeps(e, cn) /\ e.x = cn.x /\ e.y = cn.y
      /\ \A u \in 0 .. MaxX, v \in 0 .. MaxY :
           CellAt(e, u, v) = IF InRegion(cn, u, v) THEN Blank ELSE CellAt(cn, u, v)
  BY <1>2, ClearFacts
<1>4. /\ IsSheet(t, Margin(cn)) /\ Len(t) <= above
      /\ \A i \in Nat : LineAt(t, cn, above + i) = EmptyLine(cn)
  BY <1>2, TornSheet
<1> HIDE DEF e, t
<1>5. OnPaper(Paper)'
  <2>1. Cursor(e)
    BY <1>2, <1>3 DEF Cursor, Keeps
  <2>2. /\ Margin(e) = Margin(cn) /\ Height(e) = Height(cn)
        /\ \A s, i : LineAt(s, e, i) = LineAt(s, cn, i)
    BY <1>3, SameLines
  <2>3. Shape(e) /\ e.x1 = cn.x1 /\ e.y1 = cn.y1 /\ e.y2 = cn.y2
    BY <1>3 DEF Keeps
  <2>4. /\ cn.x1 \in 0 .. MaxX /\ cn.x2 \in 0 .. MaxX /\ cn.y1 \in 0 .. MaxY
        /\ cn.y2 \in 0 .. MaxY /\ MaxX \in Nat /\ MaxY \in Nat /\ cn.y1 <= cn.y2
    BY <1>2, ScreenFacts DEF Shape
  <2>5. ASSUME NEW i \in 0 .. cn.y2 - cn.y1, NEW j \in 0 .. Margin(cn)
        PROVE  CellAt(e, cn.x1 + j, cn.y1 + i) = LineAt(t, cn, above + i)[j]
    <3>1. cn.x1 + j \in 0 .. MaxX /\ cn.y1 + i \in 0 .. MaxY /\ InRegion(cn, cn.x1 + j, cn.y1 + i)
      BY <2>4 DEF Margin, InRegion
    <3>2. LineAt(t, cn, above + i) = EmptyLine(cn)
      BY <1>4, <2>4
    <3>3. EmptyLine(cn)[j] = Blank
      BY DEF EmptyLine
    <3> QED BY <1>3, <3>1, <3>2, <3>3
  <2>6. Len(t) <= above + Height(cn)
    <3> DEFINE l == Len(t)
               h == Height(cn)
    <3>1. l \in Nat /\ h \in Nat /\ l <= above
      BY <1>4, <2>4 DEF IsSheet, Height
    <3> HIDE DEF l, h
    <3>2. l <= above + h
      BY <3>1, <1>2
    <3> QED BY <3>2 DEF l, h
  <2> HIDE DEF cn
  <2>a. IsSheet(t, Margin(e)) /\ Len(t) <= above + Height(e) /\ above \in Nat
    BY <1>2, <1>4, <2>2, <2>6
  <2>b. \A i \in 0 .. e.y2 - e.y1, j \in 0 .. Margin(e) :
          CellAt(e, e.x1 + j, e.y1 + i) = LineAt(t, e, above + i)[j]
    BY <2>2, <2>3, <2>5
  <2>7. OnPaper([con |-> e, above |-> above, sheet |-> t])
    BY <2>1, <2>3, <2>a, <2>b, PaperOf
  <2> QED BY <1>1, <2>7 DEF Paper
<1>6. SameOutside(e, cn)
  BY <1>3 DEF SameOutside
<1>7. OutsideKept'
  BY <1>1, <1>3, <1>6, OutsideStays DEF ConsoleInv
<1> QED BY <1>1, <1>5, <1>7 DEF ConsoleInv, ViewKept

LEMMA ConsoleStart ==
  ASSUME GInit
  PROVE  ConsoleInv
<1>1. PICK row0 \in RowZeros, r \in Regions :
        con = c_setscroll([mem |-> [a \in row0 * Width .. Width * (MaxY + 1) - 1 |-> Blank],
                           x1 |-> 0, y1 |-> 0, x2 |-> MaxX, y2 |-> MaxY,
                           x |-> 0, y |-> 0, row0 |-> row0], r)
  BY DEF GInit, ConInit
<1>2. /\ sheet = <<>> /\ above = 0 /\ outside = [p \in Fixed |-> Blank] /\ flushed = FALSE
  BY DEF GInit, ConInit
<1> DEFINE x1 == Bound(0, r[1], MaxX)
           y1 == Bound(0, r[2], MaxY)
           x2 == Bound(x1, r[3], MaxX)
           y2 == Bound(y1, r[4], MaxY)
           m == [a \in ScreenCells(row0) |-> Blank]
<1>3. con = [mem |-> m, x1 |-> x1, y1 |-> y1, x2 |-> x2, y2 |-> y2,
             x |-> x1, y |-> y1, row0 |-> row0]
  BY <1>1 DEF c_setscroll, ScreenCells
<1>4. /\ r[1] \in 0 .. MaxX /\ r[3] \in Int /\ r[1] <= r[3]
      /\ r[2] \in 0 .. MaxY /\ r[4] \in Int /\ r[2] <= r[4]
      /\ row0 \in {0, -1} /\ MaxX \in Nat /\ MaxY \in Nat
  BY ConsoleAssumptions DEF ConsoleAssumption
<1>5. /\ x1 = r[1] /\ y1 = r[2] /\ x2 \in x1 .. MaxX /\ y2 \in y1 .. MaxY
      /\ x2 <= r[3] /\ y2 <= r[4]
  BY <1>4 DEF Bound
<1> HIDE DEF x1, x2, y1, y2, m
<1>6. Shape(con) /\ Cursor(con)
  <2>1. m = [a \in ScreenCells(row0) |-> m[a]]
    BY DEF m
  <2>2. /\ con.mem = m /\ con.x1 = x1 /\ con.y1 = y1 /\ con.x2 = x2 /\ con.y2 = y2
        /\ con.x = x1 /\ con.y = y1 /\ con.row0 = row0
    BY <1>3
  <2>3. x1 \in 0 .. MaxX /\ x2 \in 0 .. MaxX /\ x1 <= x2 /\ y1 \in 0 .. MaxY
        /\ y2 \in 0 .. MaxY /\ y1 <= y2 /\ x1 \in x1 .. x2 /\ y1 \in y1 .. y2 + 1
        /\ y1 # y2 + 1
    BY <1>4, <1>5
  <2>4. Shape(con)
    BY <1>3, <1>4, <2>1, <2>2, <2>3 DEF Shape
  <2> QED BY <2>2, <2>3, <2>4 DEF Cursor
<1>7. \A u \in 0 .. MaxX, v \in 0 .. MaxY : CellAt(con, u, v) = Blank
  <2> SUFFICES ASSUME NEW u \in 0 .. MaxX, NEW v \in 0 .. MaxY PROVE CellAt(con, u, v) = Blank
    OBVIOUS
  <2>1. con.row0 = row0 /\ con.mem = m
    BY <1>3
  <2>2. Address(con, u, v) \in ScreenCells(row0)
    BY <1>4, <2>1, AddressIsCell
  <2> QED BY <2>1, <2>2 DEF CellAt, m
<1>8. OnPaper(Paper)
  <2>1. Len(sheet) = 0 /\ IsSheet(sheet, Margin(con))
    BY <1>2 DEF IsSheet
  <2>2. Height(con) \in Nat
    BY <1>6, ScreenFacts DEF Shape, Height
  <2>3. ASSUME NEW i \in 0 .. con.y2 - con.y1, NEW j \in 0 .. Margin(con)
        PROVE  CellAt(con, con.x1 + j, con.y1 + i) = LineAt(sheet, con, above + i)[j]
    <3>1. con.x1 + j \in 0 .. MaxX /\ con.y1 + i \in 0 .. MaxY
      BY <1>6, ScreenFacts DEF Shape, Margin
    <3>2. above + i \in Nat /\ ~((above + i) + 1 \in 1 .. 0)
      BY <1>2, <1>6, ScreenFacts DEF Shape
    <3>3. LineAt(sheet, con, above + i) = EmptyLine(con)
      BY <2>1, <3>2, LineFacts
    <3>4. EmptyLine(con)[j] = Blank
      BY DEF EmptyLine
    <3> QED BY <1>7, <3>1, <3>3, <3>4
  <2> QED BY <1>2, <1>6, <2>1, <2>2, <2>3 DEF OnPaper, Paper
<1>9. ASSUME NEW p \in Fixed
      PROVE  CellAt(con, p[1], p[2]) = Blank /\ ~InRegion(con, p[1], p[2])
  <2>1. p[1] \in 0 .. MaxX /\ p[2] \in 0 .. MaxY
    BY FixedFacts
  <2>2. p[1] < r[1] \/ p[1] > r[3] \/ p[2] < r[2] \/ p[2] > r[4]
    BY ConsoleAssumptions DEF ConsoleAssumption
  <2>3. con.x1 = x1 /\ con.x2 = x2 /\ con.y1 = y1 /\ con.y2 = y2
    BY <1>3
  <2>4. ~InRegion(con, p[1], p[2])
    BY <1>4, <1>5, <2>1, <2>2, <2>3 DEF InRegion
  <2> QED BY <1>7, <2>1, <2>4
<1>10. OutsideKept
  BY <1>2, <1>9 DEF OutsideKept
<1> QED BY <1>2, <1>8, <1>10 DEF ConsoleInv, ViewKept

LEMMA ConsoleStep ==
  ASSUME ConsoleInv, [GNext]_gconVars
  PROVE  ConsoleInv'
<1>1. ASSUME con' = con, sheet' = sheet, above' = above, outside' = outside,
             (flushed' = flushed /\ view' = view) \/ (con.row0 = -1 /\ view' = View(con))
      PROVE  ConsoleInv'
  <2>1. OnPaper(Paper)'
    BY <1>1 DEF ConsoleInv, Paper, OnPaper
  <2>2. OutsideKept'
    BY <1>1 DEF ConsoleInv, OutsideKept
  <2>3. ViewKept'
    BY <1>1 DEF ConsoleInv, ViewKept
  <2> QED BY <2>1, <2>2, <2>3 DEF ConsoleInv
<1>2. CASE UNCHANGED gconVars
  BY <1>1, <1>2 DEF gconVars, conVars
<1>3. CASE GCall
  <2>1. CASE GPutChar \/ GPrintf
    BY <2>1, GCallPrints
  <2>2. CASE GMoveTo
    BY <2>2, GMoveToKeeps
  <2>3. CASE GPutCharAt
    BY <2>3, GPutCharAtKeeps
  <2>4. CASE GClearScroll
    BY <2>4, GClearScrollKeeps
  <2>5. CASE SerialPrintf /\ UNCHANGED <<flushed, view>>
    BY <1>1, <2>5 DEF SerialPrintf
  <2> QED BY <1>3, <2>1, <2>2, <2>3, <2>4, <2>5 DEF GCall
<1>4. CASE DrawView
  BY <1>1, <1>4 DEF DrawView, conVars
<1> QED BY <1>2, <1>3, <1>4 DEF GNext

\* Line k of the view is row k + 1: the console window's row 0 is in front of
\* the array.
LEMMA ConsoleShows ==
  ASSUME ConsoleInv
  PROVE  ShownAsPrinted
<1>1. /\ Shape(con) /\ Cursor(con)
      /\ \A i \in 0 .. con.y2 - con.y1, j \in 0 .. Margin(con) :
           CellAt(con, con.x1 + j, con.y1 + i) = LineAt(sheet, con, above + i)[j]
  BY PaperFacts DEF ConsoleInv
<1>2. RegionShowsSheet
  <2>1. \A x, y : Cell(x, y) = CellAt(con, x, y)
    BY DEF Cell, CellAt
  <2>2. \A p \in Fixed : CellAt(con, p[1], p[2]) = outside[p]
    BY DEF ConsoleInv, OutsideKept
  <2> QED BY <1>1, <2>1, <2>2 DEF RegionShowsSheet, Cursor
<1>3. ASSUME flushed, NEW k \in DrawnRows, NEW j \in 0 .. MaxX - 1,
             k + 1 \in con.y1 .. con.y2, j \in con.x1 .. con.x2
      PROVE  view[k][j] = LineAt(sheet, con, above + k + 1 - con.y1)[j - con.x1]
  <2>1. con.row0 = -1 /\ view = View(con)
    BY <1>3 DEF ConsoleInv, ViewKept
  <2>2. view[k][j] = con.mem[k * Width + j]
    BY <2>1 DEF View, DrawnRow
  <2>3. /\ k \in Nat /\ j \in Nat /\ con.x1 \in Nat /\ con.x2 \in Nat /\ con.y1 \in Nat
        /\ con.y2 \in Nat /\ Width \in Nat
    BY <1>1, ScreenFacts DEF Shape, DrawnRows
  <2>4. Address(con, j, k + 1) = k * Width + j
    <3>1. k + 1 + con.row0 = k
      BY <2>1, <2>3
    <3>2. Address(con, j, k + 1) = j + k * Width
      BY <3>1 DEF Address
    <3>3. k * Width \in Nat
      BY <2>3
    <3> QED BY <2>3, <3>2, <3>3
  <2>5. view[k][j] = CellAt(con, j, k + 1)
    BY <2>2, <2>4 DEF CellAt
  <2> DEFINE i == k + 1 - con.y1
             l == j - con.x1
  <2>6. /\ i \in 0 .. con.y2 - con.y1 /\ l \in 0 .. Margin(con)
        /\ con.x1 + l = j /\ con.y1 + i = k + 1
    BY <1>3, <2>3 DEF Margin
  <2>7. above + i = above + k + 1 - con.y1
    <3>1. above \in Nat
      BY PaperFacts DEF ConsoleInv
    <3> QED BY <3>1, <2>3
  <2> HIDE DEF i
  <2>8. CellAt(con, con.x1 + l, con.y1 + i) = LineAt(sheet, con, above + i)[l]
    BY <1>1, <2>6
  <2> QED BY <2>5, <2>6, <2>7, <2>8
<1> QED BY <1>2, <1>3 DEF ShownAsPrinted, ViewShowsSheet

\* The region of the screen, and each line of the console window that was
\* painted since the last output, show the last lines that were printed,
\* whatever was printed, moved to and cleared, on a screen and in a region of
\* any size; what stands outside the region stays (c_io.c:165-286,
\* gconsole.cpp:108-275, 545-558).
THEOREM AlwaysShownAsPrinted == GSpec => []ShownAsPrinted
<1>1. GInit => ConsoleInv
  BY ConsoleStart
<1>2. ConsoleInv /\ [GNext]_gconVars => ConsoleInv'
  BY ConsoleStep
<1>3. ConsoleInv => ShownAsPrinted
  BY ConsoleShows
<1> QED BY <1>1, <1>2, <1>3, PTL DEF GSpec

-----------------------------------------------------------------------------
(* The decimal digits of a word give the word.                             *)

LEMMA ReadsNothing ==
  ASSUME NEW b \in 2 .. 16
  PROVE  Reads(<<>>, b, 0)
<1> DEFINE v == [k \in 0 .. 0 |-> 0]
<1>1. v \in [0 .. 0 -> Nat] /\ v[0] = 0 /\ Len(<<>>) = 0 /\ 1 .. 0 = {}
  OBVIOUS
<1> HIDE DEF v
<1> QED BY <1>1 DEF Reads

LEMMA ReadsOneMore ==
  ASSUME NEW s, IsText(s), NEW b \in 2 .. 16, NEW x \in Nat, NEW d \in 0 .. b - 1,
         Reads(s, b, x), NEW t, t = s \o <<DigitOf(d)>>
  PROVE  Reads(t, b, x * b + d)
<1> DEFINE n == Len(s)
<1>1. n \in Nat
  BY TextLength
<1>2. /\ Len(t) = n + 1 /\ t[n + 1] = DigitOf(d)
      /\ \A k \in 1 .. n : t[k] = s[k]
  <2>1. PICK T : s \in Seq(T)
    BY DEF IsText
  <2>2. s \in Seq(T \cup {DigitOf(d)}) /\ <<DigitOf(d)>> \in Seq(T \cup {DigitOf(d)})
    BY <2>1
  <2> QED BY <2>2
<1>3. PICK v \in [0 .. n -> Nat] :
        /\ v[0] = 0 /\ v[n] = x
        /\ \A k \in 1 .. n :
             \E e \in 0 .. b - 1 : s[k] = DigitOf(e) /\ v[k] = v[k - 1] * b + e
  BY DEF Reads
<1> HIDE DEF n
<1> DEFINE y == x * b + d
<1>4. y \in Nat
  <2>1. x * b \in Nat
    BY SMT
  <2> QED BY <2>1
<1> HIDE DEF y
<1> DEFINE w == [k \in 0 .. n + 1 |-> IF k = n + 1 THEN y ELSE v[k]]
<1>5. w \in [0 .. n + 1 -> Nat] /\ w[n + 1] = y /\ \A k \in 0 .. n : w[k] = v[k]
  BY <1>1, <1>3, <1>4
<1> HIDE DEF w
<1>6. ASSUME NEW k \in 1 .. n + 1
      PROVE  \E e \in 0 .. b - 1 : t[k] = DigitOf(e) /\ w[k] = w[k - 1] * b + e
  <2>1. CASE k = n + 1
    <3>1. w[k] = w[k - 1] * b + d
      <4>1. k - 1 = n /\ n \in 0 .. n
        BY <1>1, <2>1
      <4> QED BY <1>3, <1>5, <2>1, <4>1 DEF y
    <3> QED BY <1>2, <2>1, <3>1
  <2>2. CASE k # n + 1
    <3>1. k \in 1 .. n /\ k \in 0 .. n /\ k - 1 \in 0 .. n
      BY <1>1, <2>2
    <3>2. w[k] = v[k] /\ w[k - 1] = v[k - 1] /\ t[k] = s[k]
      BY <1>2, <1>5, <3>1
    <3>3. \E e \in 0 .. b - 1 : s[k] = DigitOf(e) /\ v[k] = v[k - 1] * b + e
      BY <1>3, <3>1
    <3> QED BY <3>2, <3>3
  <2> QED BY <2>1, <2>2
<1>7. 0 \in 0 .. n /\ w[0] = 0
  BY <1>1, <1>3, <1>5
<1>8. Reads(t, b, y)
  <2>1. w \in [0 .. Len(t) -> Nat] /\ w[0] = 0 /\ w[Len(t)] = y
    BY <1>2, <1>5, <1>7
  <2>2. \A k \in 1 .. Len(t) :
          \E e \in 0 .. b - 1 : t[k] = DigitOf(e) /\ w[k] = w[k - 1] * b + e
    BY <1>2, <1>6
  <2> QED BY <2>1, <2>2 DEF Reads
<1> QED BY <1>8 DEF y

LEMMA DecimalReads ==
  ASSUME NEW u \in Word, u >= 0
  PROVE  Reads(cvtdec0(u), 10, u)
<1> DEFINE h == Half
           Good(v) == Reads(cvtdec0(v), 10, v)
           Bad == {k \in Nat : k \in Word /\ ~ Good(k)}
<1>1. h \in Nat \ {0} /\ Word = -h .. h - 1
  BY WordFacts
<1>2. \A v \in Word : Leading(v) \in 0 .. h - 1 /\ (v >= 0 /\ Leading(v) # 0 => Leading(v) < v)
  BY LeadingFacts
<1> HIDE DEF h
<1> SUFFICES ASSUME ~ Good(u) PROVE FALSE
  OBVIOUS
<1> HIDE DEF Good
<1>3. u \in Bad
  BY <1>1
<1>4. PICK m \in Bad : \A k \in Bad : m <= k
  BY <1>3, LeastElement
<1>5. m \in Word /\ m \in Nat /\ ~ Good(m)
  BY <1>4
<1>6. Leading(m) = m \div 10 /\ LastDigit(m) = m % 10
  <2>1. Quotient(m, 10) = m \div 10 /\ ~(Quotient(m, 10) < 0)
    BY <1>5 DEF Quotient
  <2>2. Rest(m, 10) = m % 10
    BY <1>5, <2>1 DEF Rest
  <2> QED BY <2>1, <2>2 DEF Leading, LastDigit
<1> DEFINE q == m \div 10
           d == m % 10
           t == IF q # 0 THEN cvtdec0(q) ELSE <<>>
<1>7. q \in Nat /\ d \in 0 .. 10 - 1 /\ m = q * 10 + d
  BY <1>5
<1>8. cvtdec0(m) = t \o <<DigitOf(d)>>
  BY <1>5, <1>6, DecimalUnfolds
<1>9. IsText(t) /\ Reads(t, 10, q)
  <2>1. CASE q = 0
    <3>1. t = <<>> /\ 10 \in 2 .. 16
      BY <2>1
    <3> HIDE DEF q, t
    <3>2. IsText(<<>>) /\ Reads(<<>>, 10, 0)
      BY <3>1, TextOfOne, ReadsNothing
    <3> QED BY <2>1, <3>1, <3>2
  <2>2. CASE q # 0
    <3>1. q \in 0 .. h - 1 /\ q < m
      BY <1>2, <1>5, <1>6, <2>2
    <3>2. q \in Word
      BY <1>1, <3>1
    <3>3. q \notin Bad
      BY <1>4, <1>5, <3>1, <1>7
    <3>4. Good(q)
      BY <1>7, <3>2, <3>3
    <3> HIDE DEF q
    <3>5. IsText(cvtdec0(q))
      BY <3>2, DecimalIsText
    <3> QED BY <2>2, <3>4, <3>5 DEF Good
  <2> QED BY <2>1, <2>2
<1> HIDE DEF q, d, t
<1>10. Reads(cvtdec0(m), 10, q * 10 + d)
  <2>1. 10 \in 2 .. 16
    OBVIOUS
  <2> QED BY <2>1, <1>7, <1>8, <1>9, ReadsOneMore
<1> QED BY <1>5, <1>7, <1>10 DEF Good

\* The word that has no opposite.
LEMMA LeastWordReads == Reads(cvtdec0(-Half), 10, Half)
<1> DEFINE h == Half
           q == Half \div 10
           d == Half % 10
<1>1. h \in Nat /\ h >= 16 /\ Word = -h .. h - 1
  BY HalfFacts
<1>2. q \in Nat /\ q # 0 /\ q <= h - 1 /\ d \in 0 .. 10 - 1 /\ h = q * 10 + d
  BY <1>1
<1>3. Quotient(-h, 10) < 0
  <2>1. Quotient(-h, 10) = -(h \div 10)
    BY <1>1 DEF Quotient
  <2> QED BY <1>2, <2>1
<1>4. Leading(-h) = q /\ LastDigit(-h) = d
  BY <1>3 DEF Leading, LastDigit
<1> HIDE DEF h, q, d
<1>5. -h \in Word /\ q \in Word /\ q >= 0
  BY <1>1, <1>2
<1>6. cvtdec0(-h) = (IF Leading(-h) # 0 THEN cvtdec0(Leading(-h)) ELSE <<>>)
                      \o <<DigitOf(LastDigit(-h))>>
  BY <1>5, DecimalUnfolds
<1>7. cvtdec0(-h) = cvtdec0(q) \o <<DigitOf(d)>>
  BY <1>2, <1>4, <1>6
<1>8. IsText(cvtdec0(q)) /\ Reads(cvtdec0(q), 10, q)
  BY <1>5, DecimalIsText, DecimalReads
<1>9. Reads(cvtdec0(-h), 10, q * 10 + d)
  <2>1. 10 \in 2 .. 16
    OBVIOUS
  <2> DEFINE t == cvtdec0(q)
  <2>2. IsText(t) /\ Reads(t, 10, q) /\ cvtdec0(-h) = t \o <<DigitOf(d)>>
    BY <1>7, <1>8
  <2> HIDE DEF t
  <2> QED BY <2>1, <2>2, <1>2, ReadsOneMore
<1> QED BY <1>2, <1>9 DEF h

LEMMA SignedReads ==
  ASSUME NEW u \in Word
  PROVE  IF u < 0
         THEN /\ cvtdec(u) = <<"-">> \o cvtdec0(Wrap(-u)) /\ Wrap(-u) \in Word
              /\ Reads(cvtdec0(Wrap(-u)), 10, -u)
         ELSE cvtdec(u) = cvtdec0(u) /\ Reads(cvtdec0(u), 10, u)
<1> DEFINE h == Half
<1>1. h \in Nat /\ h >= 16 /\ Word = -h .. h - 1
  BY HalfFacts
<1>2. \A v : Wrap(v) = ((v + h) % (2 * h)) - h
  BY DEF Wrap
<1> HIDE DEF h
<1>3. CASE ~(u < 0)
  <2>1. u >= 0
    BY <1>1, <1>3
  <2> QED BY <1>3, <2>1, DecimalReads DEF cvtdec
<1>4. CASE u = -h
  <2>1. u < 0 /\ -u = h /\ -h \in Word
    BY <1>1, <1>4
  <2>2. (h + h) % (2 * h) = 0
    <3> DEFINE m == 2 * h
    <3>1. m \in Nat \ {0} /\ h + h = m
      BY <1>1
    <3> HIDE DEF m
    <3>2. m % m = 0
      BY <3>1
    <3> QED BY <3>1, <3>2 DEF m
  <2>3. Wrap(-u) = -h
    <3>1. Wrap(h) = ((h + h) % (2 * h)) - h
      BY <1>2
    <3>2. Wrap(h) = -h
      BY <1>1, <2>2, <3>1
    <3> QED BY <2>1, <3>2
  <2>4. Reads(cvtdec0(-h), 10, h)
    BY LeastWordReads DEF h
  <2> QED BY <2>1, <2>3, <2>4 DEF cvtdec
<1>5. CASE u < 0 /\ u # -h
  <2> DEFINE p == -u
  <2>1. p \in 1 .. h - 1
    BY <1>1, <1>5
  <2> HIDE DEF p
  <2>2. (p + h) % (2 * h) = p + h
    <3> DEFINE m == 2 * h
               e == p + h
    <3>1. m \in Nat \ {0} /\ e \in 0 .. m - 1
      BY <1>1, <2>1
    <3> HIDE DEF m, e
    <3>2. e % m = e
      BY <3>1
    <3> QED BY <3>2 DEF m, e
  <2>3. Wrap(p) = p
    BY <1>1, <1>2, <2>1, <2>2
  <2>4. p \in Word /\ p >= 0
    BY <1>1, <2>1
  <2>5. Reads(cvtdec0(p), 10, p)
    BY <2>4, DecimalReads
  <2> QED BY <1>5, <2>3, <2>4, <2>5 DEF cvtdec, p
<1>6. u \in Int
  BY <1>1
<1> QED BY <1>3, <1>4, <1>5, <1>6

-----------------------------------------------------------------------------
(* The octal and hexadecimal digits of a word give its bits.               *)

LEMMA QuotientUnique ==
  ASSUME NEW m \in Nat \ {0}, NEW s \in Nat, NEW e \in 0 .. m - 1,
         NEW v, v = s * m + e
  PROVE  v \div m = s
<1> DEFINE z == v \div m
           f == v % m
<1>1. s * m \in Nat /\ v \in Nat
  <2>1. s * m \in Nat
    BY TimesOrdered
  <2> QED BY <2>1
<1>2. z \in Nat /\ f \in 0 .. m - 1 /\ v = z * m + f
  BY <1>1, DivisionFacts
<1> HIDE DEF z, f
<1>3. z * m \in Nat /\ (z + 1) * m = z * m + m /\ (s + 1) * m = s * m + m
  BY <1>2
<1>4. z + 1 <= s => (z + 1) * m <= s * m
  BY <1>2, TimesOrdered
<1>5. s + 1 <= z => (s + 1) * m <= z * m
  BY <1>2, TimesOrdered
<1>6. ~(z + 1 <= s)
  BY <1>1, <1>2, <1>3, <1>4
<1>7. ~(s + 1 <= z)
  BY <1>1, <1>2, <1>3, <1>5
<1>8. z = s
  BY <1>2, <1>6, <1>7
<1> QED BY <1>8 DEF z

\* A quotient without its last digit is the quotient by a longer divisor.
LEMMA QuotientOfGroup ==
  ASSUME NEW v \in Nat, NEW p \in Nat \ {0}, NEW b \in {8, 16}, NEW m, m = b * p
  PROVE  /\ v \div p \in Nat /\ v \div m \in Nat
         /\ v \div p = (v \div m) * b + ((v \div p) % b)
<1> DEFINE q == v \div p
           r == v % p
           s == q \div b
           t == q % b
<1>1. q \in Nat /\ r \in 0 .. p - 1 /\ v = q * p + r
  BY DivisionFacts
<1> HIDE DEF q, r
<1>2. s \in Nat /\ t \in 0 .. b - 1 /\ q = s * b + t
  BY <1>1
<1> HIDE DEF s, t
<1>3. m \in Nat \ {0}
  OBVIOUS
<1>4. t * p \in Nat /\ t * p <= (b - 1) * p /\ (b - 1) * p = m - p
  <2>1. b - 1 \in Nat /\ t \in Nat /\ t <= b - 1
    BY <1>2
  <2>2. t * p \in Nat /\ t * p <= (b - 1) * p
    BY <2>1, TimesOrdered
  <2>3. (b - 1) * p = m - p
    OBVIOUS
  <2> QED BY <2>2, <2>3
<1> DEFINE e == t * p + r
<1>5. e \in 0 .. m - 1
  BY <1>1, <1>3, <1>4
<1>6. v = s * m + e
  <2>1. q * p = s * (b * p) + t * p
    BY <1>2
  <2>2. v = q * p + r
    BY <1>1
  <2>3. s * (b * p) \in Nat
    <3>1. b * p \in Nat
      OBVIOUS
    <3> QED BY <3>1, <1>2, TimesOrdered
  <2> QED BY <1>1, <1>4, <2>1, <2>2, <2>3
<1> HIDE DEF e
<1>7. v \div m = s
  BY <1>2, <1>3, <1>5, <1>6, QuotientUnique
<1>8. v \div p = q /\ (q % b) = t
  BY DEF q, t
<1> QED BY <1>1, <1>2, <1>7, <1>8

\* The groups from the left on, however many, are what a division leaves of
\* the word; none of them, nothing.
LeftGroups(v, bits) ==
  [k \in 0 .. Groups(bits) |-> v \div Power[bits * (Groups(bits) - k)]]

LEMMA GroupsFromLeft ==
  ASSUME NEW v \in 0 .. (2 * Half - 1), NEW bits \in {3, 4}
  PROVE  LET b == Power[bits]
             n == Groups(bits)
             w == LeftGroups(v, bits)
         IN /\ n \in Nat \ {0} /\ b \in {8, 16} /\ w[0] = 0 /\ w[n] = v
            /\ w \in [0 .. n -> Nat]
            /\ \A k \in 1 .. n : /\ GroupDigit(v, bits, k) \in 0 .. b - 1
                                 /\ w[k] = w[k - 1] * b + GroupDigit(v, bits, k)
<1> DEFINE b == Power[bits]
           n == Groups(bits)
           w == LeftGroups(v, bits)
<1>0. w = [k \in 0 .. n |-> v \div Power[bits * (n - k)]]
  BY DEF LeftGroups
<1>15. \A k : GroupDigit(v, bits, k) = (v \div Power[bits * (n - k)]) % b
  BY DEF GroupDigit
<1>16. b = Power[bits] /\ n = (WordBits + bits - 1) \div bits
  BY DEF Groups
<1> HIDE DEF b, n, w
<1>1. Half \in Nat /\ Half >= 16 /\ Power[WordBits] = 2 * Half
  BY HalfFacts
<1>2. v \in Nat /\ v < Power[WordBits]
  BY <1>1
<1>3. /\ n \in Nat \ {0} /\ bits * n \in Nat /\ bits * n >= WordBits
      /\ WordBits \in Nat
  <2>1. CASE bits = 3
    BY <2>1, <1>16, WordIsWide
  <2>2. CASE bits = 4
    BY <2>2, <1>16, WordIsWide
  <2> QED BY <2>1, <2>2
<1>4. b \in {8, 16} /\ \A k \in Nat : Power[k + bits] = b * Power[k]
  BY <1>16, PowerOfGroup
<1>5. \A k \in 0 .. n : w[k] = v \div Power[bits * (n - k)]
  BY <1>0
<1>6. w = [k \in 0 .. n |-> w[k]]
  BY <1>0
<1>7. \A k \in 1 .. n : GroupDigit(v, bits, k) = w[k] % b
  <2> SUFFICES ASSUME NEW k \in 1 .. n PROVE GroupDigit(v, bits, k) = w[k] % b
    OBVIOUS
  <2>1. k \in 0 .. n
    BY <1>3
  <2> QED BY <2>1, <1>5, <1>15
<1>8. \A k \in 0 .. n : bits * (n - k) \in Nat
  <2>1. \A k \in 0 .. n : n - k \in Nat
    BY <1>3
  <2> QED BY <2>1
<1>9. \A k \in 0 .. n : Power[bits * (n - k)] \in Nat \ {0}
  BY <1>8, PowerFacts
<1>10. w[0] = 0
  <2> DEFINE m == bits * n
             p == Power[m]
  <2>1. m \in Nat /\ m >= WordBits
    BY <1>3
  <2>2. n - 0 = n /\ 0 \in 0 .. n
    BY <1>3
  <2>3. w[0] = v \div p
    BY <1>5, <2>2
  <2> HIDE DEF m
  <2>4. m - WordBits \in Nat /\ WordBits + (m - WordBits) = m
    BY <1>3, <2>1
  <2>5. Power[WordBits] <= Power[WordBits + (m - WordBits)]
    BY <1>3, <2>4, PowerGrows
  <2>6. p \in Nat \ {0} /\ Power[WordBits] \in Nat /\ Power[WordBits] <= p
    BY <1>3, <2>1, <2>4, <2>5, PowerFacts
  <2> HIDE DEF p
  <2>7. v \in 0 .. p - 1 /\ v = 0 * p + v
    BY <1>2, <2>6
  <2>8. v \div p = 0
    BY <2>6, <2>7, QuotientUnique
  <2> QED BY <2>3, <2>8
<1>11. w[n] = v
  <2>1. bits * (n - n) = 0 /\ n \in 0 .. n
    BY <1>3
  <2>2. w[n] = v \div 1
    BY <1>5, <2>1, PowerFacts
  <2> QED BY <1>2, <2>2
<1>12. \A k \in 0 .. n : w[k] \in Nat
  <2> SUFFICES ASSUME NEW k \in 0 .. n PROVE w[k] \in Nat
    OBVIOUS
  <2> DEFINE p == Power[bits * (n - k)]
  <2>1. p \in Nat \ {0} /\ w[k] = v \div p
    BY <1>5, <1>9
  <2> HIDE DEF p
  <2> QED BY <1>2, <2>1, DivisionFacts
<1>13. ASSUME NEW k \in 1 .. n
       PROVE  (w[k] % b) \in 0 .. b - 1 /\ w[k] = w[k - 1] * b + (w[k] % b)
  <2> DEFINE j == bits * (n - k)
             p == Power[j]
             m == Power[j + bits]
  <2>1. k \in 0 .. n /\ k - 1 \in 0 .. n /\ w[k] \in Nat
    BY <1>3, <1>12
  <2>2. j \in Nat
    BY <1>8, <2>1
  <2>3. bits * (n - (k - 1)) = j + bits
    <3>1. CASE bits = 3
      BY <3>1, <1>3
    <3>2. CASE bits = 4
      BY <3>2, <1>3
    <3> QED BY <3>1, <3>2
  <2>4. w[k] = v \div p /\ w[k - 1] = v \div m
    BY <1>5, <2>1, <2>3
  <2> HIDE DEF j
  <2>5. p \in Nat \ {0} /\ m = b * p
    BY <1>4, <2>2, PowerFacts
  <2> HIDE DEF p, m
  <2>6. v \div p = (v \div m) * b + ((v \div p) % b)
    BY <1>2, <1>4, <2>5, QuotientOfGroup
  <2>7. (w[k] % b) \in 0 .. b - 1
    <3>1. PICK y : y = w[k]
      OBVIOUS
    <3>2. y \in Nat /\ b \in Nat \ {0}
      BY <1>4, <2>1, <3>1
    <3>3. (y % b) \in 0 .. b - 1
      BY <3>2, DivisionFacts
    <3> QED BY <3>1, <3>3
  <2> QED BY <2>4, <2>6, <2>7
<1>14. w \in [0 .. n -> Nat]
  BY <1>6, <1>12
<1>17. \A k \in 1 .. n : /\ GroupDigit(v, bits, k) \in 0 .. b - 1
                          /\ w[k] = w[k - 1] * b + GroupDigit(v, bits, k)
  BY <1>7, <1>13
<1> QED BY <1>3, <1>4, <1>10, <1>11, <1>14, <1>17 DEF b, n, w

LEMMA GroupedReads ==
  ASSUME NEW u \in Word, NEW bits \in {3, 4}
  PROVE  Reads(Grouped(u, bits), Power[bits], Unsigned(u))
<1> DEFINE n == Groups(bits)
           v == Unsigned(u)
           b == Power[bits]
           D(k) == GroupDigit(v, bits, k)
           g == Grouped(u, bits)
           w == LeftGroups(v, bits)
<1>1. v \in 0 .. (2 * Half - 1)
  <2>1. u \in Int /\ 2 * Half \in Nat \ {0}
    BY HalfFacts
  <2> HIDE DEF v
  <2> DEFINE m == 2 * Half
  <2>2. v = u % m
    BY DEF v, Unsigned
  <2>3. m \in Nat \ {0}
    BY <2>1
  <2> HIDE DEF m
  <2>4. u % m \in 0 .. m - 1
    BY <2>1, <2>3
  <2> QED BY <2>2, <2>4 DEF m
<1>2. /\ n \in Nat \ {0} /\ b \in {8, 16} /\ w[0] = 0 /\ w[n] = v
      /\ w \in [0 .. n -> Nat]
      /\ \A k \in 1 .. n : D(k) \in 0 .. b - 1 /\ w[k] = w[k - 1] * b + D(k)
  <2> HIDE DEF v
  <2> QED BY <1>1, GroupsFromLeft
<1>3. PICK first \in 1 .. n :
        /\ \A j \in 1 .. first - 1 : D(j) = 0
        /\ g = [k \in 1 .. n - first + 1 |-> DigitOf(D(first + k - 1))]
  BY GroupedForm
<1> HIDE DEF n, v, b, D, g, w
<1>4. first - 1 \in Nat /\ first - 1 <= n /\ first \in Nat
  BY <1>2
<1>5. w[first - 1] = 0
  <2> DEFINE S == {k \in 0 .. first - 1 : w[k] = 0}
  <2>1. 0 \in S
    BY <1>2, <1>4
  <2>2. ASSUME NEW k \in 0 .. (first - 1) - 1, k \in S PROVE k + 1 \in S
    <3>1. k + 1 \in 1 .. n /\ k + 1 \in 1 .. first - 1 /\ k + 1 \in 0 .. first - 1 /\ (k + 1) - 1 = k
      BY <1>2, <1>4
    <3>2. D(k + 1) = 0 /\ w[k + 1] = w[(k + 1) - 1] * b + D(k + 1)
      BY <1>2, <1>3, <3>1
    <3>3. w[k + 1] = 0 * b + 0
      BY <2>2, <3>1, <3>2
    <3>4. w[k + 1] = 0
      BY <1>2, <3>3
    <3> QED BY <3>1, <3>4
  <2>3. \A k \in 0 .. (first - 1) - 1 : k \in S => k + 1 \in S
    BY <2>2
  <2> HIDE DEF S
  <2>4. \A k \in 0 .. first - 1 : k \in S
    BY <1>4, <2>1, <2>3, CountUp
  <2>5. first - 1 \in S
    BY <1>4, <2>4
  <2> QED BY <2>5 DEF S
<1> DEFINE m == n - first + 1
           x == [k \in 0 .. m |-> w[first - 1 + k]]
<1>6. m \in Nat /\ first - 1 + m = n
  BY <1>2, <1>4
<1>7. Len(g) = m /\ \A k \in 1 .. m : g[k] = DigitOf(D(first + k - 1))
  BY <1>3, <1>6
<1> HIDE DEF m
<1>8. \A k \in 0 .. m : first - 1 + k \in 0 .. n
  BY <1>4, <1>6
<1>9. x \in [0 .. m -> Nat] /\ \A k \in 0 .. m : x[k] = w[first - 1 + k]
  BY <1>2, <1>8
<1> HIDE DEF x
<1>10. x[0] = 0 /\ x[m] = v
  <2>1. 0 \in 0 .. m /\ m \in 0 .. m /\ first - 1 + 0 = first - 1
    BY <1>4, <1>6
  <2>2. x[0] = w[first - 1 + 0] /\ x[m] = w[first - 1 + m]
    BY <1>9, <2>1
  <2> QED BY <1>2, <1>5, <1>6, <2>1, <2>2
<1>11. ASSUME NEW k \in 1 .. m
       PROVE  \E d \in 0 .. b - 1 : g[k] = DigitOf(d) /\ x[k] = x[k - 1] * b + d
  <2> DEFINE i == first + k - 1
  <2>1. /\ i \in 1 .. n /\ first - 1 + k = i /\ first - 1 + (k - 1) = i - 1
        /\ k \in 0 .. m /\ k - 1 \in 0 .. m
    BY <1>4, <1>6
  <2>2. g[k] = DigitOf(D(i))
    BY <1>7
  <2>3. x[k] = w[i] /\ x[k - 1] = w[i - 1]
    BY <1>9, <2>1
  <2> HIDE DEF i
  <2>4. D(i) \in 0 .. b - 1 /\ w[i] = w[i - 1] * b + D(i)
    BY <1>2, <2>1
  <2> QED BY <2>2, <2>3, <2>4
<1>12. Reads(g, b, v)
  <2>1. x \in [0 .. Len(g) -> Nat] /\ x[0] = 0 /\ x[Len(g)] = v
    BY <1>7, <1>9, <1>10
  <2>2. \A k \in 1 .. Len(g) :
          \E d \in 0 .. b - 1 : g[k] = DigitOf(d) /\ x[k] = x[k - 1] * b + d
    BY <1>7, <1>11
  <2> QED BY <2>1, <2>2 DEF Reads
<1> QED BY <1>12 DEF g, b, v

-----------------------------------------------------------------------------
(* Fields.                                                                 *)

LEMMA JoinedFacts ==
  ASSUME NEW C, NEW a \in Seq(C), NEW b \in Seq(C), NEW z, z = a \o b
  PROVE  /\ z \in Seq(C) /\ Len(z) = Len(a) + Len(b)
         /\ \A k \in 1 .. Len(a) : z[k] = a[k]
         /\ \A k \in 1 .. Len(b) : z[Len(a) + k] = b[k]
OBVIOUS

\* A text can be taken out of its field again.
LEMMA TakenOut ==
  ASSUME NEW C, NEW a \in Seq(C), NEW b \in Seq(C), NEW z, z = a \o b
  PROVE  /\ Len(z) = Len(a) + Len(b)
         /\ a = SubSeq(z, 1, Len(a))
         /\ b = SubSeq(z, Len(z) - Len(b) + 1, Len(z))
<1> DEFINE m == Len(a)
           n == Len(b)
           u == SubSeq(z, 1, m)
           w == SubSeq(z, m + 1, m + n)
<1>1. m \in Nat /\ n \in Nat
  OBVIOUS
<1>2. /\ z \in Seq(C) /\ Len(z) = m + n
      /\ \A k \in 1 .. m : z[k] = a[k]
      /\ \A k \in 1 .. n : z[m + k] = b[k]
  BY JoinedFacts
<1>3. Len(a) = m /\ Len(b) = n
  OBVIOUS
<1> HIDE DEF m, n
<1>4. u \in Seq(C) /\ Len(u) = m /\ \A k \in 1 .. m : u[k] = z[k]
  BY <1>1, <1>2
<1>5. w \in Seq(C) /\ Len(w) = n /\ \A k \in 1 .. n : w[k] = z[m + k]
  BY <1>1, <1>2
<1> HIDE DEF u, w
<1>6. a = u
  BY <1>2, <1>3, <1>4, SeqEqual
<1>7. b = w
  BY <1>2, <1>3, <1>5, SeqEqual
<1>8. Len(z) - n + 1 = m + 1 /\ Len(z) = m + n
  BY <1>1, <1>2
<1>9. w = SubSeq(z, Len(z) - n + 1, Len(z))
  BY <1>8 DEF w
<1>10. u = SubSeq(z, 1, m)
  BY DEF u
<1> QED BY <1>3, <1>6, <1>7, <1>8, <1>9, <1>10

LEMMA PaddedFacts ==
  ASSUME NEW s, IsText(s), NEW width \in Nat, NEW left, NEW cn,
         NEW all, all = padstr(s, width, left, cn)
  PROVE  /\ Len(all) = IF Len(s) < width THEN width ELSE Len(s)
         /\ s = IF left THEN SubSeq(all, 1, Len(s))
                ELSE SubSeq(all, Len(all) - Len(s) + 1, Len(all))
<1> DEFINE fill == pad(width - Len(s), cn)
<1>1. PICK m : m = Len(s)
  OBVIOUS
<1>2. m \in Nat
  BY <1>1, TextLength
<1>3. PICK n : n = IF width - m > 0 THEN width - m ELSE 0
  OBVIOUS
<1>4. n \in Nat /\ m + n = (IF m < width THEN width ELSE m) /\ n + m = m + n
  BY <1>2, <1>3
<1>5. fill = [k \in 1 .. n |-> cn]
  BY <1>1, <1>3 DEF pad
<1>6. all = IF left THEN s \o fill ELSE fill \o s
  BY DEF padstr
<1>7. PICK T : s \in Seq(T)
  BY DEF IsText
<1>8. PICK C : C = T \cup {cn}
  OBVIOUS
<1> HIDE DEF fill
<1>9. fill \in Seq(C) /\ Len(fill) = n /\ s \in Seq(C)
  BY <1>4, <1>5, <1>7, <1>8
<1>10. CASE left
  <2>1. all = s \o fill
    BY <1>6, <1>10
  <2>2. Len(all) = Len(s) + Len(fill) /\ s = SubSeq(all, 1, Len(s))
    <3>1. fill \in Seq(C) /\ s \in Seq(C)
      BY <1>9
    <3> QED BY ONLY <3>1, <2>1, TakenOut
  <2>3. Len(all) = IF Len(s) < width THEN width ELSE Len(s)
    BY <1>1, <1>4, <1>9, <2>2
  <2> QED BY <1>10, <2>2, <2>3
<1>11. CASE ~left
  <2>1. all = fill \o s
    BY <1>6, <1>11
  <2>2. /\ Len(all) = Len(fill) + Len(s)
        /\ s = SubSeq(all, Len(all) - Len(s) + 1, Len(all))
    <3>1. fill \in Seq(C) /\ s \in Seq(C)
      BY <1>9
    <3> QED BY ONLY <3>1, <2>1, TakenOut
  <2>3. Len(all) = IF Len(s) < width THEN width ELSE Len(s)
    BY <1>1, <1>4, <1>9, <2>2
  <2> QED BY <1>11, <2>2, <2>3
<1> QED BY <1>10, <1>11

\* A character in front of a text.
LEMMA Prefixed ==
  ASSUME NEW T, NEW t \in Seq(T), NEW e, NEW s, s = <<e>> \o t
  PROVE  Head(s) = e /\ Tail(s) = t
<1>1. PICK C : C = T \cup {e}
  OBVIOUS
<1>2. t \in Seq(C) /\ <<e>> \in Seq(C)
  BY <1>1
<1>3. /\ s \in Seq(C) /\ Len(s) = Len(t) + 1 /\ s[1] = e
      /\ \A k \in 1 .. Len(t) : s[k + 1] = t[k]
  BY <1>2
<1> DEFINE u == Tail(s)
<1>4. u \in Seq(C) /\ Len(u) = Len(t) /\ \A k \in 1 .. Len(t) : u[k] = s[k + 1]
  BY <1>3
<1> HIDE DEF u
<1>5. u = t
  BY <1>2, <1>3, <1>4, SeqEqual
<1>6. Head(s) = e
  BY <1>3
<1> QED BY <1>5, <1>6 DEF u

LEMMA SerialSends ==
  ASSUME NEW f, IsText(serial_field(f[1], f[2]))
  PROVE  serial_printf(<<>>, f) = serial_field(f[1], f[2])
<1> DEFINE s == serial_field(f[1], f[2])
           n == Len(s)
           F(h) == [k \in 0 .. n |-> IF k = 0 THEN <<>> ELSE serial_char(h[k - 1], s[k])]
           g == CHOOSE h : h = F(h)
           v == [k \in 0 .. n |-> SubSeq(s, 1, k)]
<1>1. serial_printf(<<>>, f) = g[n]
  BY DEF serial_printf
<1> HIDE DEF s
<1>2. PICK T : s \in Seq(T)
  BY DEF IsText, s
<1>3. n \in Nat /\ \A k \in 1 .. n : s[k] \in T
  BY <1>2
<1> HIDE DEF n
<1>4. ASSUME NEW k \in 0 .. n
      PROVE  SubSeq(s, 1, k) = IF k = 0 THEN <<>> ELSE Append(SubSeq(s, 1, k - 1), s[k])
  <2>1. CASE k = 0
    BY <1>2, <2>1
  <2>2. CASE k # 0
    <3> DEFINE t == SubSeq(s, 1, k)
               u == SubSeq(s, 1, k - 1)
               w == Append(u, s[k])
    <3>0. k \in 1 .. n /\ k - 1 \in 0 .. n
      BY <1>3, <2>2
    <3>1. t \in Seq(T) /\ Len(t) = k /\ \A i \in 1 .. k : t[i] = s[i]
      BY <1>2, <1>3, <3>0 DEF n
    <3>2. u \in Seq(T) /\ Len(u) = k - 1 /\ \A i \in 1 .. k - 1 : u[i] = s[i]
      BY <1>2, <1>3, <3>0 DEF n
    <3> HIDE DEF t, u
    <3>3. /\ w \in Seq(T) /\ Len(w) = k /\ w[k] = s[k]
          /\ \A i \in 1 .. k - 1 : w[i] = u[i]
      BY <1>3, <3>0, <3>2, AppendProperties
    <3> HIDE DEF w
    <3>4. \A i \in 1 .. k : t[i] = w[i]
      <4> SUFFICES ASSUME NEW i \in 1 .. k PROVE t[i] = w[i]
        OBVIOUS
      <4>1. i = k \/ i \in 1 .. k - 1
        BY <1>3
      <4> QED BY <4>1, <3>1, <3>2, <3>3
    <3>5. t = w
      BY <3>1, <3>3, <3>4, SeqEqual
    <3> QED BY <2>2, <3>5 DEF t, u, w
  <2> QED BY <2>1, <2>2
<1>5. v = F(v)
  <2>1. \A k \in 0 .. n : k # 0 => k - 1 \in 0 .. n
    BY <1>3
  <2>2. \A k \in 0 .. n : v[k] = SubSeq(s, 1, k)
    OBVIOUS
  <2>3. v = [k \in 0 .. n |-> v[k]]
    OBVIOUS
  <2> HIDE DEF v
  <2>4. \A k \in 0 .. n : v[k] = IF k = 0 THEN <<>> ELSE Append(v[k - 1], s[k])
    BY <1>4, <2>1, <2>2
  <2> QED BY <2>3, <2>4 DEF serial_char
<1>6. g = F(g)
  BY <1>5
<1> HIDE DEF g
<1>7. g[0] = <<>> /\ \A k \in 1 .. n : g[k] = Append(g[k - 1], s[k])
  <2>1. \A k \in 0 .. n : g[k] = IF k = 0 THEN <<>> ELSE serial_char(g[k - 1], s[k])
    BY <1>6
  <2>2. \A h, e : serial_char(h, e) = Append(h, e)
    BY DEF serial_char
  <2>3. 0 \in 0 .. n /\ \A k \in 1 .. n : k \in 0 .. n /\ k # 0
    BY <1>3
  <2> HIDE DEF F
  <2> QED BY <2>1, <2>2, <2>3
<1>8. \A k \in 0 .. n : v[k] = SubSeq(s, 1, k)
  OBVIOUS
<1> HIDE DEF F, v
<1> DEFINE S == {k \in 0 .. n : g[k] = v[k]}
<1>9. 0 \in S
  <2>1. 0 \in 0 .. n
    BY <1>3
  <2>2. SubSeq(s, 1, 0) = <<>>
    BY <1>4, <2>1
  <2> QED BY <1>7, <1>8, <2>1, <2>2
<1>10. ASSUME NEW k \in 0 .. n - 1, k \in S PROVE k + 1 \in S
  <2>1. k + 1 \in 1 .. n /\ (k + 1) - 1 = k /\ k + 1 \in 0 .. n /\ k \in 0 .. n /\ k + 1 # 0
    BY <1>3
  <2>2. g[k + 1] = Append(g[(k + 1) - 1], s[k + 1])
    BY <1>7, <2>1
  <2>3. v[k + 1] = Append(SubSeq(s, 1, (k + 1) - 1), s[k + 1])
    BY <1>4, <1>8, <2>1
  <2> QED BY <1>8, <1>10, <2>1, <2>2, <2>3
<1>11. \A k \in 0 .. n - 1 : k \in S => k + 1 \in S
  BY <1>10
<1> HIDE DEF S
<1>12. \A k \in 0 .. n : k \in S
  BY <1>3, <1>9, <1>11, CountUp
<1>13. g[n] = v[n]
  BY <1>3, <1>12 DEF S
<1>14. v[n] = SubSeq(s, 1, n) /\ SubSeq(s, 1, n) = s
  <2>1. n \in 0 .. n
    BY <1>3
  <2> DEFINE t == SubSeq(s, 1, n)
  <2>2. t \in Seq(T) /\ Len(t) = n /\ \A i \in 1 .. n : t[i] = s[i]
    BY <1>2, <1>3 DEF n
  <2> HIDE DEF t
  <2>3. t = s
    BY <1>2, <2>2, SeqEqual DEF n
  <2> QED BY <1>8, <2>1, <2>3 DEF t
<1> QED BY <1>1, <1>13, <1>14 DEF s

(* The invariant of printf.                                                *)

LEMMA OneField ==
  ASSUME NEW f
  PROVE  gcon_printf(f) = Field(f[1], f[2]) /\ serial_field(f[1], f[2]) = Field(f[1], f[2])
BY DEF gcon_printf, gcon_field, serial_field, Field

\* The port is used by the first call only, and the last field printed is the
\* one that its format code asks for.
FieldKept ==
  /\ calls \in Nat /\ (calls = 0 => port = <<>>)
  /\ field # <<>> => \E f \in Formats : field = <<f, Field(f[1], f[2])>>

LEMMA FieldStep ==
  ASSUME FieldKept, [GNext]_gconVars
  PROVE  FieldKept'
<1>1. CASE calls' = calls /\ port' = port /\ field' = field
  BY <1>1 DEF FieldKept
<1>2. CASE GCall
  <2>1. calls' \in Nat /\ calls' # 0
    BY <1>2 DEF GCall, FieldKept
  <2>2. (field' # <<>> => \E f \in Formats : field' = <<f, Field(f[1], f[2])>>)
    <3>1. CASE field' = field
      BY <3>1 DEF FieldKept
    <3>2. CASE GPrintf
      <4>1. PICK f \in Formats : field' = <<f, gcon_printf(f)>>
        BY <3>2 DEF GPrintf
      <4> QED BY <4>1, OneField
    <3>3. CASE SerialPrintf
      <4>1. PICK f \in Formats : calls = 0 /\ port' = serial_printf(port, f) /\ field' = <<f, port'>>
        BY <3>3 DEF SerialPrintf
      <4> DEFINE t == serial_field(f[1], f[2])
      <4>2. t = Field(f[1], f[2])
        BY OneField
      <4>3. IsText(t)
        <5>1. /\ IsText(Converted(f[1], f[2])) /\ f[1].width \in Nat
          BY ConvertedIsText, FormatFacts
        <5> QED BY <5>1, PaddedIsText DEF serial_field
      <4> HIDE DEF t
      <4>4. port' = t
        <5>1. port = <<>>
          BY <4>1 DEF FieldKept
        <5> QED BY <4>1, <4>3, <5>1, SerialSends DEF t
      <4> QED BY <4>1, <4>2, <4>4
    <3>4. field' = field \/ GPrintf \/ SerialPrintf
      BY <1>2 DEF GCall, GPutChar, GMoveTo, GPutCharAt, GClearScroll, PutChar, MoveTo,
                  PutCharAt, ClearScroll
    <3> QED BY <3>1, <3>2, <3>3, <3>4
  <2> QED BY <2>1, <2>2 DEF FieldKept
<1>3. CASE DrawView
  BY <1>1, <1>3 DEF DrawView, conVars
<1>4. CASE UNCHANGED gconVars
  BY <1>1, <1>4 DEF gconVars, conVars
<1> QED BY <1>2, <1>3, <1>4 DEF GNext

LEMMA FieldReads ==
  ASSUME FieldKept
  PROVE  FieldsReadBack
<1> SUFFICES ASSUME field # <<>> PROVE FieldsReadBack
  BY DEF FieldsReadBack
<1>1. PICK f \in Formats : field = <<f, Field(f[1], f[2])>>
  BY DEF FieldKept
<1> DEFINE code == f[1]
           arg == f[2]
           str == Converted(code, arg)
           all == Field(code, arg)
<1>2. field[1][1] = code /\ field[1][2] = arg /\ field[2] = all
  BY <1>1
<1>3. IsText(str)
  BY ConvertedIsText
<1>4. /\ code.width \in Nat
      /\ code.type \in {"d", "x", "o"} => arg \in Word
  BY FormatFacts
<1> HIDE DEF code, arg, str
<1> DEFINE cn == IF code.zero THEN "0" ELSE " "
           width == code.width
<1>5. all = padstr(str, width, code.left, cn)
  BY DEF Field, str
<1> HIDE DEF all, cn
<1>6. /\ Len(all) = IF Len(str) < code.width THEN code.width ELSE Len(str)
      /\ str = IF code.left THEN SubSeq(all, 1, Len(str))
                ELSE SubSeq(all, Len(all) - Len(str) + 1, Len(all))
  <2>1. PICK left : left = code.left
    OBVIOUS
  <2>2. all = padstr(str, width, left, cn)
    BY <1>5, <2>1
  <2>3. width \in Nat
    BY <1>4
  <2> HIDE DEF width
  <2>4. /\ Len(all) = IF Len(str) < width THEN width ELSE Len(str)
        /\ str = IF left THEN SubSeq(all, 1, Len(str))
                  ELSE SubSeq(all, Len(all) - Len(str) + 1, Len(all))
    BY <1>3, <2>2, <2>3, PaddedFacts
  <2> QED BY <2>1, <2>4 DEF width
<1>7. ASSUME code.type = "d"
      PROVE  IF arg < 0 THEN Head(str) = "-" /\ ValueOf(Tail(str), 10) = -arg
             ELSE ValueOf(str, 10) = arg
  <2>1. str = cvtdec(arg) /\ arg \in Word
    BY <1>4, <1>7 DEF str, Converted
  <2>2. CASE arg < 0
    <3>1. PICK t : t = cvtdec0(Wrap(-arg))
      OBVIOUS
    <3>2. str = <<"-">> \o t /\ IsText(t) /\ Reads(t, 10, -arg)
      BY <2>1, <2>2, <3>1, SignedReads, DecimalIsText
    <3>3. PICK T : t \in Seq(T)
      BY <3>2 DEF IsText
    <3>4. Head(str) = "-" /\ Tail(str) = t
      BY <3>2, <3>3, Prefixed
    <3>5. ValueOf(t, 10) = -arg
      <4>1. 10 \in 2 .. 16 /\ Len(t) \in Nat
        BY <3>2, TextLength
      <4> QED BY <4>1, <3>2, ValueRead
    <3> QED BY <2>2, <3>4, <3>5
  <2>3. CASE ~(arg < 0)
    <3>1. str = cvtdec0(arg) /\ Reads(str, 10, arg)
      BY <2>1, <2>3, SignedReads
    <3>2. 10 \in 2 .. 16 /\ Len(str) \in Nat
      BY <1>3, TextLength
    <3>3. ValueOf(str, 10) = arg
      BY <3>1, <3>2, ValueRead
    <3> QED BY <2>3, <3>3
  <2> QED BY <2>2, <2>3
<1>8. ASSUME NEW bits \in {3, 4}, str = Grouped(arg, bits), arg \in Word
      PROVE  ValueOf(str, Power[bits]) = arg % (2 * Half)
  <2>1. Power[bits] \in 2 .. 16 /\ Len(str) \in Nat
    <3>1. Power[3] = 8 /\ Power[4] = 16
      BY PowerOfGroup
    <3>2. Power[bits] = 8 \/ Power[bits] = 16
      BY <3>1
    <3> QED BY <1>3, <3>2, TextLength
  <2>2. Reads(str, Power[bits], Unsigned(arg))
    BY <1>8, GroupedReads
  <2>3. ValueOf(str, Power[bits]) = Unsigned(arg)
    BY <2>1, <2>2, ValueRead
  <2> QED BY <2>3 DEF Unsigned
<1>9. code.type = "x" => ValueOf(str, 16) = arg % (2 * Half)
  <2> SUFFICES ASSUME code.type = "x" PROVE ValueOf(str, 16) = arg % (2 * Half)
    OBVIOUS
  <2>1. str = Grouped(arg, 4) /\ arg \in Word
    BY <1>4 DEF str, Converted, cvthex
  <2>2. 4 \in {3, 4} /\ Power[4] = 16
    BY PowerOfGroup
  <2>3. ValueOf(str, Power[4]) = arg % (2 * Half)
    BY <2>1, <2>2, <1>8
  <2> QED BY <2>2, <2>3
<1>10. code.type = "o" => ValueOf(str, 8) = arg % (2 * Half)
  <2> SUFFICES ASSUME code.type = "o" PROVE ValueOf(str, 8) = arg % (2 * Half)
    OBVIOUS
  <2>1. str = Grouped(arg, 3) /\ arg \in Word
    BY <1>4 DEF str, Converted, cvtoct
  <2>2. 3 \in {3, 4} /\ Power[3] = 8
    BY PowerOfGroup
  <2>3. ValueOf(str, Power[3]) = arg % (2 * Half)
    BY <2>1, <2>2, <1>8
  <2> QED BY <2>2, <2>3
<1>11. field[1][1] = code /\ field[1][2] = arg /\ field[2] = all /\ Converted(code, arg) = str
  BY <1>2 DEF str
<1> QED BY <1>6, <1>7, <1>9, <1>10, <1>11 DEF FieldsReadBack

\* What printf and its copies print is a field as wide as asked, with the text
\* at the side asked for, and the digits read back give the argument: for every
\* width of words, for every word, the one without an opposite included
\* (c_io.c:288-399, gconsole.cpp:304-428, serial.c:180-347).
THEOREM FieldsAlwaysReadBack == GSpec => []FieldsReadBack
<1>1. GInit => FieldKept
  BY DEF GInit, ConInit, FieldKept
<1>2. FieldKept /\ [GNext]_gconVars => FieldKept'
  BY FieldStep
<1>3. FieldKept => FieldsReadBack
  BY FieldReads
<1> QED BY <1>1, <1>2, <1>3, PTL DEF GSpec
=============================================================================
