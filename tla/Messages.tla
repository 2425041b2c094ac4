------------------------------ MODULE Messages ------------------------------
(***************************************************************************)
(* Message passing between processes (messages.c and its four system       *)
(* calls).                                                                 *)
(*                                                                         *)
(* Messages are addressed by pid and kept in one queue per addressee,      *)
(* which is made by the first message and never freed; whether it exists   *)
(* or is empty makes no difference to any caller, so `mailbox' does not    *)
(* tell the two apart.  Nothing checks that the addressee exists.          *)
(* Processes that wait stand in one queue for all, ordered by pid.  A      *)
(* message for one of them does not pass through the mailbox: the sender   *)
(* writes it into the memory of the receiver.                              *)
(***************************************************************************)
EXTENDS Calls

CONSTANTS
  Addressees,     \* the pids that programs send to
  MaxMessages     \* bound: message_send() is not called after this many

WaitQ  == <<"message", 0>>       \* _waitingPcbs
PidSet == 1 .. MaxPid

MessageAssumption ==
  /\ MaxPid \in Nat \ {0, 1}       \* pid 1 is init's, 2 the desktop thread's
  /\ MaxMessages \in Nat
  /\ Addressees \subseteq PidSet
  /\ WaitQ \in WaitQueues

ASSUME MessageAssumptions == MessageAssumption

\* A message is the pid of its sender and a number that tells it from every
\* other; its data and size are left out.
MessageSet == PidSet \X (1 .. MaxMessages)

VARIABLES
  mailbox,    \* _messageQueues, by pid
  messageLoc, \* _messageLoc: pages handed out above MESSAGE_LOCATION_START
  sends,      \* history: how many messages have been sent
  sent,       \* history: the messages sent to a pid, in the order of the calls
  got         \* history: the messages a pid has received, in order

mailVars == <<mailbox, messageLoc, sends, sent, got>>

MessageInit ==
  /\ Init /\ CallsInit
  /\ mailbox    = [to \in PidSet |-> <<>>]
  /\ messageLoc = 0
  /\ sends      = 0
  /\ sent       = [to \in PidSet |-> <<>>]
  /\ got        = [to \in PidSet |-> <<>>]

-----------------------------------------------------------------------------
NewMessage == <<pid[current], sends + 1>>

\* What both cases of _message_send have in common.
Sending(to) ==
  /\ User
  /\ sends < MaxMessages                               \* bound
  /\ sends' = sends + 1
  /\ sent' = [sent EXCEPT ![to] = Append(@, NewMessage)]

\* _q_remove_by_key(_waitingPcbs, to): the first node with that pid.
Awaits_Anyone(i, to) == i = 1           \* the head, whoever it is: MailInOrder

Awaits(i, to) ==
  /\ pid[queue[WaitQ][i]] = to
  /\ \A j \in 1 .. (i - 1) : pid[queue[WaitQ][j]] # to

Waiting(to) == \E i \in 1 .. Len(queue[WaitQ]) : pid[queue[WaitQ][i]] = to

\* _messages_copy_kern_to_proc: one more page of the receiver is mapped.
CopyToProcess == messageLoc' = messageLoc + 1

\* _q_remove_by_key takes the i-th waiter out, _sched makes it ready.
Wake(i, p) ==
  /\ queue' = [queue EXCEPT ![WaitQ] = RemoveAt(@, i),
                            ![ReadyQOf(p)] = Append(@, p)]
  /\ state' = [state EXCEPT ![p] = "READY"]

\* RET is written for the process woken and for the sender.
Answer(p) == eax' = [eax EXCEPT ![current] = "own", ![p] = "answered"]

\* _message_send to a process that waits.  This is the only call of the kernel
\* that loads the directory of the process it wakes before it writes its
\* status there.
SendToWaiter(to) ==
  /\ Sending(to)
  /\ \E i \in 1 .. Len(queue[WaitQ]) :
       LET p == queue[WaitQ][i] IN
       /\ Awaits(i, to)
       /\ Wake(i, p)
       /\ got'   = [got EXCEPT ![pid[p]] = Append(@, NewMessage)]
       /\ Answer(p)
  /\ CopyToProcess
  /\ result' = "SUCCESS"
  /\ UNCHANGED <<owed, priority, quantum, pid, pageDir, wakeKey, current,
                 nextPid, time, mode, memVars, incount, left, mailbox>>

\* _message_send to anyone else.  The function ends without a return: what
\* the caller finds in EAX is whatever the last call has left there.
Deposit(to, m) == mailbox' = [mailbox EXCEPT ![to] = Append(@, m)]

SendToMailbox(to) ==
  /\ Sending(to)
  /\ ~Waiting(to)
  /\ Deposit(to, NewMessage)
  /\ \E v \in {"SUCCESS", "FAILURE"} : Ret(v)
  /\ CoreKept(mode)
  /\ UNCHANGED <<messageLoc, got>>

\* _message_receive and _message_try_receive with a message in the mailbox.
Receive ==
  LET to == pid[current] IN
  /\ User
  /\ mailbox[to] # <<>>
  /\ mailbox' = [mailbox EXCEPT ![to] = Tail(@)]
  /\ got' = [got EXCEPT ![to] = Append(@, Head(mailbox[to]))]
  /\ CopyToProcess
  /\ Ret("SUCCESS")
  /\ CoreKept(mode)
  /\ UNCHANGED <<sends, sent>>

\* _q_insert(_waitingPcbs, pcb, pid).
ByPid(s, n) ==
  /\ \A i \in 1 .. n : pid[s[i]] <= pid[current]
  /\ n < Len(s) => pid[s[n + 1]] > pid[current]

MailboxEmpty_Assumed(to) == TRUE        \* not looked at: ReceiverServed
MailboxEmpty(to) == mailbox[to] = <<>>

\* _message_receive with an empty mailbox.
ReceiveWaits ==
  /\ User
  /\ ~IsInit
  /\ MailboxEmpty(pid[current])
  /\ \E n \in 0 .. Len(queue[WaitQ]) :
       /\ ByPid(queue[WaitQ], n)
       /\ BlockAt(WaitQ, n)
  /\ UNCHANGED mailVars

\* _message_try_receive with an empty mailbox, and _message_has_message.
Ask ==
  /\ User
  /\ Ret(IF mailbox[pid[current]] = <<>> THEN "NOT_FOUND" ELSE "SUCCESS")
  /\ CoreKept(mode)
  /\ UNCHANGED mailVars

-----------------------------------------------------------------------------
MessageCall ==
  \/ \E to \in Addressees : SendToWaiter(to) \/ SendToMailbox(to)
  \/ Receive
  \/ ReceiveWaits
  \/ Ask

MessageNext == MessageCall \/ (Core /\ UNCHANGED mailVars)

messageVars == <<vars, callVars, mailVars>>

MessageSpec == MessageInit /\ [][MessageNext]_messageVars

-----------------------------------------------------------------------------
(* Properties.                                                             *)

\* Every message sent to a pid has been received by the process of that pid or
\* is still in its mailbox, once, and in the order of the sends -- although
\* some messages go through the mailbox and others past it.
MailInOrder == \A to \in PidSet : sent[to] = got[to] \o mailbox[to]

\* No lost wake-up: a process that waits for a message has an empty mailbox.
ReceiverHasNoMail ==
  \A p \in Pcbs : In(WaitQ, p) => mailbox[pid[p]] = <<>>

\* When a process that has waited for a message runs again, its call has been
\* answered: the sender writes the status, through the right directory.
ReceiveReturnsStatus == User => eax[current] # "message"

\* message_receive() neither waits beside its message nor returns without it.
ReceiverServed == ReceiverHasNoMail /\ ReceiveReturnsStatus
=============================================================================
