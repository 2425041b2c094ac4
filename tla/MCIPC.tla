------------------------------- MODULE MCIPC -------------------------------
(***************************************************************************)
(* The two ways in which processes wait for each other that keep something *)
(* for those who come later: semaphores and messages.  They do not         *)
(* interact: part says which one a behaviour runs.                         *)
(***************************************************************************)
EXTENDS Semaphores, Messages
CONSTANTS k0, d1, d2, d3

MCWaitQueues == {SemQ(i) : i \in Slots} \cup {WaitQ}

VARIABLE part

ipcVars == <<part, vars, callVars, semVars, mailVars>>

IPCInit == part \in {"semaphores", "messages"} /\ SemInit /\ MessageInit

IPCNext ==
  /\ UNCHANGED part
  /\ \/ part = "semaphores" /\ SemNext /\ UNCHANGED mailVars
     \/ part = "messages" /\ MessageNext /\ UNCHANGED semVars

(* The fairness of SemFairSpec. *)
IPCSpec ==
  /\ IPCInit /\ [][IPCNext]_ipcVars
  /\ WF_allVars(SemLoop)
  /\ WF_allVars(KernelLoop /\ Core /\ UNCHANGED semVars)
  /\ SF_allVars(ClockTick /\ Core /\ UNCHANGED semVars)
=============================================================================
