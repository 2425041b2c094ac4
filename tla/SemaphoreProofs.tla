-------------------------- MODULE SemaphoreProofs ---------------------------
(***************************************************************************)
(* Proofs about semaphores, for every number of PCBs, slots and names: the *)
(* table of slots is sound, no token is lost or made up, and nobody waits  *)
(* beside a token.                                                         *)
(***************************************************************************)
EXTENDS Semaphores, ProcessProofs

\* What the types of Semaphores.tla add to those of the process core.
SlotsTyped ==
  /\ available  \in Seq(Slots)
  /\ semaphores \subseteq Slots
  /\ sem        \in [Slots -> Nat]
  /\ value      \in [Slots -> Nat]
  /\ semCount   \in Nat
  /\ loop       \in {NoLoop} \cup ({"post", "destroy"} \X Slots)
  /\ tokens     \in [Slots -> Int]

\* A loop runs inside a handler, and only on a slot that is live.
LoopOnLive == loop # NoLoop => mode = "release" /\ loop[2] \in semaphores

\* A slot with a token and a waiter is the one that sem_post() is working on.
IdleOnlyInPost ==
  \A i \in Slots :
    loop # <<"post", i>> => (value[i] > 0 => queue[SemQ(i)] = <<>>)

TableSound == SlotsTyped /\ SlotsConserved /\ NamesUnique

\* The inductive invariant.
SemInv ==
  /\ CallsSound
  /\ TableSound
  /\ LoopOnLive
  /\ WaitersOnLive
  /\ TokensAccounted
  /\ IdleOnlyInPost

(* The wait queues of semaphores are queues, none of them of the core, and *)
(* different ones.                                                         *)
LEMMA SemQFacts ==
  /\ \A i \in Slots : SemQ(i) \in QueueIds \ CoreQs
  /\ \A i, j \in Slots : i # j => SemQ(i) \notin {SemQ(j)} \cup ReadyQs
BY SemAssumptions DEF SemAssumption, SemQ, QueueIds, CoreQs, FreeQ, SleepQ, ReadQ, ReadyQs, ReadyQ

(* Steps that change no queue.                                             *)
LEMMA StepInPlace ==
  ASSUME SemInv, CallsType', NEW m \in {"user", "release"}, CoreKept(m), mode \in Busy
  PROVE  CallsSound' /\ UNCHANGED queue /\ mode' = m
<1>1. m \in Busy /\ CallsSound
  BY DEF SemInv, Busy
<1> QED BY <1>1, CoreKeptSound DEF CoreKept

-----------------------------------------------------------------------------
(* The types, one operation at a time.                                     *)

LEMMA SemInitInv == SemInit => SemInv
<1> SUFFICES ASSUME SemInit PROVE SemInv
  OBVIOUS
<1>1. CallsSound
  BY InitCallsSound DEF SemInit
<1>2. MAX_SEMAPHORES \in Nat
  BY SemAssumptions DEF SemAssumption
<1>3. TableSound
  <2>1. available \in [1 .. MAX_SEMAPHORES -> Slots] /\ Len(available) = MAX_SEMAPHORES
        /\ \A i \in 1 .. MAX_SEMAPHORES : available[i] = i
    BY <1>2 DEF SemInit, Slots
  <2>2. available \in Seq(Slots)
    BY <2>1, <1>2, SeqDef
  <2>3. SlotsTyped
    BY <2>2, <1>2 DEF SemInit, SlotsTyped
  <2>4. SlotsConserved
    BY <2>1, <1>2 DEF SemInit, SlotsConserved, IsInjective, Contains, Slots
  <2> QED BY <2>3, <2>4 DEF SemInit, TableSound, NamesUnique
<1>4. \A i \in Slots : queue[SemQ(i)] = <<>>
  <2>1. \A i \in Slots : SemQ(i) \in QueueIds /\ SemQ(i) # FreeQ /\ SemQ(i) # ReadyQ(PRIO_HIGH)
    BY SemQFacts, ConstantFacts DEF CoreQs, ReadyQs
  <2> QED BY <2>1 DEF SemInit, Init
<1> QED BY <1>1, <1>3, <1>4 DEF SemInv, SemInit, LoopOnLive, WaitersOnLive, TokensAccounted, IdleOnlyInPost

LEMMA CoreInv ==
  ASSUME SemInv, Core, UNCHANGED semVars
  PROVE  SemInv'
<1>1. CallsSound'
  BY CoreSound DEF SemInv
<1>2. Next /\ TypeOK
  BY DEF Core, SemInv, CallsSound
<1>3. loop = NoLoop
  BY <1>2, CoreOutsideLoops DEF SemInv, LoopOnLive
<1>4. \A i \in Slots : queue'[SemQ(i)] = queue[SemQ(i)]
  BY <1>2, SemQFacts, CoreWaits
<1> QED
  BY <1>1, <1>3, <1>4
  DEF SemInv, semVars, TableSound, SlotsTyped, SlotsConserved, NamesUnique,
      LoopOnLive, WaitersOnLive, TokensAccounted, IdleOnlyInPost

(* A call that leaves the table as it is.                                  *)
LEMMA UnchangedInv ==
  ASSUME SemInv, CallsSound', UNCHANGED semVars, UNCHANGED mode, UNCHANGED queue
  PROVE  SemInv'
BY DEF SemInv, semVars, TableSound, SlotsTyped, SlotsConserved, NamesUnique,
       LoopOnLive, WaitersOnLive, TokensAccounted, IdleOnlyInPost

LEMMA NoTableChange ==
  ASSUME SemInv,
         (\E id : UnknownSem(id)) \/ SemNewFull
           \/ (\E i \in Slots : User /\ Ret("FAILURE") /\ CoreKept(mode) /\ UNCHANGED semVars)
  PROVE  SemInv'
<1>1. /\ mode \in Busy /\ mode \in {"user", "release"} /\ CoreKept(mode) /\ UNCHANGED semVars
      /\ \E v \in Statuses : Ret(v)
  BY DEF UnknownSem, SemNewFull, User, Busy, Statuses
<1>2. CallsType'
  BY <1>1, RetTyped DEF SemInv, CallsSound
<1> QED BY <1>1, <1>2, StepInPlace, UnchangedInv

LEMMA SemNewInv ==
  ASSUME SemInv, SemNew
  PROVE  SemInv'
<1> DEFINE i == Head(available)
<1>1. /\ User /\ mode \in Busy /\ mode \in {"user", "release"} /\ CoreKept(mode)
      /\ available # <<>> /\ Ret("SUCCESS") /\ UNCHANGED loop
      /\ sem' = [sem EXCEPT ![i] = semCount + 1]
      /\ semaphores' = semaphores \cup {i}
      /\ value' = [value EXCEPT ![i] = 0]
      /\ tokens' = [tokens EXCEPT ![i] = 0]
      /\ available' = Tail(available)
      /\ semCount' = semCount + 1
  BY DEF SemNew, NewName, User, Busy
<1>2. CallsSound' /\ UNCHANGED queue /\ UNCHANGED mode
  <2>1. CallsType'
    BY <1>1, RetTyped DEF SemInv, CallsSound, Statuses
  <2> QED BY <1>1, <2>1, StepInPlace
<1>3. /\ i \in Slots /\ Contains(available, i) /\ available' \in Seq(Slots)
      /\ IsInjective(available')
      /\ \A r : Contains(available', r) <=> Contains(available, r) /\ r # i
  BY <1>1, TailFacts DEF SemInv, TableSound, SlotsTyped, SlotsConserved
<1>4. i \notin semaphores /\ queue[SemQ(i)] = <<>>
  BY <1>3 DEF SemInv, TableSound, SlotsConserved, WaitersOnLive
<1>5. SlotsTyped
  BY DEF SemInv, TableSound
<1> HIDE DEF i
<1>6. SlotsTyped'
  BY <1>1, <1>3, <1>5 DEF SlotsTyped
<1>7. SlotsConserved'
  BY <1>1, <1>3, <1>4 DEF SlotsConserved, SemInv, TableSound
<1>8. NamesUnique'
  <2>1. /\ \A j \in semaphores : sem[j] \in 1 .. semCount /\ j # i /\ j \in Slots
        /\ \A j, k \in semaphores : sem[j] = sem[k] => j = k
        /\ semCount \in Nat
    BY <1>4, <1>5 DEF SlotsTyped, NamesUnique, SemInv, TableSound
  <2>2. sem'[i] = semCount + 1 /\ \A j \in semaphores : sem'[j] = sem[j]
    BY <1>1, <1>3, <1>5, <2>1 DEF SlotsTyped
  <2>3. \A j \in semaphores' : sem'[j] \in 1 .. semCount'
    BY <1>1, <2>1, <2>2
  <2>4. \A j, k \in semaphores' : sem'[j] = sem'[k] => j = k
    <3>1. \A j \in semaphores : sem'[j] # sem'[i]
      BY <2>1, <2>2
    <3> QED BY <1>1, <2>1, <2>2, <3>1
  <2> QED BY <2>3, <2>4 DEF NamesUnique
<1>9. LoopOnLive' /\ WaitersOnLive' /\ IdleOnlyInPost'
  BY <1>1, <1>2, <1>5 DEF SemInv, LoopOnLive, WaitersOnLive, IdleOnlyInPost, SlotsTyped
<1>10. TokensAccounted'
  BY <1>1, <1>3, <1>5 DEF SemInv, TokensAccounted, SlotsTyped
<1> QED BY <1>2, <1>6, <1>7, <1>8, <1>9, <1>10 DEF SemInv, TableSound

(* A change of the values that leaves the slots as they are.               *)
LEMMA TakeTokenInv ==
  ASSUME SemInv, User, NEW i \in Slots, i \in semaphores, TakeToken(i)
  PROVE  SemInv'
<1>1. /\ mode \in Busy /\ mode \in {"user", "release"} /\ CoreKept(mode)
      /\ Ret("SUCCESS") /\ value[i] > 0
      /\ value'  = [value EXCEPT ![i] = @ - 1]
      /\ tokens' = [tokens EXCEPT ![i] = @ - 1]
      /\ UNCHANGED <<available, semaphores, sem, semCount, loop>>
  BY DEF TakeToken, User, Busy
<1>2. CallsSound' /\ UNCHANGED queue /\ UNCHANGED mode
  <2>1. CallsType'
    BY <1>1, RetTyped DEF SemInv, CallsSound, Statuses
  <2> QED BY <1>1, <2>1, StepInPlace
<1>3. SlotsTyped
  BY DEF SemInv, TableSound
<1>4. SlotsTyped' /\ TokensAccounted'
  BY <1>1, <1>3 DEF SlotsTyped, SemInv, TokensAccounted
<1>5. SlotsConserved' /\ NamesUnique' /\ LoopOnLive' /\ WaitersOnLive'
  BY <1>1, <1>2
  DEF SlotsConserved, NamesUnique, LoopOnLive, WaitersOnLive, SemInv, TableSound
<1>6. IdleOnlyInPost'
  BY <1>1, <1>2, <1>3 DEF SlotsTyped, SemInv, IdleOnlyInPost
<1> QED BY <1>2, <1>4, <1>5, <1>6 DEF SemInv, TableSound

LEMMA SemWaitInv ==
  ASSUME SemInv, NEW id, SemWait(id)
  PROVE  SemInv'
<1>1. PICK i \in Slots :
        /\ User /\ i \in semaphores
        /\ TakeToken(i) \/ (value[i] = 0 /\ Block(SemQ(i)) /\ UNCHANGED semVars)
  BY DEF SemWait, Named
<1>2. CASE TakeToken(i)
  BY <1>1, <1>2, TakeTokenInv
<1>3. CASE value[i] = 0 /\ Block(SemQ(i)) /\ UNCHANGED semVars
  <2>1. PICK q \in QueueIds \ CoreQs : q = SemQ(i)
    BY SemQFacts
  <2>2. PICK n \in 0 .. Len(queue[q]) : BlockAt(q, n)
    <3>1. queue[q] \in Seq(Pcbs)
      BY DEF SemInv, CallsSound, TypeOK
    <3> QED BY <3>1, <2>1, <1>3 DEF Block
  <2>3. CallsSound' /\ \A r \in QueueIds \ {q} : queue'[r] = queue[r]
    BY <1>1, <2>2, BlockAtSound DEF SemInv
  <2>4. \A j \in Slots : j # i => queue'[SemQ(j)] = queue[SemQ(j)]
    BY <2>1, <2>3, SemQFacts
  <2>5. loop = NoLoop
    BY <1>1 DEF SemInv, LoopOnLive, User
  <2>6. LoopOnLive' /\ TokensAccounted' /\ TableSound'
    BY <1>3, <2>5
    DEF SemInv, semVars, TableSound, SlotsTyped, SlotsConserved, NamesUnique,
        LoopOnLive, TokensAccounted
  <2>7. WaitersOnLive' /\ IdleOnlyInPost'
    BY <1>1, <1>3, <2>4, <2>5 DEF SemInv, semVars, WaitersOnLive, IdleOnlyInPost
  <2> QED BY <2>3, <2>6, <2>7 DEF SemInv
<1> QED BY <1>1, <1>2, <1>3

LEMMA SemTryWaitInv ==
  ASSUME SemInv, NEW id, SemTryWait(id)
  PROVE  SemInv'
<1>1. PICK i \in Slots :
        /\ User /\ i \in semaphores
        /\ TakeToken(i) \/ (Ret("FAILURE") /\ CoreKept(mode) /\ UNCHANGED semVars)
  BY DEF SemTryWait, Named
<1> QED BY <1>1, TakeTokenInv, NoTableChange

LEMMA SemPostInv ==
  ASSUME SemInv, NEW id, SemPost(id)
  PROVE  SemInv'
<1>1. PICK i \in Slots :
        /\ i \in semaphores
        /\ value'  = [value EXCEPT ![i] = @ + 1]
        /\ tokens' = [tokens EXCEPT ![i] = @ + 1]
        /\ loop'   = <<"post", i>>
  BY DEF SemPost, Named
<1>2. /\ mode \in Busy /\ mode = "user" /\ NoRet /\ CoreKept("release")
      /\ UNCHANGED <<available, semaphores, sem, semCount>>
  BY DEF SemPost, User, Busy
<1>3. CallsSound' /\ UNCHANGED queue /\ mode' = "release"
  <2>1. CallsType'
    BY <1>2, RetTyped DEF SemInv, CallsSound
  <2> QED BY <1>2, <2>1, StepInPlace
<1>4. SlotsTyped /\ loop = NoLoop
  BY <1>2 DEF SemInv, TableSound, LoopOnLive
<1>5. SlotsTyped' /\ TokensAccounted'
  BY <1>1, <1>2, <1>4 DEF SlotsTyped, SemInv, TokensAccounted
<1>6. SlotsConserved' /\ NamesUnique' /\ LoopOnLive' /\ WaitersOnLive'
  BY <1>1, <1>2, <1>3
  DEF SlotsConserved, NamesUnique, LoopOnLive, WaitersOnLive, SemInv, TableSound
<1>7. IdleOnlyInPost'
  BY <1>1, <1>3, <1>4 DEF SlotsTyped, SemInv, IdleOnlyInPost, NoLoop
<1> QED BY <1>3, <1>5, <1>6, <1>7 DEF SemInv, TableSound

LEMMA SemDestroyInv ==
  ASSUME SemInv, NEW id, SemDestroy(id)
  PROVE  SemInv'
<1>1. PICK i \in Slots : i \in semaphores /\ loop' = <<"destroy", i>>
  BY DEF SemDestroy, Named
<1>2. /\ mode \in Busy /\ mode = "user" /\ NoRet /\ CoreKept("release")
      /\ UNCHANGED <<available, semaphores, sem, value, semCount, tokens>>
  BY DEF SemDestroy, User, Busy
<1>3. CallsSound' /\ UNCHANGED queue /\ mode' = "release"
  <2>1. CallsType'
    BY <1>2, RetTyped DEF SemInv, CallsSound
  <2> QED BY <1>2, <2>1, StepInPlace
<1>4. SlotsTyped /\ loop = NoLoop
  BY <1>2 DEF SemInv, TableSound, LoopOnLive
<1>5. TableSound' /\ TokensAccounted' /\ WaitersOnLive'
  BY <1>1, <1>2, <1>3
  DEF SlotsTyped, SlotsConserved, NamesUnique, SemInv, TableSound, TokensAccounted, WaitersOnLive
<1>6. LoopOnLive' /\ IdleOnlyInPost'
  BY <1>1, <1>2, <1>3, <1>4 DEF SemInv, LoopOnLive, IdleOnlyInPost, NoLoop
<1> QED BY <1>3, <1>5, <1>6 DEF SemInv

-----------------------------------------------------------------------------
(* The loops of _sem_sched_waiting and _sem_destroy.                       *)

LEMMA ReleaseFacts ==
  ASSUME SemInv, NEW i \in Slots, NoRet, ReleaseHead(SemQ(i))
  PROVE  /\ CallsSound' /\ mode' = "release" /\ queue[SemQ(i)] # <<>>
         /\ \A j \in Slots : j # i => queue'[SemQ(j)] = queue[SemQ(j)]
<1>1. PICK q \in QueueIds \ CoreQs : q = SemQ(i)
  BY SemQFacts
<1>2. SchedHead(q) /\ mode = "release" /\ mode' = "release" /\ mode \in Busy /\ mode' \in Busy
  BY <1>1 DEF ReleaseHead, Busy
<1>3. CallsType'
  BY RetTyped DEF SemInv, CallsSound
<1>4. /\ CallsSound' /\ queue[q] # <<>>
      /\ \A r \in QueueIds \ ({q} \cup ReadyQs) : queue'[r] = queue[r]
  BY <1>2, <1>3, SchedHeadSound DEF SemInv
<1>5. \A j \in Slots : j # i => SemQ(j) \in QueueIds \ ({q} \cup ReadyQs)
  BY <1>1, SemQFacts
<1> QED BY <1>1, <1>2, <1>4, <1>5

LEMMA PostReleaseInv ==
  ASSUME SemInv, PostRelease
  PROVE  SemInv'
<1>1. PICK i : i = loop[2]
  OBVIOUS
<1>2. /\ i \in Slots /\ i \in semaphores /\ loop = <<"post", i>> /\ loop # NoLoop
      /\ SlotsTyped
  BY <1>1 DEF PostRelease, SemInv, TableSound, SlotsTyped, NoLoop, LoopOnLive
<1>3. /\ NoRet /\ ReleaseHead(SemQ(i)) /\ value[i] > 0
      /\ value'  = [value EXCEPT ![i] = @ - 1]
      /\ tokens' = [tokens EXCEPT ![i] = @ - 1]
      /\ UNCHANGED <<available, semaphores, sem, semCount, loop>>
  BY <1>1 DEF PostRelease, PostMore, SpendToken
<1>4. /\ CallsSound' /\ mode' = "release"
      /\ \A j \in Slots : j # i => queue'[SemQ(j)] = queue[SemQ(j)]
  BY <1>2, <1>3, ReleaseFacts
<1>5. SlotsTyped' /\ TokensAccounted'
  BY <1>2, <1>3 DEF SlotsTyped, SemInv, TokensAccounted
<1>6. SlotsConserved' /\ NamesUnique' /\ LoopOnLive'
  BY <1>3, <1>4 DEF SlotsConserved, NamesUnique, LoopOnLive, SemInv, TableSound
<1>7. WaitersOnLive'
  BY <1>2, <1>3, <1>4 DEF SemInv, WaitersOnLive
<1>8. IdleOnlyInPost'
  BY <1>2, <1>3, <1>4 DEF SlotsTyped, SemInv, IdleOnlyInPost
<1> QED BY <1>4, <1>5, <1>6, <1>7, <1>8 DEF SemInv, TableSound

LEMMA PostDoneInv ==
  ASSUME SemInv, PostDone
  PROVE  SemInv'
<1>1. PICK i : i = loop[2]
  OBVIOUS
<1>2. /\ i \in Slots /\ loop = <<"post", i>> /\ loop # NoLoop /\ SlotsTyped
      /\ mode = "release" /\ mode \in Busy
  BY <1>1 DEF PostDone, SemInv, TableSound, SlotsTyped, NoLoop, LoopOnLive, Busy
<1>3. /\ value[i] > 0 => queue[SemQ(i)] = <<>>
      /\ loop' = NoLoop /\ Ret("SUCCESS") /\ CoreKept("user")
      /\ UNCHANGED <<available, semaphores, sem, value, semCount, tokens>>
  BY <1>1 DEF PostDone, PostMore
<1>4. CallsSound' /\ UNCHANGED queue
  <2>1. CallsType'
    BY <1>3, RetTyped DEF SemInv, CallsSound, Statuses
  <2> QED BY <1>2, <1>3, <2>1, StepInPlace
<1>5. TableSound' /\ TokensAccounted' /\ WaitersOnLive' /\ LoopOnLive'
  BY <1>3, <1>4
  DEF SlotsTyped, SlotsConserved, NamesUnique, SemInv, TableSound, TokensAccounted, WaitersOnLive,
      LoopOnLive
<1>6. IdleOnlyInPost'
  BY <1>2, <1>3, <1>4 DEF SemInv, IdleOnlyInPost
<1> QED BY <1>4, <1>5, <1>6 DEF SemInv

LEMMA DestroyReleaseInv ==
  ASSUME SemInv, DestroyRelease
  PROVE  SemInv'
<1>1. PICK i : i = loop[2]
  OBVIOUS
<1>2. /\ i \in Slots /\ i \in semaphores /\ loop = <<"destroy", i>> /\ loop # NoLoop
      /\ SlotsTyped
  BY <1>1 DEF DestroyRelease, SemInv, TableSound, SlotsTyped, NoLoop, LoopOnLive
<1>3. NoRet /\ ReleaseHead(SemQ(i)) /\ UNCHANGED semVars
  BY <1>1 DEF DestroyRelease
<1>4. /\ CallsSound' /\ mode' = "release" /\ queue[SemQ(i)] # <<>>
      /\ \A j \in Slots : j # i => queue'[SemQ(j)] = queue[SemQ(j)]
  BY <1>2, <1>3, ReleaseFacts
<1>5. TableSound' /\ TokensAccounted' /\ LoopOnLive'
  BY <1>3, <1>4
  DEF SlotsTyped, SlotsConserved, NamesUnique, SemInv, TableSound, TokensAccounted, LoopOnLive,
      semVars
<1>6. ~(value[i] > 0)
  BY <1>2, <1>4 DEF SemInv, IdleOnlyInPost
<1>7. WaitersOnLive' /\ IdleOnlyInPost'
  BY <1>2, <1>3, <1>4, <1>6 DEF SemInv, WaitersOnLive, IdleOnlyInPost, semVars
<1> QED BY <1>4, <1>5, <1>7 DEF SemInv

LEMMA DestroyDoneInv ==
  ASSUME SemInv, DestroyDone
  PROVE  SemInv'
<1>1. PICK i : i = loop[2]
  OBVIOUS
<1>2. /\ i \in Slots /\ i \in semaphores /\ loop = <<"destroy", i>> /\ loop # NoLoop
      /\ SlotsTyped /\ mode = "release" /\ mode \in Busy
  BY <1>1 DEF DestroyDone, SemInv, TableSound, SlotsTyped, NoLoop, LoopOnLive, Busy
<1>3. /\ queue[SemQ(i)] = <<>> /\ available' = Append(available, i)
      /\ semaphores' = semaphores \ {i}
      /\ loop' = NoLoop /\ Ret("SUCCESS") /\ CoreKept("user")
      /\ UNCHANGED <<sem, value, semCount, tokens>>
  BY <1>1 DEF DestroyDone, DestroyEmpty, Retire
<1>4. CallsSound' /\ UNCHANGED queue
  <2>1. CallsType'
    BY <1>3, RetTyped DEF SemInv, CallsSound, Statuses
  <2> QED BY <1>2, <1>3, <2>1, StepInPlace
<1>5. /\ available' \in Seq(Slots) /\ IsInjective(available')
      /\ \A r : Contains(available', r) <=> Contains(available, r) \/ r = i
  <2>1. available \in Seq(Slots) /\ IsInjective(available) /\ ~Contains(available, i)
    BY <1>2 DEF SlotsTyped, SemInv, TableSound, SlotsConserved
  <2> QED BY <2>1, <1>2, <1>3, AppendFacts
<1>6. SlotsTyped' /\ SlotsConserved'
  BY <1>2, <1>3, <1>5 DEF SlotsTyped, SlotsConserved, SemInv, TableSound
<1>7. NamesUnique' /\ TokensAccounted' /\ WaitersOnLive' /\ LoopOnLive'
  BY <1>2, <1>3, <1>4
  DEF NamesUnique, SemInv, TableSound, TokensAccounted, WaitersOnLive, LoopOnLive
<1>8. IdleOnlyInPost'
  BY <1>2, <1>3, <1>4 DEF SemInv, IdleOnlyInPost
<1> QED BY <1>4, <1>6, <1>7, <1>8 DEF SemInv, TableSound

-----------------------------------------------------------------------------
LEMMA SemStep ==
  ASSUME SemInv, [SemNext]_allVars
  PROVE  SemInv'
<1>1. CASE Core /\ UNCHANGED semVars
  BY <1>1, CoreInv
<1>2. CASE SemCall
  <2>1. CASE SemNew
    BY <2>1, SemNewInv
  <2>2. CASE SemNewFull
    BY <2>2, NoTableChange
  <2>3. ASSUME NEW id, SemWait(id) \/ SemTryWait(id) \/ SemPost(id) \/ SemDestroy(id)
                         \/ UnknownSem(id)
        PROVE  SemInv'
    BY <2>3, SemWaitInv, SemTryWaitInv, SemPostInv, SemDestroyInv, NoTableChange
  <2> QED BY <1>2, <2>1, <2>2, <2>3 DEF SemCall
<1>3. CASE SemLoop
  BY <1>3, PostReleaseInv, PostDoneInv, DestroyReleaseInv, DestroyDoneInv DEF SemLoop
<1>4. CASE UNCHANGED allVars
  <2>1. CallsSound'
    <3>1. UNCHANGED <<vars, callVars>>
      BY <1>4 DEF allVars
    <3>2. TypeOK' /\ CallsType'
      BY <3>1
      DEF SemInv, CallsSound, TypeOK, CallsType, vars, callVars, pcbVars, memVars
    <3>3. Placement'
      BY <3>1, KeepPlacement DEF SemInv, CallsSound, vars, pcbVars
    <3> QED BY <3>2, <3>3 DEF CallsSound
  <2>2. UNCHANGED semVars /\ UNCHANGED mode /\ UNCHANGED queue
    BY <1>4 DEF allVars, vars
  <2> QED BY <2>1, <2>2, UnchangedInv
<1> QED BY <1>1, <1>2, <1>3, <1>4 DEF SemNext

LEMMA SemInvariant == SemSpec => []SemInv
BY SemInitInv, SemStep, PTL DEF SemSpec

(* For every number of slots and every order of sem_init(), sem_destroy()  *)
(* and the releases in between: each slot is available once or live, live  *)
(* semaphores have different names that the next one will not have, and    *)
(* nobody waits on a semaphore that has been deallocated.                  *)
THEOREM SlotsAlwaysSound == SemSpec => []SlotsSound
<1>1. SemInv => SlotsSound
  BY DEF SemInv, TableSound, SlotsTyped, CallsSound, SlotsSound, SemType
<1> QED BY <1>1, SemInvariant, PTL

(* The value of a semaphore is exactly the number of its posts that no     *)
(* wait has used, at every step of _sem_post, _sem_wait and _sem_try_wait. *)
THEOREM TokensAlwaysAccounted == SemSpec => []TokensAccounted
<1>1. SemInv => TokensAccounted
  BY DEF SemInv
<1> QED BY <1>1, SemInvariant, PTL

(* No lost wake-up: when no handler runs, nobody waits on a semaphore that *)
(* has a token, because _sem_sched_waiting goes on until one of the two    *)
(* has run out.                                                            *)
THEOREM NeverAnIdleToken == SemSpec => []NoIdleToken
<1>1. SemInv => NoIdleToken
  BY DEF SemInv, LoopOnLive, IdleOnlyInPost, NoIdleToken, User, NoLoop
<1> QED BY <1>1, SemInvariant, PTL

(* Both at once: no post is lost and none lies idle.                       *)
THEOREM TokensAlwaysSound == SemSpec => []TokensSound
<1>1. TokensAccounted /\ NoIdleToken => TokensSound
  BY DEF TokensSound
<1> QED BY <1>1, TokensAlwaysAccounted, NeverAnIdleToken, PTL
=============================================================================
