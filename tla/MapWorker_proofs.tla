--------------------------- MODULE MapWorker_proofs ---------------------------
(* The two parts that make up the thread which renders: a PausableThread, for *)
(* any number of clients, that takes its jobs from a JobQueue, for any jobs,  *)
(* positions, priorities and number of threads that move the map.             *)
EXTENDS PausableThread, JobQueue, TLAPS

LEMMA NotifyType ==
  ASSUME TypeOK, NEW others \in [Client -> ClientState], Notify(others)
  PROVE  pc' \in RunState /\ client' \in [Client -> ClientState]
BY DEF TypeOK, Notify, RunState, ClientState

(* Every step leaves the fields, the status, the program counters and the     *)
(* clients well formed.                                                       *)
THEOREM TypeCorrect == Spec => []TypeOK
<1>1. Init => TypeOK
  <2>1. 0 \in 0 .. MaxWork
    BY MaxWorkAssumption
  <2> QED
    BY <2>1 DEF Init, TypeOK, RunState, ClientState
<1>2. TypeOK /\ [Next]_vars => TypeOK'
  <2> SUFFICES ASSUME TypeOK, [Next]_vars PROVE TypeOK'
    OBVIOUS
  <2>1. ASSUME Run PROVE TypeOK'
    <3>1. ASSUME FinishWork PROVE TypeOK'
      <4>1. work' \in 0 .. MaxWork
        BY <3>1, MaxWorkAssumption DEF TypeOK, FinishWork, hasWork
      <4> QED
        BY <3>1, <4>1 DEF TypeOK, FinishWork, RunState
    <3>2. ASSUME Wait \/ LeaveMonitor \/ Exit PROVE TypeOK'
      BY <3>2 DEF TypeOK, Wait, LeaveMonitor, Exit, End, RunState
    <3>3. ASSUME StartWork \/ WorkThrows \/ RestoreInterrupt PROVE TypeOK'
      BY <3>3 DEF TypeOK, StartWork, WorkThrows, RestoreInterrupt, RunState
    <3> QED
      BY <2>1, <3>1, <3>2, <3>3 DEF Run
  <2>2. ASSUME SpuriousWakeup \/ Interrupt PROVE TypeOK'
    BY <2>2 DEF TypeOK, SpuriousWakeup, Interrupt, RunState
  <2>3. ASSUME NEW c \in Client, Pause(c) PROVE TypeOK'
    <3>1. [client EXCEPT ![c] = "paused"] \in [Client -> ClientState]
      BY DEF TypeOK, ClientState
    <3> QED
      BY <2>3, <3>1, NotifyType DEF TypeOK, Pause
  <2>4. ASSUME NEW c \in Client, Proceed(c) PROVE TypeOK'
    <3>1. [client EXCEPT ![c] = "out"] \in [Client -> ClientState]
      BY DEF TypeOK, ClientState
    <3> QED
      BY <2>4, <3>1, NotifyType DEF TypeOK, Proceed
  <2>5. ASSUME NEW c \in Client, CallAwait(c) \/ Await(c) \/ Timeout(c) PROVE TypeOK'
    BY <2>5 DEF TypeOK, CallAwait, Await, Timeout, ClientState
  <2>6. ASSUME AddWork \/ WithdrawWork PROVE TypeOK'
    <3>1. work' \in 0 .. MaxWork
      BY <2>6, MaxWorkAssumption DEF TypeOK, AddWork, WithdrawWork
    <3> QED
      BY <2>6, <3>1 DEF TypeOK, AddWork, WithdrawWork
  <2>7. ASSUME NotifyWork PROVE TypeOK'
    BY <2>7, NotifyType DEF TypeOK, NotifyWork
  <2>8. ASSUME UNCHANGED vars PROVE TypeOK'
    BY <2>8 DEF TypeOK, vars
  <2> QED
    BY <2>1, <2>2, <2>3, <2>4, <2>5, <2>6, <2>7, <2>8 DEF Next
<1> QED
  BY <1>1, <1>2, PTL DEF Spec

(* notify() moves run() only from wait() back to its loop.                    *)
LEMMA NotifyMoves ==
  ASSUME NEW others, Notify(others)
  PROVE  pc' = pc \/ (pc = "waiting" /\ pc' = "loop")
BY DEF Notify

(* A thread that is pausing is never in doWork(), whoever notifies it.        *)
THEOREM PausingThreadIsIdleCorrect == Spec => []PausingThreadIsIdle
<1>1. Init => PausingThreadIsIdle
  BY DEF Init, PausingThreadIsIdle
<1>2. TypeOK /\ PausingThreadIsIdle /\ [Next]_vars => PausingThreadIsIdle'
  <2> SUFFICES ASSUME TypeOK, PausingThreadIsIdle, [Next]_vars PROVE PausingThreadIsIdle'
    OBVIOUS
  <2>1. ASSUME Run PROVE PausingThreadIsIdle'
    BY <2>1 DEF TypeOK, PausingThreadIsIdle, Run, Wait, LeaveMonitor, Exit, End, StartWork,
                FinishWork, WorkThrows, RestoreInterrupt
  <2>2. ASSUME SpuriousWakeup \/ Interrupt PROVE PausingThreadIsIdle'
    BY <2>2 DEF PausingThreadIsIdle, SpuriousWakeup, Interrupt
  <2>3. ASSUME NEW c \in Client, Pause(c) PROVE PausingThreadIsIdle'
    BY <2>3, NotifyMoves DEF PausingThreadIsIdle, Pause
  <2>4. ASSUME NEW c \in Client, Proceed(c) PROVE PausingThreadIsIdle'
    BY <2>4, NotifyMoves DEF PausingThreadIsIdle, Proceed
  <2>5. ASSUME NEW c \in Client, CallAwait(c) \/ Await(c) \/ Timeout(c)
        PROVE  PausingThreadIsIdle'
    BY <2>5 DEF PausingThreadIsIdle, CallAwait, Await, Timeout
  <2>6. ASSUME AddWork \/ WithdrawWork PROVE PausingThreadIsIdle'
    BY <2>6 DEF PausingThreadIsIdle, AddWork, WithdrawWork
  <2>7. ASSUME NotifyWork PROVE PausingThreadIsIdle'
    BY <2>7, NotifyMoves DEF PausingThreadIsIdle, NotifyWork
  <2>8. ASSUME UNCHANGED vars PROVE PausingThreadIsIdle'
    BY <2>8 DEF PausingThreadIsIdle, vars
  <2> QED
    BY <2>1, <2>2, <2>3, <2>4, <2>5, <2>6, <2>7, <2>8 DEF Next
<1> QED
  BY <1>1, <1>2, TypeCorrect, PTL DEF Spec

-----------------------------------------------------------------------------
(* awaitPausing returned because the thread was pausing or was interrupted;   *)
(* neither is undone before the client itself calls proceed(). An interrupt   *)
(* stays pending through the handler of doWork()'s InterruptedException and   *)
(* until the thread is dead.                                                  *)
AwaitedOrInterrupted ==
  \A c \in Client : client[c] = "inside" => pausing \/ InterruptPending

(* Nobody enters or leaves the inside of awaitPausing by a notify().          *)
LEMMA NotifyInside ==
  ASSUME TypeOK, NEW others \in [Client -> ClientState], Notify(others)
  PROVE  \A c \in Client : client'[c] = "inside" => others[c] = "inside"
BY DEF Notify, TypeOK

LEMMA PendingStays == ASSUME TypeOK, InterruptPending, [Next]_vars PROVE InterruptPending'
<1>1. ASSUME Run PROVE InterruptPending'
  BY <1>1 DEF TypeOK, InterruptPending, Run, Wait, LeaveMonitor, Exit, End, StartWork,
              FinishWork, WorkThrows, RestoreInterrupt
<1>2. ASSUME SpuriousWakeup \/ Interrupt PROVE InterruptPending'
  BY <1>2 DEF InterruptPending, SpuriousWakeup, Interrupt
<1>3. ASSUME NEW c \in Client, Pause(c) PROVE InterruptPending'
  BY <1>3, NotifyMoves DEF InterruptPending, Pause
<1>4. ASSUME NEW c \in Client, Proceed(c) PROVE InterruptPending'
  BY <1>4, NotifyMoves DEF InterruptPending, Proceed
<1>5. ASSUME NEW c \in Client, CallAwait(c) \/ Await(c) \/ Timeout(c) PROVE InterruptPending'
  BY <1>5 DEF InterruptPending, CallAwait, Await, Timeout
<1>6. ASSUME AddWork \/ WithdrawWork PROVE InterruptPending'
  BY <1>6 DEF InterruptPending, AddWork, WithdrawWork
<1>7. ASSUME NotifyWork PROVE InterruptPending'
  BY <1>7, NotifyMoves DEF InterruptPending, NotifyWork
<1>8. ASSUME UNCHANGED vars PROVE InterruptPending'
  BY <1>8 DEF InterruptPending, vars
<1> QED
  BY <1>1, <1>2, <1>3, <1>4, <1>5, <1>6, <1>7, <1>8 DEF Next

(* As long as one thread alone pauses and resumes it (the UI thread does),    *)
(* the thread does no work between that client's awaitPausing() and its       *)
(* proceed(), unless it was interrupted.                                      *)
THEOREM AwaitedThreadIsIdleCorrect ==
  ASSUME NEW ui, Client = {ui}
  PROVE  Spec => []AwaitedThreadIsIdle
<1>1. Init => AwaitedOrInterrupted
  BY DEF Init, AwaitedOrInterrupted
<1>2. TypeOK /\ AwaitedOrInterrupted /\ [Next]_vars => AwaitedOrInterrupted'
  <2> SUFFICES ASSUME TypeOK, AwaitedOrInterrupted, [Next]_vars, client'[ui] = "inside",
                      ~InterruptPending
               PROVE  pausing'
    BY PendingStays DEF AwaitedOrInterrupted
  <2>0. client[ui] = "inside" => pausing
    BY DEF AwaitedOrInterrupted
  <2>1. ASSUME Run PROVE pausing'
    BY <2>0, <2>1 DEF TypeOK, Run, Wait, LeaveMonitor, Exit, End, StartWork, FinishWork,
                      WorkThrows, RestoreInterrupt
  <2>2. ASSUME SpuriousWakeup \/ Interrupt PROVE pausing'
    BY <2>0, <2>2 DEF SpuriousWakeup, Interrupt
  <2>3. ASSUME Pause(ui) \/ Proceed(ui) PROVE pausing'
    <3>1. /\ [client EXCEPT ![ui] = "paused"] \in [Client -> ClientState]
          /\ [client EXCEPT ![ui] = "out"] \in [Client -> ClientState]
      BY DEF TypeOK, ClientState
    <3>2. /\ [client EXCEPT ![ui] = "paused"][ui] = "paused"
          /\ [client EXCEPT ![ui] = "out"][ui] = "out"
      BY DEF TypeOK
    <3>3. client'[ui] # "inside"
      BY <2>3, <3>1, <3>2, NotifyInside DEF Pause, Proceed
    <3> QED
      BY <3>3
  <2>4. ASSUME CallAwait(ui) \/ Await(ui) \/ Timeout(ui) PROVE pausing'
    BY <2>0, <2>4 DEF CallAwait, Await, Timeout, TypeOK, InterruptPending
  <2>5. ASSUME AddWork \/ WithdrawWork PROVE pausing'
    BY <2>0, <2>5 DEF AddWork, WithdrawWork
  <2>6. ASSUME NotifyWork PROVE pausing'
    <3>1. client[ui] = "inside"
      BY <2>6, NotifyInside DEF NotifyWork, TypeOK
    <3> QED
      BY <2>0, <2>6, <3>1 DEF NotifyWork
  <2>7. ASSUME UNCHANGED vars PROVE pausing'
    BY <2>0, <2>7 DEF vars
  <2> QED
    BY <2>1, <2>2, <2>3, <2>4, <2>5, <2>6, <2>7 DEF Next
<1>3. AwaitedOrInterrupted /\ PausingThreadIsIdle => AwaitedThreadIsIdle
  BY DEF AwaitedOrInterrupted, PausingThreadIsIdle, AwaitedThreadIsIdle, InterruptPending
<1> QED
  BY <1>1, <1>2, <1>3, TypeCorrect, PausingThreadIsIdleCorrect, PTL DEF Spec

-----------------------------------------------------------------------------
(* The queue.                                                                 *)

(* A priority is never mistaken for the mark of an absent job.                *)
LEMMA ImportanceIsNat ==
  ASSUME NEW job \in Job, NEW p \in Position
  PROVE  /\ Importance[job][p] \in Nat
         /\ Importance[job][p] # Absent
<1>1. Importance[job][p] \in Nat
  BY ImportanceAssumption
<1> QED BY <1>1 DEF Absent

LEMMA QueueTypeInit == QueueInit => QueueTypeOK
BY DEF QueueInit, QueueTypeOK, Absent, Queued

LEMMA QueueTypeStep == QueueTypeOK /\ [QueueNext]_queueVars => QueueTypeOK'
<1> SUFFICES ASSUME QueueTypeOK, [QueueNext]_queueVars PROVE QueueTypeOK'
  OBVIOUS
<1> USE DEF QueueTypeOK
<1>1. ASSUME NEW m \in Mover, Move(m) PROVE QueueTypeOK'
  BY <1>1 DEF Move, Starts, Queued
<1>2. ASSUME NEW m \in Mover, Clear(m) PROVE QueueTypeOK'
  BY <1>2 DEF Clear, Starts, Queued, Absent
<1>3. ASSUME NEW m \in Mover, AddJob(m) PROVE QueueTypeOK'
  <2>1. PICK job \in missing[m] :
          /\ missing' = [missing EXCEPT ![m] = @ \ {job}]
          /\ priority' = IF job \in Queued THEN priority ELSE [priority EXCEPT ![job] = 0]
    BY <1>3 DEF AddJob
  <2>2. unscheduled = {}
    BY <1>3 DEF AddJob
  <2>3. job \in Job
    OBVIOUS
  <2>4. priority' \in [Job -> Nat \cup {Absent}]
    BY <2>1, <2>3 DEF Absent
  <2>5. missing' \in [Mover -> SUBSET Job] /\ \A n \in Mover \ moving : missing'[n] = {}
    BY <2>1
  <2> QED BY <1>3, <2>2, <2>4, <2>5 DEF AddJob, Queued
<1>4. ASSUME NEW m \in Mover, RequestSchedule(m) PROVE QueueTypeOK'
  BY <1>4 DEF RequestSchedule, Queued
<1>5. CASE PollBegins
  BY <1>5 DEF PollBegins, Queued
<1>6. CASE Schedule
  <2>1. PICK job \in unscheduled :
          /\ priority' = [priority EXCEPT ![job] = Importance[job][position]]
          /\ unscheduled' = unscheduled \ {job}
    BY <1>6 DEF Schedule
  <2>2. job \in Job
    BY DEF Queued
  <2>3. Importance[job][position] \in Nat /\ Importance[job][position] # Absent
    BY <2>2, ImportanceIsNat
  <2>4. priority' \in [Job -> Nat \cup {Absent}]
    BY <2>1, <2>3
  <2>5. Queued' = Queued
    BY <2>1, <2>2, <2>3 DEF Queued
  <2> QED BY <1>6, <2>1, <2>4, <2>5 DEF Schedule
<1>7. CASE PollReturns
  <2>1. priority' \in [Job -> Nat \cup {Absent}]
    BY <1>7 DEF PollReturns
  <2> QED BY <1>7, <2>1 DEF PollReturns
<1>8. CASE UNCHANGED queueVars
  BY <1>8 DEF queueVars, Queued
<1> QED BY <1>1, <1>2, <1>3, <1>4, <1>5, <1>6, <1>7, <1>8 DEF QueueNext

(* The queue's state stays well-formed; in particular schedule() only looks   *)
(* at jobs that are queued, whatever the other threads call meanwhile.        *)
THEOREM QueueTypeCorrect == QueueSpec => []QueueTypeOK
<1> QED BY QueueTypeInit, QueueTypeStep, PTL DEF QueueSpec

-----------------------------------------------------------------------------
LEMMA QuietInit == QueueInit => QuietQueueIsScheduled
BY DEF QueueInit, QuietQueueIsScheduled, Queued

LEMMA QuietStep ==
  QueueTypeOK /\ QuietQueueIsScheduled /\ [QueueNext]_queueVars => QuietQueueIsScheduled'
<1> SUFFICES ASSUME QueueTypeOK, QuietQueueIsScheduled, [QueueNext]_queueVars
             PROVE  QuietQueueIsScheduled'
  OBVIOUS
<1>1. ASSUME NEW m \in Mover, Move(m) \/ Clear(m) PROVE QuietQueueIsScheduled'
  <2>1. moving' # {}
    BY <1>1 DEF Move, Clear, Starts
  <2> QED BY <2>1 DEF QuietQueueIsScheduled
<1>2. ASSUME NEW m \in Mover, AddJob(m) PROVE QuietQueueIsScheduled'
  <2>1. missing[m] # {}
    BY <1>2 DEF AddJob
  <2>2. m \in moving'
    BY <1>2, <2>1 DEF AddJob, QueueTypeOK
  <2> QED BY <2>2 DEF QuietQueueIsScheduled
<1>3. ASSUME NEW m \in Mover, RequestSchedule(m) PROVE QuietQueueIsScheduled'
  BY <1>3 DEF RequestSchedule, QuietQueueIsScheduled
<1>4. CASE PollBegins
  <2>1. CASE scheduleNeeded
    BY <1>4, <2>1 DEF PollBegins, QuietQueueIsScheduled, Queued
  <2>2. CASE ~scheduleNeeded
    <3>1. unscheduled = {}
      BY <1>4 DEF PollBegins, QueueTypeOK
    <3> QED BY <1>4, <2>2, <3>1 DEF PollBegins, QuietQueueIsScheduled, Queued
  <2> QED BY <2>1, <2>2
<1>5. CASE Schedule
  <2>1. PICK job \in unscheduled :
          /\ priority' = [priority EXCEPT ![job] = Importance[job][position]]
          /\ unscheduled' = unscheduled \ {job}
    BY <1>5 DEF Schedule
  <2>2. job \in Job /\ job \in Queued
    BY DEF QueueTypeOK, Queued
  <2>3. ASSUME moving' = {}, ~scheduleNeeded', NEW k \in Queued' \ unscheduled'
        PROVE  priority'[k] = Importance[k][position']
    <3>1. k \in Job
      BY <2>3 DEF Queued
    <3>2. position' = position /\ moving = {} /\ ~scheduleNeeded
      BY <1>5, <2>3 DEF Schedule
    <3>3. CASE k = job
      BY <2>1, <2>2, <3>2, <3>3 DEF QueueTypeOK
    <3>4. CASE k # job
      <4>1. priority'[k] = priority[k]
        BY <2>1, <2>2, <3>1, <3>4 DEF QueueTypeOK
      <4>2. k \in Queued \ unscheduled
        BY <2>1, <2>3, <3>1, <3>4, <4>1 DEF Queued
      <4> QED BY <3>2, <4>1, <4>2 DEF QuietQueueIsScheduled
    <3> QED BY <3>3, <3>4
  <2> QED BY <2>3 DEF QuietQueueIsScheduled
<1>6. CASE PollReturns
  <2>1. ASSUME NEW k \in Queued' PROVE k \in Queued /\ priority'[k] = priority[k]
    BY <1>6, <2>1 DEF PollReturns, Queued, QueueTypeOK, IsLeast
  <2> QED BY <1>6, <2>1 DEF PollReturns, QuietQueueIsScheduled
<1>7. CASE UNCHANGED queueVars
  BY <1>7 DEF queueVars, QuietQueueIsScheduled, Queued
<1> QED BY <1>1, <1>2, <1>3, <1>4, <1>5, <1>6, <1>7 DEF QueueNext

(* No job that was added and no change of the position escapes the request    *)
(* that follows it.                                                           *)
THEOREM QuietQueueCorrect == QueueSpec => []QuietQueueIsScheduled
<1>1. QueueSpec => []QueueTypeOK
  BY QueueTypeCorrect
<1> QED BY <1>1, QuietInit, QuietStep, PTL DEF QueueSpec

-----------------------------------------------------------------------------
LEMMA PollStep ==
  QueueTypeOK /\ QuietQueueIsScheduled /\ [QueueNext]_queueVars
    => [moving = {} => \A job \in Polled : MostImportant(job)]_queueVars
<1> SUFFICES ASSUME QueueTypeOK, QuietQueueIsScheduled, [QueueNext]_queueVars, moving = {},
                    NEW job \in Queued, polling, priority'[job] = Absent
             PROVE  MostImportant(job)
  BY DEF Polled
<1>1. job \in Job /\ priority[job] # Absent
  BY DEF Queued
<1>2. priority' # priority
  BY <1>1
<1>3. CASE Schedule
  <2>1. PICK k \in unscheduled :
          priority' = [priority EXCEPT ![k] = Importance[k][position]]
    BY <1>3 DEF Schedule
  <2>2. k \in Job /\ position \in Position
    BY DEF QueueTypeOK, Queued
  <2>3. Importance[k][position] # Absent
    BY <2>2, ImportanceIsNat
  <2> QED BY <1>1, <2>1, <2>2, <2>3 DEF QueueTypeOK
<1>4. CASE PollReturns
  <2>1. PICK k \in Queued : IsLeast(k, Queued) /\ priority' = [priority EXCEPT ![k] = Absent]
    BY <1>2, <1>4 DEF PollReturns
  <2>2. k = job
    BY <1>1, <2>1 DEF QueueTypeOK, Queued
  <2>3. ~scheduleNeeded /\ unscheduled = {}
    BY <1>4 DEF PollReturns, QueueTypeOK
  <2>4. ASSUME NEW other \in Queued PROVE Importance[job][position] <= Importance[other][position]
    <3>1. priority[job] <= priority[other]
      BY <2>1, <2>2 DEF IsLeast
    <3>2. priority[other] = Importance[other][position] /\ priority[job] = Importance[job][position]
      BY <2>3 DEF QuietQueueIsScheduled
    <3> QED BY <3>1, <3>2
  <2> QED BY <2>4 DEF MostImportant
<1>5. ASSUME NEW m \in Mover, Move(m) \/ Clear(m) \/ AddJob(m) \/ RequestSchedule(m)
      PROVE  FALSE
  BY <1>2, <1>5 DEF Move, Clear, AddJob, RequestSchedule
<1>6. CASE PollBegins \/ UNCHANGED queueVars
  BY <1>2, <1>6 DEF PollBegins, queueVars
<1> QED BY <1>3, <1>4, <1>5, <1>6 DEF QueueNext

(* poll returns a most important job whenever nobody is moving the map.       *)
THEOREM PollsMostImportantCorrect == QueueSpec => PollsMostImportant
<1>1. QueueSpec => [](QueueTypeOK /\ QuietQueueIsScheduled)
  BY QueueTypeCorrect, QuietQueueCorrect, PTL
<1> QED BY <1>1, PollStep, PTL DEF QueueSpec, PollsMostImportant
=============================================================================
