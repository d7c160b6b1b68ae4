---------------------------- MODULE PausableThread ----------------------------
(* PausableThread.java: a thread that clients pause, await and let proceed.   *)
(* All of it goes through the monitor of the thread object, whose one wait    *)
(* set holds run() and the awaiting clients alike. A synchronized block that  *)
(* neither waits nor spins is one step; the interrupt status, which the code  *)
(* reads and sets without the monitor, is a variable of its own.              *)
EXTENDS Naturals

CONSTANTS Client,   \* threads that call pause, awaitPausing and proceed
          MaxWork   \* bound on the pending work that hasWork() reports

ASSUME MaxWorkAssumption == MaxWork \in Nat

VARIABLES pausing, shouldPause,
          interrupted,   \* the interrupt status of the thread
          pc,            \* where run() is
          work,          \* what the subclass has to do; hasWork() is work > 0
          notifyDue,     \* a producer added work and has yet to call notify()
          client         \* where each client is

vars == <<pausing, shouldPause, interrupted, pc, work, notifyDue, client>>

hasWork == work > 0

(* run(): about to evaluate the inner loop's condition (lines 74-76), inside  *)
(* wait() (81), past the monitor and about to test isInterrupted() (89), in   *)
(* doWork() (94), in the handler of its InterruptedException (95), dead.      *)
RunState == {"loop", "waiting", "checked", "working", "caught", "ended"}

(* A client: outside, after pause(), about to evaluate awaitPausing's         *)
(* condition (29), inside wait(100) (31), back from awaitPausing, or          *)
(* interrupted itself and going round the loop with the monitor held (34).    *)
ClientState == {"out", "paused", "awaiting", "waiting", "inside", "spinning"}

Init == /\ pausing = FALSE
        /\ shouldPause = FALSE
        /\ interrupted = FALSE
        /\ pc = "loop"
        /\ work = 0
        /\ notifyDue = FALSE
        /\ client = [c \in Client |-> "out"]

MonitorFree == \A c \in Client : client[c] # "spinning"

(* notify(): one member of the wait set goes on, whoever it is. `others` is   *)
(* the clients' state after the caller's own step.                            *)
Notify(others) ==
  \/ /\ pc = "waiting"
     /\ pc' = "loop"
     /\ client' = others
  \/ \E c \in Client : /\ others[c] = "waiting"
                       /\ client' = [others EXCEPT ![c] = "awaiting"]
                       /\ UNCHANGED pc
  \/ /\ pc # "waiting"
     /\ \A c \in Client : others[c] # "waiting"
     /\ client' = others
     /\ UNCHANGED pc

-----------------------------------------------------------------------------
(* run()                                                                      *)

(* isInterrupted() is FALSE again once the thread is dead.                    *)
End == /\ pc' = "ended"
       /\ interrupted' = FALSE
       /\ UNCHANGED <<pausing, shouldPause, work, notifyDue, client>>

(* Operators whose names have an underscore are broken variants of the        *)
(* definition that follows them, for checking that the properties notice.     *)

Wait == /\ pc = "loop"
        /\ MonitorFree
        /\ ~interrupted
        /\ shouldPause \/ ~hasWork
        /\ pausing' = (pausing \/ shouldPause)
        /\ pc' = "waiting"
        /\ UNCHANGED <<shouldPause, interrupted, work, notifyDue, client>>

LeaveMonitor_IfThenWait == /\ pc = "loop"
                           /\ MonitorFree
                           /\ ~interrupted
                           /\ hasWork
                           /\ pc' = "checked"
                           /\ UNCHANGED <<pausing, shouldPause, interrupted, work, notifyDue,
                                          client>>

LeaveMonitor == /\ pc = "loop"
                /\ MonitorFree
                /\ ~interrupted
                /\ ~shouldPause
                /\ hasWork
                /\ pc' = "checked"
                /\ UNCHANGED <<pausing, shouldPause, interrupted, work, notifyDue, client>>

(* The thread leaves the outer loop (lines 74, 89) and runs afterRun().       *)
Exit == /\ \/ pc = "loop" /\ MonitorFree
           \/ pc = "checked"
        /\ interrupted
        /\ End

StartWork == /\ pc = "checked"
             /\ ~interrupted
             /\ pc' = "working"
             /\ UNCHANGED <<pausing, shouldPause, interrupted, work, notifyDue, client>>

(* The work may be gone by now: whoever added it may have withdrawn it.       *)
FinishWork == /\ pc = "working"
              /\ pc' = "loop"
              /\ work' = IF hasWork THEN work - 1 ELSE 0
              /\ UNCHANGED <<pausing, shouldPause, interrupted, notifyDue, client>>

(* A blocking call in doWork throws and clears the status ...                 *)
WorkThrows == /\ pc = "working"
              /\ interrupted
              /\ interrupted' = FALSE
              /\ pc' = "caught"
              /\ UNCHANGED <<pausing, shouldPause, work, notifyDue, client>>

RestoreInterrupt_Swallowed == /\ pc = "caught"
                              /\ pc' = "loop"
                              /\ UNCHANGED <<pausing, shouldPause, interrupted, work, notifyDue,
                                             client>>

(* ... which the handler restores.                                            *)
RestoreInterrupt == /\ pc = "caught"
                    /\ interrupted' = TRUE
                    /\ pc' = "loop"
                    /\ UNCHANGED <<pausing, shouldPause, work, notifyDue, client>>

SpuriousWakeup == /\ pc = "waiting"
                  /\ pc' = "loop"
                  /\ UNCHANGED <<pausing, shouldPause, interrupted, work, notifyDue, client>>

-----------------------------------------------------------------------------
(* The clients                                                                *)

Pause_WithoutNotify(c) ==
  /\ client[c] \in {"out", "paused"}
  /\ MonitorFree
  /\ shouldPause' = TRUE
  /\ client' = [client EXCEPT ![c] = "paused"]
  /\ UNCHANGED <<pausing, interrupted, pc, work, notifyDue>>

Pause(c) ==
  /\ client[c] \in {"out", "paused"}
  /\ MonitorFree
  /\ IF shouldPause
       THEN client' = [client EXCEPT ![c] = "paused"] /\ UNCHANGED <<shouldPause, pc>>
       ELSE shouldPause' = TRUE /\ Notify([client EXCEPT ![c] = "paused"])
  /\ UNCHANGED <<pausing, interrupted, work, notifyDue>>

Proceed_KeepsPausing(c) ==
  /\ client[c] \in {"out", "paused", "inside"}
  /\ MonitorFree
  /\ IF shouldPause
       THEN shouldPause' = FALSE /\ Notify([client EXCEPT ![c] = "out"])
       ELSE client' = [client EXCEPT ![c] = "out"] /\ UNCHANGED <<shouldPause, pc>>
  /\ UNCHANGED <<pausing, interrupted, work, notifyDue>>

Proceed(c) ==
  /\ client[c] \in {"out", "paused", "inside"}
  /\ MonitorFree
  /\ IF shouldPause
       THEN /\ shouldPause' = FALSE
            /\ pausing' = FALSE
            /\ Notify([client EXCEPT ![c] = "out"])
       ELSE /\ client' = [client EXCEPT ![c] = "out"]
            /\ UNCHANGED <<shouldPause, pausing, pc>>
  /\ UNCHANGED <<interrupted, work, notifyDue>>

CallAwait(c) ==
  /\ client[c] = "paused"
  /\ client' = [client EXCEPT ![c] = "awaiting"]
  /\ UNCHANGED <<pausing, shouldPause, interrupted, pc, work, notifyDue>>

Await(c) ==
  /\ client[c] = "awaiting"
  /\ MonitorFree
  /\ client' = [client EXCEPT ![c] = IF interrupted \/ pausing THEN "inside" ELSE "waiting"]
  /\ UNCHANGED <<pausing, shouldPause, interrupted, pc, work, notifyDue>>

Timeout_WaitsForNotify(c) == client[c] = "waiting" /\ FALSE /\ UNCHANGED vars

(* wait(100) returns; nobody notifies a client that `pausing` became true.    *)
Timeout(c) ==
  /\ client[c] = "waiting"
  /\ client' = [client EXCEPT ![c] = "awaiting"]
  /\ UNCHANGED <<pausing, shouldPause, interrupted, pc, work, notifyDue>>

(* interrupt(), with the InterruptedException of run()'s own wait() included: *)
(* its handler sets the status again before it gives the monitor up.          *)
Interrupt ==
  /\ pc # "ended"
  /\ interrupted' = TRUE
  /\ pc' = IF pc = "waiting" THEN "loop" ELSE pc
  /\ UNCHANGED <<pausing, shouldPause, work, notifyDue, client>>

(* The client itself is interrupted in awaitPausing: its handler restores the *)
(* status, so that the next wait(100) throws before it releases the monitor.  *)
InterruptClient(c) ==
  /\ client[c] \in {"awaiting", "waiting"}
  /\ MonitorFree
  /\ ~interrupted /\ ~pausing
  /\ client' = [client EXCEPT ![c] = "spinning"]
  /\ UNCHANGED <<pausing, shouldPause, interrupted, pc, work, notifyDue>>

StopSpinning(c) ==
  /\ client[c] = "spinning"
  /\ interrupted \/ pausing
  /\ client' = [client EXCEPT ![c] = "inside"]
  /\ UNCHANGED <<pausing, shouldPause, interrupted, pc, work, notifyDue>>

-----------------------------------------------------------------------------
(* The producers of work: redrawTiles fills the queue and then notifies the   *)
(* worker inside synchronized (mapWorker); MapMover and ZoomAnimator do so    *)
(* for themselves. The work can also be withdrawn (JobQueue.clear, stopMove). *)

NotifyWork_MissingNotify == /\ notifyDue
                            /\ notifyDue' = FALSE
                            /\ UNCHANGED <<pausing, shouldPause, interrupted, pc, work, client>>

AddWork == /\ work < MaxWork
           /\ work' = work + 1
           /\ notifyDue' = TRUE
           /\ UNCHANGED <<pausing, shouldPause, interrupted, pc, client>>

NotifyWork == /\ notifyDue
              /\ MonitorFree
              /\ notifyDue' = FALSE
              /\ Notify(client)
              /\ UNCHANGED <<pausing, shouldPause, interrupted, work>>

WithdrawWork == /\ hasWork
                /\ work' = 0
                /\ UNCHANGED <<pausing, shouldPause, interrupted, pc, notifyDue, client>>

-----------------------------------------------------------------------------
Run == \/ Wait \/ LeaveMonitor \/ Exit \/ StartWork \/ FinishWork
       \/ WorkThrows \/ RestoreInterrupt

Awaiting(c) == Await(c) \/ Timeout(c) \/ StopSpinning(c)

Next == \/ Run \/ SpuriousWakeup \/ Interrupt
        \/ \E c \in Client : Pause(c) \/ Proceed(c) \/ CallAwait(c) \/ Await(c) \/ Timeout(c)
        \/ AddWork \/ NotifyWork \/ WithdrawWork

NextInterruptingClients ==
  Next \/ \E c \in Client : InterruptClient(c) \/ StopSpinning(c)

(* Threads are scheduled, doWork() returns, timed waits end, and a producer   *)
(* that added work goes on to its notify(). Nobody need pause, interrupt ...  *)
Fairness == /\ WF_vars(Run)
            /\ \A c \in Client : SF_vars(Await(c)) /\ WF_vars(Awaiting(c))
            /\ SF_vars(NotifyWork)

Spec == Init /\ [][Next]_vars
FairSpec == Spec /\ Fairness
InterruptingSpec == Init /\ [][NextInterruptingClients]_vars /\ Fairness

-----------------------------------------------------------------------------
TypeOK == /\ pausing \in BOOLEAN
          /\ shouldPause \in BOOLEAN
          /\ interrupted \in BOOLEAN
          /\ pc \in RunState
          /\ work \in 0 .. MaxWork
          /\ notifyDue \in BOOLEAN
          /\ client \in [Client -> ClientState]

(* A thread that says isPausing() does no work: it only stops waiting to look *)
(* again or to end, whatever notifies, times out or interrupts it meanwhile.  *)
PausingThreadIsIdle == pausing => shouldPause /\ pc \in {"loop", "waiting", "ended"}

(* What setMapFile relies on between awaitPausing and proceed (MapView lines  *)
(* 474-483): the thread does no work then, unless it was interrupted, which   *)
(* makes awaitPausing return early.                                           *)
InterruptPending == interrupted \/ pc \in {"caught", "ended"}
AwaitedThreadIsIdle ==
  \A c \in Client : client[c] = "inside" =>
                      InterruptPending \/ (shouldPause /\ pc \in {"loop", "waiting"})

(* pause() takes effect: the thread becomes pausing unless it is told to      *)
(* proceed or is interrupted first.                                           *)
PauseTakesEffect == shouldPause ~> (pausing \/ ~shouldPause \/ InterruptPending)

(* awaitPausing comes back, although it shares a wait set with run() and      *)
(* nobody notifies it (lines 27-38).                                          *)
AwaitReturns == \A c \in Client : client[c] \in {"awaiting", "waiting", "spinning"} ~>
                                  (client[c] = "inside" \/ pc = "ended")

(* No wake-up is lost: work is done, or withdrawn, or the thread is paused or *)
(* interrupted; it never just sleeps on it.                                   *)
WorkGetsDone == hasWork /\ pc # "ended" ~> (~hasWork \/ shouldPause \/ InterruptPending
                                            \/ pc = "working")

(* interrupt() ends the thread, in whichever state it finds it, even paused.  *)
InterruptEndsThread == interrupted ~> pc = "ended"
=============================================================================
