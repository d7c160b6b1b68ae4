------------------------------- MODULE JobQueue -------------------------------
(* JobQueue.java: the pending jobs, ordered by priorities that the queue      *)
(* computes late. A job is added with priority 0; requestSchedule asks for    *)
(* the priorities to be computed, and the next poll computes them, for the    *)
(* position that the MapView has at that moment. All methods are synchronized *)
(* on the queue, but the position changes under other locks, so that it may   *)
(* change between two jobs of one schedule().                                 *)
EXTENDS Integers

CONSTANTS Job, Position,
          Importance,   \* TileScheduler.getPriority, [Job -> [Position -> Nat]]
          Mover         \* the threads that change the position and redraw

ASSUME ImportanceAssumption == Importance \in [Job -> [Position -> Nat]]

VARIABLES priority,        \* [Job -> Nat \cup {Absent}]
          scheduleNeeded,
          polling,         \* the MapWorker is inside poll
          unscheduled,     \* the jobs that schedule() has still to look at
          position,        \* of the MapView
          moving,          \* the threads between a change and requestSchedule
          missing          \* the jobs that their redrawTiles will still add

queueVars == <<priority, scheduleNeeded, polling, unscheduled, position, moving, missing>>

Absent == -1
Queued == {job \in Job : priority[job] # Absent}

(* The head of a PriorityQueue of these jobs: one of the least.               *)
IsLeast(job, jobs) == job \in jobs /\ \A other \in jobs : priority[job] <= priority[other]

QueueInit ==
  /\ priority = [job \in Job |-> Absent]
  /\ scheduleNeeded = FALSE
  /\ polling = FALSE
  /\ unscheduled = {}
  /\ position \in Position
  /\ moving = {}
  /\ missing = [m \in Mover |-> {}]

-----------------------------------------------------------------------------
(* The threads that move the map and redraw it                                *)

Starts(m) == /\ m \notin moving
             /\ moving' = moving \cup {m}
             /\ \E jobs \in SUBSET Job : missing' = [missing EXCEPT ![m] = jobs]

(* A new position, or the old one, and redrawTiles with what it will miss in  *)
(* the caches.                                                                *)
Move(m) == /\ Starts(m)
           /\ position' \in Position
           /\ UNCHANGED <<priority, scheduleNeeded, polling, unscheduled>>

(* clear() by MapView.clearAndRedrawMapView, which redraws next.              *)
Clear(m) == /\ ~polling
            /\ Starts(m)
            /\ priority' = [job \in Job |-> Absent]
            /\ UNCHANGED <<scheduleNeeded, polling, unscheduled, position>>

AddJob(m) ==
  /\ ~polling
  /\ \E job \in missing[m] :
       /\ missing' = [missing EXCEPT ![m] = @ \ {job}]
       /\ priority' = IF job \in Queued THEN priority ELSE [priority EXCEPT ![job] = 0]
  /\ UNCHANGED <<scheduleNeeded, polling, unscheduled, position, moving>>

RequestSchedule_First(m) == /\ ~polling
                            /\ m \in moving
                            /\ scheduleNeeded' = (scheduleNeeded \/ missing[m] # {})
                            /\ moving' = IF missing[m] = {} THEN moving \ {m} ELSE moving
                            /\ UNCHANGED <<priority, polling, unscheduled, position, missing>>

RequestSchedule(m) == /\ ~polling
                      /\ m \in moving
                      /\ missing[m] = {}
                      /\ scheduleNeeded' = TRUE
                      /\ moving' = moving \ {m}
                      /\ UNCHANGED <<priority, polling, unscheduled, position, missing>>

-----------------------------------------------------------------------------
(* The MapWorker                                                              *)

PollBegins_NewJobsOnly ==
  /\ ~polling
  /\ polling' = TRUE
  /\ scheduleNeeded' = FALSE
  /\ unscheduled' = {job \in Queued : scheduleNeeded /\ priority[job] = 0}
  /\ UNCHANGED <<priority, position, moving, missing>>

PollBegins == /\ ~polling
              /\ polling' = TRUE
              /\ scheduleNeeded' = FALSE
              /\ unscheduled' = IF scheduleNeeded THEN Queued ELSE {}
              /\ UNCHANGED <<priority, position, moving, missing>>

(* One round of the loop of schedule().                                       *)
Schedule == /\ \E job \in unscheduled :
                 /\ IsLeast(job, unscheduled)
                 /\ priority' = [priority EXCEPT ![job] = Importance[job][position]]
                 /\ unscheduled' = unscheduled \ {job}
            /\ UNCHANGED <<scheduleNeeded, polling, position, moving, missing>>

(* The return of a job, or of null.                                           *)
PollReturns == /\ polling /\ unscheduled = {}
               /\ polling' = FALSE
               /\ IF Queued = {}
                    THEN UNCHANGED priority
                    ELSE \E job \in Queued : /\ IsLeast(job, Queued)
                                             /\ priority' = [priority EXCEPT ![job] = Absent]
               /\ UNCHANGED <<scheduleNeeded, unscheduled, position, moving, missing>>

-----------------------------------------------------------------------------
QueueNext ==
  \/ \E m \in Mover : Move(m) \/ Clear(m) \/ AddJob(m) \/ RequestSchedule(m)
  \/ PollBegins \/ Schedule \/ PollReturns

QueueSpec == QueueInit /\ [][QueueNext]_queueVars

-----------------------------------------------------------------------------
QueueTypeOK ==
  /\ priority \in [Job -> Nat \cup {Absent}]
  /\ scheduleNeeded \in BOOLEAN
  /\ polling \in BOOLEAN
  /\ unscheduled \subseteq Queued
  /\ IF polling THEN ~scheduleNeeded ELSE unscheduled = {}
  /\ position \in Position
  /\ moving \subseteq Mover
  /\ missing \in [Mover -> SUBSET Job]
  /\ \A m \in Mover \ moving : missing[m] = {}

(* While nobody moves and no request is pending, every job that was looked at *)
(* has the priority that the present position gives it: no addition and no    *)
(* change of the position, not even one in the middle of schedule(), escapes  *)
(* the request that follows it.                                               *)
QuietQueueIsScheduled ==
  moving = {} /\ ~scheduleNeeded =>
    \A job \in Queued \ unscheduled : priority[job] = Importance[job][position]

MostImportant(job) ==
  \A other \in Queued : Importance[job][position] <= Importance[other][position]

Polled == {job \in Queued : polling /\ priority'[job] = Absent}

(* When nobody is moving, poll returns a job that no other precedes.          *)
PollsMostImportant == [][moving = {} => \A job \in Polled : MostImportant(job)]_queueVars

=============================================================================
