----------------------------- MODULE Scheduler -----------------------------
(* The cooperative scheduler of resource/scheduler.c: a table of tasks and a
   ready queue in priority order. One thread calls scheduler_run again and again;
   a run takes a task off the queue, calls its entry function without the mutex,
   and looks at the task's state when the entry returns. The entry may yield or
   block, other threads create, start, suspend, resume, unblock, re-prioritise and
   destroy tasks at any moment, and the timer's tick preempts a task it looked up
   before it took the mutex. *)
EXTENDS Integers, FiniteSets, Sequences, SequencesExt, FiniteSetsExt

CONSTANTS MaxTasks,    \* SCHED_MAX_TASKS: slots of the table and of the queue
          MaxLive,     \* bound: tasks that exist at one time
          Priorities   \* of sched_priority_t

VARIABLES tasks,    \* per slot: in_use, priority, state
          queue,    \* ready_queue
          current,  \* current_task
          running,  \* the task whose entry scheduler_run is calling, or -1
          ticked    \* the task scheduler_tick looked up, or -1

vars == <<tasks, queue, current, running, ticked>>

Slots == 0 .. MaxTasks - 1
None == -1
States == {"inactive", "ready", "running", "blocked", "suspended", "terminated"}

(* get_task *)
Used(h) == h \in Slots /\ tasks[h].used
In(h, S) == Used(h) /\ tasks[h].state \in S

(* ------------------------------ ready_queue ---------------------------- *)

(* add_to_ready_queue: before the first task of lower priority; nothing when the
   queue is full *)
Below(t, h, q) == {i \in 1 .. Len(q) : t[q[i]].used /\ t[q[i]].prio < t[h].prio}
Place(t, h, q) == IF Below(t, h, q) = {} THEN Len(q) + 1 ELSE Min(Below(t, h, q))
Add(t, h, q) ==
    IF Len(q) >= MaxTasks THEN q ELSE InsertAt(q, Place(t, h, q), h)

(* remove_from_ready_queue: the first entry only *)
Removed(q, h) == RemoveFirst(q, h)

SetState(h, s) == [tasks EXCEPT ![h].state = s]
Ready(h) == /\ tasks' = SetState(h, "ready")
            /\ queue' = Add(tasks', h, queue)
Requeue(h) == /\ tasks' = SetState(h, "ready")
              /\ queue' = Add(tasks', h, Removed(queue, h))

(* ------------------------------ the tasks ------------------------------ *)

Create(p) ==
    LET free == {h \in Slots : ~tasks[h].used} IN
    /\ free # {} /\ MaxTasks - Cardinality(free) < MaxLive
    /\ tasks' = [tasks EXCEPT ![Min(free)] = [used |-> TRUE, prio |-> p, state |-> "inactive"]]
    /\ UNCHANGED <<queue, current, running, ticked>>

(* scheduler_destroy_task leaves a second entry of the task in the queue. *)
Destroy(h) ==
    /\ Used(h)
    /\ queue' = Removed(queue, h)
    /\ current' = IF current = h THEN None ELSE current
    /\ tasks' = [tasks EXCEPT ![h].used = FALSE]
    /\ UNCHANGED <<running, ticked>>

Start(h) == In(h, {"inactive", "suspended"}) /\ Ready(h) /\ UNCHANGED <<current,
                                                                        running,
                                                                        ticked>>
Resume(h) == In(h, {"suspended"}) /\ Ready(h) /\ UNCHANGED <<current, running, ticked>>
Unblock(h) == In(h, {"blocked"}) /\ Ready(h) /\ UNCHANGED <<current, running, ticked>>

Suspend(h) ==
    /\ Used(h)
    /\ tasks' = SetState(h, "suspended")
    /\ queue' = Removed(queue, h)
    /\ UNCHANGED <<current, running, ticked>>

SetPriority(h, p) ==
    /\ Used(h)
    /\ tasks' = [tasks EXCEPT ![h].prio = p]
    /\ queue' = IF In(h, {"ready"}) THEN Add(tasks', h, Removed(queue, h)) ELSE queue
    /\ UNCHANGED <<current, running, ticked>>

(* ------------------------------ the running task ----------------------- *)

(* select_next_task with no current task, as scheduler_run finds it: the first of
   the highest priority; entries of destroyed tasks are passed over. *)
Candidates == {i \in 1 .. Len(queue) : Used(queue[i])}
Best == Max({tasks[queue[i]].prio : i \in Candidates})
Selected == queue[Min({i \in Candidates : tasks[queue[i]].prio = Best})]

RunTake ==
    /\ running = None /\ Candidates # {}
    /\ running' = Selected /\ current' = Selected
    /\ tasks' = SetState(Selected, "running")
    /\ queue' = Removed(queue, Selected)
    /\ UNCHANGED ticked

(* The entry returned. A task that became ready meanwhile is added, though
   whoever made it ready has added it already. A slot that was given to another
   task is taken for the one that ran. *)
Leave(h) ==
    CASE tasks[h].state = "running" -> tasks' = SetState(h, "terminated") /\ UNCHANGED queue
      [] tasks[h].state = "ready"   -> queue' = (IF Used(h) THEN Add(tasks, h, queue) ELSE queue)
                                       /\ UNCHANGED tasks
      [] OTHER                      -> UNCHANGED <<tasks, queue>>
ClearedBug == current  \* mutation: the current task is kept between two runs
Cleared == None
RunReturn ==
    /\ running # None
    /\ Leave(running)
    /\ running' = None /\ current' = Cleared
    /\ UNCHANGED ticked

(* scheduler_yield and scheduler_block, called from the entry *)
Yield ==
    /\ running # None /\ In(current, {"running"})
    /\ Requeue(current)
    /\ UNCHANGED <<current, running, ticked>>

Block ==
    /\ running # None /\ Used(current)
    /\ tasks' = SetState(current, "blocked")
    /\ queue' = Removed(queue, current)
    /\ UNCHANGED <<current, running, ticked>>

(* scheduler_tick looks the task up and compares its time without the mutex. *)
TickLook ==
    /\ ticked = None /\ Used(current)
    /\ ticked' = current
    /\ UNCHANGED <<tasks, queue, current, running>>

Expired(h) == tasks[h].state = "running"
TickPreempt ==
    /\ ticked # None /\ ticked' = None
    /\ IF Expired(ticked)
       THEN /\ tasks' = SetState(ticked, "ready")
            /\ queue' = (IF Used(current) THEN Add(tasks', current, Removed(queue, current))
                                          ELSE Removed(queue, current))
            /\ current' = None
       ELSE UNCHANGED <<tasks, queue, current>>
    /\ UNCHANGED running

Init ==
    /\ tasks = [h \in Slots |-> [used |-> FALSE, prio |-> Min(Priorities), state |-> "inactive"]]
    /\ queue = <<>> /\ current = None /\ running = None /\ ticked = None

Next ==
    \/ \E p \in Priorities : Create(p)
    \/ \E h \in Slots : Destroy(h) \/ Start(h) \/ Resume(h) \/ Unblock(h) \/ Suspend(h)
    \/ \E h \in Slots, p \in Priorities : SetPriority(h, p)
    \/ RunTake \/ RunReturn \/ Yield \/ Block \/ TickLook \/ TickPreempt

Spec == Init /\ [][Next]_vars

TypeOK ==
    /\ tasks \in [Slots -> [used : BOOLEAN, prio : Priorities, state : States]]
    /\ queue \in Seq(Slots) /\ {current, running, ticked} \subseteq Slots \union {None}

(* A task that is ready waits in the queue: none is forgotten however yields,
   preemptions, suspensions and new priorities of several threads fall. (With
   room for two entries of every task; a full queue drops the next ready task.) *)
ReadyIsQueued == \A h \in Slots : In(h, {"ready"}) => Contains(queue, h)

(* Entries of a task never pile up beyond two, so that MaxTasks / 2 tasks cannot
   fill the queue. *)
AtMostTwice == \A h \in Slots : Cardinality({i \in 1 .. Len(queue) : queue[i] = h}) <= 2

(* Only the task whose entry is being called is running, and the tick that found
   it before taking the mutex preempts that one and no other. *)
RunningIsCurrent ==
    \A h \in Slots : In(h, {"running"}) => (running = h /\ current = h)

(* Nothing is current between two runs, so that the round robin starts at the
   first task of the highest priority. *)
CurrentIsRunning == current \in {running, None}

(* The scheduler as a whole: no ready task is forgotten and one task runs. *)
SchedulerSound == ReadyIsQueued /\ AtMostTwice /\ RunningIsCurrent /\ CurrentIsRunning
=============================================================================
