------------------------------ MODULE WorkerPool ------------------------------
(***************************************************************************)
(* The server's threads and their life: main() starts the controller and   *)
(* the listener, and turns the operator's keys into change-worker-count    *)
(* events; the controller starts workers and stops them with exit events   *)
(* pushed in front of their common queue; end of file on stdin stops       *)
(* everything and main() destroys the shared data after its joins.         *)
(*                                                                         *)
(* Exit events enter the workers' queue at the front and jobs at the back, *)
(* so the queue is at any time some exit events followed by some jobs: it  *)
(* is kept as the two numbers pills and jobs.                              *)
(*                                                                         *)
(* A definition named ..Slip is the definition that follows it with one    *)
(* plausible mistake; it is used only to see that a property notices.      *)
(***************************************************************************)
EXTENDS Integers, Sequences, FiniteSets

CONSTANTS
    StartCount,    \* workers main() asks for at start (5 in the program)
    MaxKeys,       \* bound on the keys '+' and '-' the operator presses
    MaxMessages    \* bound on the messages the clients send

ASSUME StartAssumption == StartCount \in Nat
ASSUME BoundAssumption == MaxKeys \in Nat /\ MaxMessages \in Nat

VARIABLES
    mpc,         \* where main() is
    seen,        \* main(): cdata.workers_cnt as read when the key came
    keys,        \* keys pressed
    hasty,       \* history variable: a key was pressed before the last was Settled
    goal,        \* count in the last change event main() posted
    cpc,         \* where the controller is
    count,       \* loop counter: delta of a change, i of the stop loop
    workersCnt,  \* controller_data_t.workers_cnt
    pool,        \* controller_data_t.workers: ids of the workers not yet joined
    lastId,      \* unique_id
    controllerQ, \* the controller's events
    pills,       \* exit events at the front of the workers' queue
    jobs,        \* jobs behind them
    running,     \* workers between two iterations of their loop
    busy,        \* workers in a job
    leaving,     \* workers out of their loop, exit event not yet posted
    posted,      \* workers that posted it and have not ended
    lpc,         \* the listener: "loop", "recv" (waits for a body) or "ended"
    stopListener,\* an exit event in the listener's queue
    messages     \* messages received so far

keyVars      == <<keys, hasty>>
mainVars     == <<mpc, seen, keyVars, goal>>
ctlVars      == <<cpc, count, workersCnt, pool, lastId>>
workerVars   == <<running, busy, leaving, posted>>
listenerVars == <<lpc, stopListener, messages>>
vars == <<mainVars, ctlVars, controllerQ, pills, jobs, workerVars, listenerVars>>

Event == [type : {"change", "exit", "left", "input"}, arg : Nat]

Change(n) == [type |-> "change", arg |-> n]
Exit      == [type |-> "exit", arg |-> 0]
Left(w)   == [type |-> "left", arg |-> w]
Input     == [type |-> "input", arg |-> 0]

InLoop == running \cup busy
Alive  == InLoop \cup leaving \cup posted

TypeOK ==
    /\ mpc \in {"start", "read", "plus", "minus", "exit", "exitListener",
                "joinController", "joinListener", "destroy", "ended"}
    /\ seen \in Nat
    /\ keys \in Nat
    /\ hasty \in BOOLEAN
    /\ goal \in Nat
    /\ cpc \in {"loop", "change", "stop", "drain", "ended"}
    /\ count \in Int
    /\ workersCnt \in Nat
    /\ pool \in SUBSET (1..lastId)
    /\ lastId \in Nat
    /\ controllerQ \in Seq(Event)
    /\ pills \in Nat
    /\ jobs \in Nat
    /\ Alive \subseteq 1..lastId
    /\ lpc \in {"loop", "recv", "ended"}
    /\ stopListener \in BOOLEAN
    /\ messages \in Nat

Init ==
    /\ mpc = "start"
    /\ seen = 0
    /\ keys = 0
    /\ hasty = FALSE
    /\ goal = 0
    /\ cpc = "loop"
    /\ count = 0
    /\ workersCnt = 0
    /\ pool = {}
    /\ lastId = 0
    /\ controllerQ = << >>
    /\ pills = 0
    /\ jobs = 0
    /\ running = {}
    /\ busy = {}
    /\ leaving = {}
    /\ posted = {}
    /\ lpc = "loop"
    /\ stopListener = FALSE
    /\ messages = 0

-----------------------------------------------------------------------------
(* main() *)

PostChange(n) ==
    /\ controllerQ' = Append(controllerQ, Change(n))
    /\ goal' = n

Start ==
    /\ mpc = "start"
    /\ mpc' = "read"
    /\ PostChange(StartCount)
    /\ UNCHANGED <<seen, keyVars, ctlVars, pills, jobs, workerVars, listenerVars>>

\* What the last key asked for is done.
Settled ==
    /\ cpc = "loop"
    /\ pills = 0
    /\ leaving \cup posted = {}
    /\ \A i \in DOMAIN controllerQ : controllerQ[i].type = "input"
    /\ mpc # "start"

\* A key is read, and then workers_cnt, which the controller may be changing.
Press ==
    /\ mpc = "read"
    /\ keys < MaxKeys
    /\ keys' = keys + 1
    /\ hasty' = (hasty \/ ~Settled)
    /\ mpc' \in {"plus", "minus"}
    /\ seen' = workersCnt
    /\ UNCHANGED <<goal, ctlVars, controllerQ, pills, jobs, workerVars, listenerVars>>

Plus ==
    /\ mpc = "plus"
    /\ mpc' = "read"
    /\ seen' = 0
    /\ PostChange(seen + 1)
    /\ UNCHANGED <<keyVars, ctlVars, pills, jobs, workerVars, listenerVars>>

MinusSlip ==
    /\ mpc = "minus"
    /\ mpc' = "read"
    /\ seen' = 0
    /\ IF seen - 1 >= 0   \* the last worker may go
       THEN PostChange(seen - 1)
       ELSE UNCHANGED <<controllerQ, goal>>
    /\ UNCHANGED <<keyVars, ctlVars, pills, jobs, workerVars, listenerVars>>

Minus ==
    /\ mpc = "minus"
    /\ mpc' = "read"
    /\ seen' = 0
    /\ IF seen - 1 > 0
       THEN PostChange(seen - 1)
       ELSE UNCHANGED <<controllerQ, goal>>
    /\ UNCHANGED <<keyVars, ctlVars, pills, jobs, workerVars, listenerVars>>

Eof ==
    /\ mpc = "read"
    /\ mpc' = "exit"
    /\ UNCHANGED <<seen, keyVars, goal, ctlVars, controllerQ, pills, jobs, workerVars,
                   listenerVars>>

StopController ==
    /\ mpc = "exit"
    /\ mpc' = "exitListener"
    /\ controllerQ' = Append(controllerQ, Exit)
    /\ UNCHANGED <<seen, keyVars, goal, ctlVars, pills, jobs, workerVars, listenerVars>>

StopListener ==
    /\ mpc = "exitListener"
    /\ mpc' = "joinController"
    /\ stopListener' = TRUE
    /\ UNCHANGED <<seen, keyVars, goal, ctlVars, controllerQ, pills, jobs, workerVars,
                   lpc, messages>>

JoinControllerSlip ==
    /\ mpc = "joinController"   \* no pthread_join
    /\ mpc' = "joinListener"
    /\ UNCHANGED <<seen, keyVars, goal, ctlVars, controllerQ, pills, jobs, workerVars,
                   listenerVars>>

JoinController ==
    /\ mpc = "joinController"
    /\ cpc = "ended"
    /\ mpc' = "joinListener"
    /\ UNCHANGED <<seen, keyVars, goal, ctlVars, controllerQ, pills, jobs, workerVars,
                   listenerVars>>

JoinListener ==
    /\ mpc = "joinListener"
    /\ lpc = "ended"
    /\ mpc' = "destroy"
    /\ UNCHANGED <<seen, keyVars, goal, ctlVars, controllerQ, pills, jobs, workerVars,
                   listenerVars>>

\* controller_destroy and listener_destroy: workers left in the map would be
\* joined, the queues and their events are freed.
Destroy ==
    /\ mpc = "destroy"
    /\ pool \cap Alive = {}
    /\ mpc' = "ended"
    /\ pool' = {}
    /\ workersCnt' = workersCnt - Cardinality(pool)
    /\ controllerQ' = << >>
    /\ pills' = 0
    /\ jobs' = 0
    /\ UNCHANGED <<seen, keyVars, goal, cpc, count, lastId, workerVars, listenerVars>>

Operator == Press \/ Eof
MainStep == \/ Start \/ Plus \/ Minus \/ StopController \/ StopListener
            \/ JoinController \/ JoinListener \/ Destroy

-----------------------------------------------------------------------------
(* The controller thread.  Nothing follows main()'s exit event but input and   *)
(* worker-exit events: after it the controller meets no other.               *)

HandleChangeSlip ==
    /\ cpc = "loop"
    /\ controllerQ # << >>
    /\ Head(controllerQ).type = "change"
    /\ controllerQ' = Tail(controllerQ)
    /\ cpc' = "change"
    /\ count' = Head(controllerQ).arg   \* the workers there are not subtracted
    /\ UNCHANGED <<mainVars, workersCnt, pool, lastId, pills, jobs, workerVars,
                   listenerVars>>

HandleChange ==
    /\ cpc = "loop"
    /\ controllerQ # << >>
    /\ Head(controllerQ).type = "change"
    /\ controllerQ' = Tail(controllerQ)
    /\ cpc' = "change"
    /\ count' = Head(controllerQ).arg - workersCnt
    /\ UNCHANGED <<mainVars, workersCnt, pool, lastId, pills, jobs, workerVars,
                   listenerVars>>

RunWorker ==
    /\ cpc = "change"
    /\ count > 0
    /\ count' = count - 1
    /\ lastId' = lastId + 1
    /\ pool' = pool \cup {lastId + 1}
    /\ running' = running \cup {lastId + 1}
    /\ workersCnt' = workersCnt + 1
    /\ UNCHANGED <<mainVars, cpc, controllerQ, pills, jobs, busy, leaving, posted,
                   listenerVars>>

DecreaseWorkers ==
    /\ cpc = "change"
    /\ count < 0
    /\ count' = count + 1
    /\ pills' = pills + 1
    /\ UNCHANGED <<mainVars, cpc, workersCnt, pool, lastId, controllerQ, jobs,
                   workerVars, listenerVars>>

EndChange ==
    /\ cpc = "change"
    /\ count = 0
    /\ cpc' = "loop"
    /\ UNCHANGED <<mainVars, count, workersCnt, pool, lastId, controllerQ, pills, jobs,
                   workerVars, listenerVars>>

\* An input event becomes a job while its handler is registered.
HandleInput ==
    /\ cpc \in {"loop", "drain"}
    /\ controllerQ # << >>
    /\ Head(controllerQ).type = "input"
    /\ controllerQ' = Tail(controllerQ)
    /\ jobs' = IF cpc = "loop" THEN jobs + 1 ELSE jobs
    /\ UNCHANGED <<mainVars, ctlVars, pills, workerVars, listenerVars>>

HandleLeftSlip ==
    /\ cpc \in {"loop", "drain"}
    /\ controllerQ # << >>
    /\ Head(controllerQ).type = "left"
    /\ controllerQ' = Tail(controllerQ)
    /\ pool' = pool \ {Head(controllerQ).arg}   \* no pthread_join
    /\ workersCnt' = workersCnt - 1
    /\ UNCHANGED <<mainVars, cpc, count, lastId, pills, jobs, workerVars, listenerVars>>

\* worker_exit_event_handler: pthread_join waits for the thread to end.
HandleLeft ==
    /\ cpc \in {"loop", "drain"}
    /\ controllerQ # << >>
    /\ Head(controllerQ).type = "left"
    /\ controllerQ' = Tail(controllerQ)
    /\ LET w == Head(controllerQ).arg IN
         IF w \in pool
         THEN /\ w \notin Alive
              /\ pool' = pool \ {w}
              /\ workersCnt' = workersCnt - 1
         ELSE UNCHANGED <<pool, workersCnt>>
    /\ UNCHANGED <<mainVars, cpc, count, lastId, pills, jobs, workerVars, listenerVars>>

HandleExit ==
    /\ cpc = "loop"
    /\ controllerQ # << >>
    /\ Head(controllerQ).type = "exit"
    /\ controllerQ' = Tail(controllerQ)
    /\ cpc' = "stop"
    /\ count' = 0
    /\ UNCHANGED <<mainVars, workersCnt, pool, lastId, pills, jobs, workerVars,
                   listenerVars>>

StopWorkersSlip ==
    /\ cpc = "stop"
    /\ IF count < workersCnt - 1   \* one exit event too few
       THEN count' = count + 1 /\ pills' = pills + 1 /\ UNCHANGED cpc
       ELSE cpc' = "drain" /\ count' = 0 /\ UNCHANGED pills
    /\ UNCHANGED <<mainVars, workersCnt, pool, lastId, controllerQ, jobs, workerVars,
                   listenerVars>>

StopWorkers ==
    /\ cpc = "stop"
    /\ IF count < workersCnt
       THEN count' = count + 1 /\ pills' = pills + 1 /\ UNCHANGED cpc
       ELSE cpc' = "drain" /\ count' = 0 /\ UNCHANGED pills
    /\ UNCHANGED <<mainVars, workersCnt, pool, lastId, controllerQ, jobs, workerVars,
                   listenerVars>>

EndController ==
    /\ cpc = "drain"
    /\ workersCnt <= 0
    /\ cpc' = "ended"
    /\ UNCHANGED <<mainVars, count, workersCnt, pool, lastId, controllerQ, pills, jobs,
                   workerVars, listenerVars>>

Controller == \/ HandleChange \/ RunWorker \/ DecreaseWorkers \/ EndChange
              \/ HandleExit \/ StopWorkers \/ EndController
              \/ (cpc = "drain" => workersCnt > 0) /\ (HandleInput \/ HandleLeft)

-----------------------------------------------------------------------------
(* The worker threads. *)

PopExit(w) ==
    /\ w \in running
    /\ pills > 0
    /\ pills' = pills - 1
    /\ running' = running \ {w}
    /\ leaving' = leaving \cup {w}
    /\ UNCHANGED <<mainVars, ctlVars, controllerQ, jobs, busy, posted, listenerVars>>

PopJob(w) ==
    /\ w \in running
    /\ pills = 0
    /\ jobs > 0
    /\ jobs' = jobs - 1
    /\ running' = running \ {w}
    /\ busy' = busy \cup {w}
    /\ UNCHANGED <<mainVars, ctlVars, controllerQ, pills, leaving, posted, listenerVars>>

\* The end of a job: its last send() has returned.
EndJob(w) ==
    /\ w \in busy
    /\ busy' = busy \ {w}
    /\ running' = running \cup {w}
    /\ UNCHANGED <<mainVars, ctlVars, controllerQ, pills, jobs, leaving, posted,
                   listenerVars>>

PostLeft(w) ==
    /\ w \in leaving
    /\ leaving' = leaving \ {w}
    /\ posted' = posted \cup {w}
    /\ controllerQ' = Append(controllerQ, Left(w))
    /\ UNCHANGED <<mainVars, ctlVars, pills, jobs, running, busy, listenerVars>>

EndThread(w) ==
    /\ w \in posted
    /\ posted' = posted \ {w}
    /\ UNCHANGED <<mainVars, ctlVars, controllerQ, pills, jobs, running, busy, leaving,
                   listenerVars>>

WorkerStep == \/ \E w \in running : PopExit(w) \/ PopJob(w)
              \/ \E w \in leaving : PostLeft(w)
              \/ \E w \in posted : EndThread(w)
Answer == \E w \in busy : EndJob(w)

-----------------------------------------------------------------------------
(* The listener thread. *)

PassOn == controllerQ' = Append(controllerQ, Input)

\* A client has sent something: a whole message, or a header whose body the
\* listener then waits for in a blocking recv().
ReceiveMessage ==
    /\ lpc = "loop"
    /\ messages < MaxMessages
    /\ messages' = messages + 1
    /\ \/ PassOn /\ UNCHANGED lpc
       \/ lpc' = "recv" /\ UNCHANGED controllerQ
    /\ UNCHANGED <<mainVars, ctlVars, pills, jobs, workerVars, stopListener>>

\* That recv() returns: the body has arrived, or the client has closed.
BodyArrives ==
    /\ lpc = "recv"
    /\ lpc' = "loop"
    /\ PassOn \/ UNCHANGED controllerQ
    /\ UNCHANGED <<mainVars, ctlVars, pills, jobs, workerVars, stopListener, messages>>

EndListener ==
    /\ lpc = "loop"
    /\ stopListener
    /\ lpc' = "ended"
    /\ UNCHANGED <<mainVars, ctlVars, controllerQ, pills, jobs, workerVars,
                   stopListener, messages>>

-----------------------------------------------------------------------------
Next == \/ Operator \/ MainStep \/ Controller
        \/ WorkerStep \/ Answer
        \/ ReceiveMessage \/ BodyArrives \/ EndListener
        \/ mpc = "ended" /\ UNCHANGED vars

Spec == Init /\ [][Next]_vars

\* The threads run for ever, workers taken together; the operator and the
\* clients owe nothing.
Fairness ==
    /\ WF_vars(MainStep)
    /\ WF_vars(Controller)
    /\ WF_vars(WorkerStep)
    /\ WF_vars(EndListener)

FairSpec == Spec /\ Fairness

-----------------------------------------------------------------------------
(* Properties *)

\* workers_cnt counts the workers not yet joined, and every thread that is
\* alive is among them (run_worker, kill_worker).
CountIsPool == workersCnt = Cardinality(pool) /\ Alive \subseteq pool

\* While the controller waits for the workers to go, there is an exit event
\* for each that is still in its loop, whatever the operator did before
\* (controller.c:72-81): the wait ends.
EnoughPills == cpc = "drain" => pills >= Cardinality(InLoop)

\* main() destroys the queues, the maps and the database only when no other
\* thread is left to use them (main.c:67-71).
SafeDestroy ==
    mpc \in {"destroy", "ended"} => Alive = {} /\ cpc = "ended" /\ lpc = "ended"

\* A worker that has left its loop is joined: its exit event is on its way
\* until it is out of the pool.
LeftIsAnnounced ==
    \A w \in pool : w \notin InLoop \cup leaving =>
        mpc = "ended" \/ \E i \in DOMAIN controllerQ : controllerQ[i] = Left(w)

\* The sockets are blocking: a client holds the listener up that has sent a
\* header and not the body, and a worker when it does not read what it is sent.
Unhindered == []<>(busy = {} /\ lpc # "recv")

\* "To stop it, press Ctrl+D (send EOF)" (main.c:46): it does stop, whatever
\* was going on, if no client holds a thread up for ever.
EofStops == Unhindered => (mpc = "exit" ~> mpc = "ended")

\* A job that is queued is run, unless the server is being stopped.
Served == jobs = 0 \/ cpc \notin {"loop", "change"}
JobsAreRun == Unhindered => (jobs > 0 ~> Served)

\* So it is when the operator waits for one change to be over before the next
\* key (main.c:48-57).
PatientJobsAreRun == Unhindered => (jobs > 0 ~> Served \/ hasty)

\* With such an operator the pool reaches the count that was asked for.
ReachesGoal ==
    ~hasty /\ Settled /\ mpc = "read" => Cardinality(running \cup busy) = goal

=============================================================================
