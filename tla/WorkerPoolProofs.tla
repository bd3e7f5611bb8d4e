--------------------------- MODULE WorkerPoolProofs ---------------------------
(***************************************************************************)
(* Proofs about WorkerPool, for any number of workers at start, of keys    *)
(* and of messages: the shutdown is safe.                                  *)
(***************************************************************************)
EXTENDS WorkerPool, FiniteSetTheorems, TLAPS

USE StartAssumption, BoundAssumption DEF keyVars

\* workers_cnt counts the pool, and the pool holds every thread alive.
PoolInv ==
    /\ IsFiniteSet(pool)
    /\ workersCnt = Cardinality(pool)
    /\ Alive \subseteq pool

\* A worker is in one place.
PhaseInv ==
    /\ running \cap busy = {}
    /\ InLoop \cap (leaving \cup posted) = {}
    /\ leaving \cap posted = {}

\* Of the workers in their loop, all but workersCnt - count have an exit event
\* waiting when the stop loop has pushed count of them.
StopInv ==
    /\ cpc = "stop" => /\ count \in 0..workersCnt
                       /\ pills + workersCnt >= count + Cardinality(InLoop)
    /\ cpc = "drain" => pills >= Cardinality(InLoop)
    /\ cpc = "ended" => pool = {}

\* main() is past a join only when the thread it joined has ended.
JoinInv ==
    /\ mpc \in {"joinListener", "destroy", "ended"} => cpc = "ended"
    /\ mpc \in {"destroy", "ended"} => lpc = "ended"

IInv == TypeOK /\ PoolInv /\ PhaseInv /\ StopInv /\ JoinInv

LEMMA InitIInv == Init => IInv
<1> SUFFICES ASSUME Init PROVE IInv
  OBVIOUS
<1>1. Cardinality({}) = 0 /\ IsFiniteSet({})
  BY FS_EmptySet
<1>2. Alive = {} /\ InLoop = {}
  BY DEF Init, Alive, InLoop
<1>3. TypeOK
  <2>1. pool \in SUBSET (1..lastId) /\ Alive \subseteq 1..lastId
    BY <1>2 DEF Init
  <2>2. controllerQ \in Seq(Event)
    BY DEF Init
  <2>3. stopListener \in BOOLEAN /\ hasty \in BOOLEAN
    BY Zenon DEF Init
  <2>4. /\ mpc = "start" /\ cpc = "loop" /\ lpc = "loop" /\ count = 0
        /\ seen = 0 /\ keys = 0 /\ goal = 0 /\ workersCnt = 0 /\ lastId = 0
        /\ pills = 0 /\ jobs = 0 /\ messages = 0
    BY DEF Init
  <2> QED
    BY <2>1, <2>2, <2>3, <2>4 DEF TypeOK
<1> QED
  BY <1>1, <1>2, <1>3 DEF Init, IInv, PoolInv, PhaseInv, StopInv, JoinInv

-----------------------------------------------------------------------------
(* The queue of the controller keeps its type. *)

LEMMA EventTypes == /\ \A n \in Nat : Change(n) \in Event /\ Left(n) \in Event
                    /\ Exit \in Event
                    /\ Input \in Event
  BY DEF Change, Left, Exit, Input, Event

LEMMA QueueStep ==
  ASSUME TypeOK, NEW e \in Event
  PROVE  /\ Append(controllerQ, e) \in Seq(Event)
         /\ controllerQ # << >> => /\ Tail(controllerQ) \in Seq(Event)
                                   /\ Head(controllerQ) \in Event
  BY DEF TypeOK

-----------------------------------------------------------------------------
(* The sets of workers: what a step does to their cardinalities. *)

LEMMA LoopFinite ==
  ASSUME PoolInv
  PROVE  /\ IsFiniteSet(InLoop)
         /\ Cardinality(InLoop) \in Nat
         /\ Cardinality(InLoop) <= workersCnt
  BY FS_Subset, FS_CardinalityType DEF PoolInv, Alive

LEMMA MainStepIInv ==
  ASSUME IInv, Operator \/ MainStep
  PROVE  IInv'
<1> USE DEF IInv
<1>1. CASE Start
  BY <1>1, EventTypes, QueueStep
     DEF Start, PostChange, TypeOK, PoolInv, PhaseInv, StopInv, JoinInv, Alive, InLoop,
         ctlVars, workerVars, listenerVars
<1>2. CASE Press
  BY <1>2 DEF Press, TypeOK, PoolInv, PhaseInv, StopInv, JoinInv, Alive, InLoop,
         ctlVars, workerVars, listenerVars
<1>3. CASE Plus
  <2>1. seen + 1 \in Nat
    BY DEF TypeOK
  <2> QED
    BY <1>3, <2>1, EventTypes, QueueStep
       DEF Plus, PostChange, TypeOK, PoolInv, PhaseInv, StopInv, JoinInv, Alive, InLoop,
           ctlVars, workerVars, listenerVars
<1>4. CASE Minus
  <2>1. seen - 1 > 0 => seen - 1 \in Nat
    BY DEF TypeOK
  <2> QED
    BY <1>4, <2>1, EventTypes, QueueStep
       DEF Minus, PostChange, TypeOK, PoolInv, PhaseInv, StopInv, JoinInv, Alive, InLoop,
           ctlVars, workerVars, listenerVars
<1>5. CASE Eof
  BY <1>5 DEF Eof, TypeOK, PoolInv, PhaseInv, StopInv, JoinInv, Alive, InLoop,
         ctlVars, workerVars, listenerVars
<1>6. CASE StopController
  BY <1>6, EventTypes, QueueStep
     DEF StopController, TypeOK, PoolInv, PhaseInv, StopInv, JoinInv, Alive, InLoop,
         ctlVars, workerVars, listenerVars
<1>7. CASE StopListener
  BY <1>7 DEF StopListener, TypeOK, PoolInv, PhaseInv, StopInv, JoinInv, Alive, InLoop,
         ctlVars, workerVars, listenerVars
<1>8. CASE JoinController
  BY <1>8 DEF JoinController, TypeOK, PoolInv, PhaseInv, StopInv, JoinInv, Alive, InLoop,
         ctlVars, workerVars, listenerVars
<1>9. CASE JoinListener
  BY <1>9 DEF JoinListener, TypeOK, PoolInv, PhaseInv, StopInv, JoinInv, Alive, InLoop,
         ctlVars, workerVars, listenerVars
<1>10. CASE Destroy
  <2>1. pool = {} /\ cpc = "ended"
    BY <1>10 DEF Destroy, JoinInv, StopInv
  <2>2. Cardinality({}) = 0 /\ workersCnt = 0
    BY <2>1, FS_EmptySet DEF PoolInv
  <2>3. workersCnt' = 0 /\ pool' = {} /\ Alive' = Alive /\ InLoop' = InLoop
    BY <1>10, <2>1, <2>2 DEF Destroy, Alive, InLoop, workerVars
  <2>4. Alive = {}
    BY <2>1 DEF PoolInv
  <2>5. TypeOK'
    BY <1>10, <2>3, <2>4 DEF Destroy, TypeOK, workerVars, listenerVars
  <2> QED
    BY <1>10, <2>1, <2>2, <2>3, <2>4, <2>5
       DEF Destroy, PoolInv, PhaseInv, StopInv, JoinInv, workerVars, listenerVars
<1> QED
  BY <1>1, <1>2, <1>3, <1>4, <1>5, <1>6, <1>7, <1>8, <1>9, <1>10 DEF Operator, MainStep

LEMMA ControllerIInv ==
  ASSUME IInv, Controller
  PROVE  IInv'
<1> USE DEF IInv
<1>0. Cardinality(InLoop) \in Nat /\ Cardinality(InLoop) <= workersCnt
  BY LoopFinite
<1>1. CASE HandleChange
  <2>1. Head(controllerQ).arg \in Nat /\ Tail(controllerQ) \in Seq(Event)
    BY <1>1, QueueStep, EventTypes DEF HandleChange, Event
  <2> QED
    BY <1>1, <2>1
       DEF HandleChange, TypeOK, PoolInv, PhaseInv, StopInv, JoinInv, Alive, InLoop,
           mainVars, workerVars, listenerVars
<1>2. CASE RunWorker
  <2>1. lastId + 1 \notin pool /\ lastId + 1 \notin Alive
    BY DEF TypeOK
  <2>2. Cardinality(pool') = workersCnt' /\ IsFiniteSet(pool')
    BY <1>2, <2>1, FS_AddElement DEF RunWorker, PoolInv
  <2>3. 1..lastId \subseteq 1..(lastId + 1) /\ lastId + 1 \in 1..(lastId + 1)
    BY DEF TypeOK
  <2> QED
    BY <1>2, <2>1, <2>2, <2>3
       DEF RunWorker, TypeOK, PoolInv, PhaseInv, StopInv, JoinInv, Alive, InLoop,
           mainVars, listenerVars
<1>3. CASE DecreaseWorkers
  BY <1>3 DEF DecreaseWorkers, TypeOK, PoolInv, PhaseInv, StopInv, JoinInv, Alive, InLoop,
         mainVars, workerVars, listenerVars
<1>4. CASE EndChange
  BY <1>4 DEF EndChange, TypeOK, PoolInv, PhaseInv, StopInv, JoinInv, Alive, InLoop,
         mainVars, workerVars, listenerVars
<1>5. CASE HandleInput
  <2>1. Tail(controllerQ) \in Seq(Event)
    BY <1>5, QueueStep, EventTypes DEF HandleInput
  <2> QED
    BY <1>5, <2>1
       DEF HandleInput, TypeOK, PoolInv, PhaseInv, StopInv, JoinInv, Alive, InLoop,
           mainVars, ctlVars, workerVars, listenerVars
<1>6. CASE HandleLeft
  <2>1. Tail(controllerQ) \in Seq(Event)
    BY <1>6, QueueStep, EventTypes DEF HandleLeft
  <2> DEFINE w == Head(controllerQ).arg
  <2>2. CASE w \in pool
    <3>1. /\ Cardinality(pool \ {w}) = workersCnt - 1
          /\ IsFiniteSet(pool \ {w})
          /\ Cardinality(pool \ {w}) \in Nat
      BY <2>2, FS_RemoveElement, FS_CardinalityType DEF PoolInv
    <3> QED
      BY <1>6, <2>1, <2>2, <3>1
         DEF HandleLeft, TypeOK, PoolInv, PhaseInv, StopInv, JoinInv, Alive, InLoop,
             mainVars, workerVars, listenerVars
  <2>3. CASE w \notin pool
    BY <1>6, <2>1, <2>3
       DEF HandleLeft, TypeOK, PoolInv, PhaseInv, StopInv, JoinInv, Alive, InLoop,
           mainVars, workerVars, listenerVars
  <2> QED
    BY <2>2, <2>3
<1>7. CASE HandleExit
  <2>1. Tail(controllerQ) \in Seq(Event)
    BY <1>7, QueueStep, EventTypes DEF HandleExit
  <2> QED
    BY <1>0, <1>7, <2>1
       DEF HandleExit, TypeOK, PoolInv, PhaseInv, StopInv, JoinInv, Alive, InLoop,
           mainVars, workerVars, listenerVars
<1>8. CASE StopWorkers
  <2>1. /\ UNCHANGED <<mainVars, workersCnt, pool, lastId, controllerQ, jobs, workerVars,
                      listenerVars>>
        /\ cpc = "stop"
        /\ count \in Int /\ workersCnt \in Nat /\ pills \in Nat
        /\ \/ count < workersCnt /\ count' = count + 1 /\ pills' = pills + 1 /\ cpc' = cpc
           \/ count >= workersCnt /\ cpc' = "drain" /\ count' = 0 /\ pills' = pills
    BY <1>0, <1>8 DEF StopWorkers, TypeOK
  <2>2. UNCHANGED <<InLoop, Alive>>
    BY <2>1 DEF InLoop, Alive, workerVars
  <2>3. TypeOK' /\ PoolInv' /\ PhaseInv' /\ JoinInv'
    BY <1>0, <2>1, <2>2
       DEF TypeOK, PoolInv, PhaseInv, JoinInv, mainVars, workerVars, listenerVars
  <2>4. StopInv'
    BY <1>0, <2>1, <2>2 DEF StopInv
  <2> QED
    BY <2>3, <2>4
<1>9. CASE EndController
  <2>1. pool = {}
    BY <1>9, FS_EmptySet DEF EndController, TypeOK, PoolInv
  <2> QED
    BY <1>9, <2>1
       DEF EndController, TypeOK, PoolInv, PhaseInv, StopInv, JoinInv, Alive, InLoop,
           mainVars, workerVars, listenerVars
<1> QED
  BY <1>1, <1>2, <1>3, <1>4, <1>5, <1>6, <1>7, <1>8, <1>9 DEF Controller

LEMMA WorkerIInv ==
  ASSUME IInv, WorkerStep \/ Answer
  PROVE  IInv'
<1> USE DEF IInv
<1>0. /\ Cardinality(InLoop) \in Nat /\ Cardinality(InLoop) <= workersCnt
      /\ IsFiniteSet(InLoop)
  BY LoopFinite
<1>1. ASSUME NEW w \in running, PopExit(w) PROVE IInv'
  <2>1. InLoop' = InLoop \ {w} /\ w \in InLoop
    BY <1>1 DEF PopExit, InLoop, PhaseInv
  <2>2. Cardinality(InLoop') = Cardinality(InLoop) - 1
    BY <1>0, <2>1, FS_RemoveElement
  <2>3. Cardinality(InLoop') \in Nat
    BY <1>0, <2>1, <2>2, FS_RemoveElement, FS_CardinalityType
  <2>4. Alive' = Alive
    BY <1>1 DEF PopExit, Alive, InLoop
  <2>5. PhaseInv'
    BY <1>1 DEF PopExit, PhaseInv, InLoop
  <2> QED
    BY <1>0, <1>1, <2>2, <2>3, <2>4, <2>5
       DEF PopExit, TypeOK, PoolInv, StopInv, JoinInv, mainVars, ctlVars, listenerVars
<1>2. ASSUME NEW w \in running, PopJob(w) PROVE IInv'
  <2>1. InLoop' = InLoop /\ Alive' = Alive /\ PhaseInv'
    BY <1>2 DEF PopJob, InLoop, Alive, PhaseInv
  <2> QED
    BY <1>2, <2>1
       DEF PopJob, TypeOK, PoolInv, StopInv, JoinInv, mainVars, ctlVars, listenerVars
<1>3. ASSUME NEW w \in busy, EndJob(w) PROVE IInv'
  <2>1. InLoop' = InLoop /\ Alive' = Alive /\ PhaseInv'
    BY <1>3 DEF EndJob, InLoop, Alive, PhaseInv
  <2> QED
    BY <1>3, <2>1
       DEF EndJob, TypeOK, PoolInv, StopInv, JoinInv, mainVars, ctlVars, listenerVars
<1>4. ASSUME NEW w \in leaving, PostLeft(w) PROVE IInv'
  <2>1. InLoop' = InLoop /\ Alive' = Alive /\ PhaseInv'
    BY <1>4 DEF PostLeft, InLoop, Alive, PhaseInv
  <2>2. w \in Nat
    BY DEF TypeOK, Alive
  <2> QED
    BY <1>4, <2>1, <2>2, EventTypes, QueueStep
       DEF PostLeft, TypeOK, PoolInv, StopInv, JoinInv, mainVars, ctlVars, listenerVars
<1>5. ASSUME NEW w \in posted, EndThread(w) PROVE IInv'
  <2>1. InLoop' = InLoop /\ Alive' \subseteq Alive /\ PhaseInv'
    BY <1>5 DEF EndThread, InLoop, Alive, PhaseInv
  <2> QED
    BY <1>5, <2>1
       DEF EndThread, TypeOK, PoolInv, StopInv, JoinInv, mainVars, ctlVars, listenerVars
<1> QED
  BY <1>1, <1>2, <1>3, <1>4, <1>5 DEF WorkerStep, Answer

LEMMA ListenerIInv ==
  ASSUME IInv, ReceiveMessage \/ BodyArrives \/ EndListener
  PROVE  IInv'
<1> USE DEF IInv
<1>1. CASE ReceiveMessage
  <2>1. controllerQ' \in Seq(Event) /\ lpc' \in {"loop", "recv"}
    BY <1>1, EventTypes, QueueStep DEF ReceiveMessage, PassOn, TypeOK
  <2>2. TypeOK'
    BY <1>1, <2>1
       DEF ReceiveMessage, TypeOK, Alive, InLoop, mainVars, ctlVars, workerVars
  <2>3. (PoolInv /\ PhaseInv /\ StopInv)'
    BY <1>1 DEF ReceiveMessage, PoolInv, PhaseInv, StopInv, Alive, InLoop, mainVars, ctlVars,
                workerVars
  <2>4. JoinInv'
    BY <1>1 DEF ReceiveMessage, JoinInv, mainVars, ctlVars
  <2> QED
    BY <2>2, <2>3, <2>4
<1>2. CASE BodyArrives
  BY <1>2, EventTypes, QueueStep, SMTT(40)
     DEF BodyArrives, PassOn, TypeOK, PoolInv, PhaseInv, StopInv, JoinInv, Alive, InLoop,
         mainVars, ctlVars, workerVars
<1>3. CASE EndListener
  BY <1>3 DEF EndListener, TypeOK, PoolInv, PhaseInv, StopInv, JoinInv, Alive, InLoop,
         mainVars, ctlVars, workerVars
<1> QED
  BY <1>1, <1>2, <1>3

LEMMA InvariantStep ==
  ASSUME IInv, [Next]_vars
  PROVE  IInv'
<1>1. CASE UNCHANGED vars
  BY <1>1
     DEF vars, IInv, TypeOK, PoolInv, PhaseInv, StopInv, JoinInv, Alive, InLoop,
         mainVars, ctlVars, workerVars, listenerVars
<1>2. CASE mpc = "ended" /\ UNCHANGED vars
  BY <1>1, <1>2
<1> QED
  BY <1>1, <1>2, MainStepIInv, ControllerIInv, WorkerIInv, ListenerIInv DEF Next

LEMMA InvariantHolds == Spec => []IInv
  BY InitIInv, InvariantStep, PTL DEF Spec

-----------------------------------------------------------------------------
(* The exit events of the workers are on their way. *)

Queued(e) == \E i \in DOMAIN controllerQ : controllerQ[i] = e

LEMMA QueueKeeps ==
  ASSUME TypeOK, NEW e \in Event
  PROVE  /\ controllerQ' = Append(controllerQ, e) =>
               Queued(e)' /\ \A f \in Event : Queued(f) => Queued(f)'
         /\ controllerQ # << >> /\ controllerQ' = Tail(controllerQ) =>
               \A f \in Event : Queued(f) => f = Head(controllerQ) \/ Queued(f)'
<1> USE DEF Queued
<1>1. controllerQ \in Seq(Event)
  BY DEF TypeOK
<1>2. ASSUME controllerQ' = Append(controllerQ, e)
      PROVE  Queued(e)' /\ \A f \in Event : Queued(f) => Queued(f)'
  <2>1. controllerQ'[Len(controllerQ) + 1] = e /\ Len(controllerQ) + 1 \in DOMAIN controllerQ'
    BY <1>1, <1>2
  <2>2. \A i \in DOMAIN controllerQ :
          i \in DOMAIN controllerQ' /\ controllerQ'[i] = controllerQ[i]
    BY <1>1, <1>2
  <2> QED
    BY <2>1, <2>2
<1>3. ASSUME controllerQ # << >>, controllerQ' = Tail(controllerQ),
             NEW f \in Event, Queued(f), f # Head(controllerQ)
      PROVE  Queued(f)'
  <2>1. PICK i \in DOMAIN controllerQ : controllerQ[i] = f
    BY <1>3
  <2>2. i # 1
    BY <1>1, <1>3, <2>1
  <2>3. i - 1 \in DOMAIN controllerQ' /\ controllerQ'[i - 1] = f
    BY <1>1, <1>3, <2>1, <2>2
  <2> QED
    BY <2>3
<1> QED
  BY <1>2, <1>3

LEMMA AnnouncedStep ==
  ASSUME IInv, LeftIsAnnounced, [Next]_vars
  PROVE  LeftIsAnnounced'
<1> USE DEF Queued
<1>1. TypeOK /\ TypeOK' /\ pool \subseteq 1..lastId /\ pool' \subseteq 1..lastId' /\ lastId' \in Nat
  BY InvariantStep DEF IInv, TypeOK
<1>2. SUFFICES ASSUME NEW w \in pool', (w \notin InLoop \cup leaving)', (mpc # "ended")'
               PROVE  Queued(Left(w))'
  BY DEF LeftIsAnnounced
<1>3. Left(w) \in Event
  BY <1>1, EventTypes
<1>4. ASSUME w \in pool, w \notin InLoop \cup leaving, mpc # "ended"
      PROVE  Queued(Left(w))
  BY <1>4 DEF LeftIsAnnounced
<1>5. CASE UNCHANGED vars
  BY <1>2, <1>4, <1>5
     DEF vars, mainVars, ctlVars, workerVars, InLoop
<1>6. CASE Operator \/ MainStep
  <2>1. InLoop' = InLoop /\ leaving' = leaving /\ mpc # "ended" /\ pool' = pool
    BY <1>2, <1>6 DEF Operator, MainStep, Start, Press, Plus, Minus, Eof, StopController,
         StopListener, JoinController, JoinListener, Destroy, ctlVars, workerVars, InLoop
  <2>2. controllerQ' = controllerQ \/ \E e \in Event : controllerQ' = Append(controllerQ, e)
    BY <1>1, <1>2, <1>6, EventTypes
       DEF Operator, MainStep, Start, Press, Plus, Minus, Eof, StopController, PostChange,
           StopListener, JoinController, JoinListener, Destroy, TypeOK
  <2> QED
    BY <1>1, <1>2, <1>3, <1>4, <2>1, <2>2, QueueKeeps
<1>7. CASE Controller
  <2>1. CASE HandleChange \/ HandleExit \/ (HandleInput /\ cpc \in {"loop", "drain"})
    <3>1. /\ InLoop' = InLoop /\ leaving' = leaving /\ mpc' = mpc /\ pool' = pool
          /\ controllerQ # << >> /\ controllerQ' = Tail(controllerQ)
          /\ Head(controllerQ).type # "left"
      BY <2>1 DEF HandleChange, HandleExit, HandleInput, mainVars, ctlVars, workerVars, InLoop
    <3>2. Left(w) # Head(controllerQ)
      BY <3>1 DEF Left
    <3> QED
      BY <1>1, <1>2, <1>3, <1>4, <3>1, <3>2, QueueKeeps
  <2>2. CASE HandleLeft
    <3>1. /\ InLoop' = InLoop /\ leaving' = leaving /\ mpc' = mpc
          /\ controllerQ # << >> /\ controllerQ' = Tail(controllerQ)
          /\ pool' \subseteq pool /\ Head(controllerQ).arg \notin pool'
      BY <2>2 DEF HandleLeft, mainVars, workerVars, InLoop
    <3>2. Left(w) # Head(controllerQ)
      BY <1>2, <3>1 DEF Left
    <3> QED
      BY <1>1, <1>2, <1>3, <1>4, <3>1, <3>2, QueueKeeps
  <2>3. CASE RunWorker
    BY <1>2, <1>4, <2>3 DEF RunWorker, mainVars, InLoop
  <2>4. CASE DecreaseWorkers \/ EndChange \/ StopWorkers \/ EndController
    BY <1>2, <1>4, <2>4 DEF DecreaseWorkers, EndChange, StopWorkers, EndController, mainVars,
                            workerVars, InLoop
  <2> QED
    BY <1>7, <2>1, <2>2, <2>3, <2>4 DEF Controller, HandleInput
<1>8. CASE WorkerStep \/ Answer
  <2>1. PICK v \in running \cup busy \cup leaving \cup posted :
          PopExit(v) \/ PopJob(v) \/ EndJob(v) \/ PostLeft(v) \/ EndThread(v)
    BY <1>8 DEF WorkerStep, Answer
  <2>2. CASE PostLeft(v)
    <3>1. Left(v) \in Event
      BY <1>1, <2>2, EventTypes DEF PostLeft, TypeOK, Alive
    <3>2. controllerQ' = Append(controllerQ, Left(v))
      BY <2>2 DEF PostLeft
    <3>3. w = v \/ w \notin InLoop \cup leaving
      BY <1>2, <2>2 DEF PostLeft, InLoop
    <3>4. w \in pool /\ mpc # "ended"
      BY <1>2, <2>2 DEF PostLeft, mainVars, ctlVars
    <3> QED
      BY <1>1, <1>3, <1>4, <3>1, <3>2, <3>3, <3>4, QueueKeeps
  <2>3. CASE PopExit(v) \/ PopJob(v) \/ EndJob(v) \/ EndThread(v)
    BY <1>2, <1>4, <2>3 DEF PopExit, PopJob, EndJob, EndThread, mainVars, ctlVars, InLoop
  <2> QED
    BY <2>1, <2>2, <2>3
<1>9. CASE ReceiveMessage \/ BodyArrives \/ EndListener
  <2>1. InLoop' = InLoop /\ leaving' = leaving /\ mpc' = mpc /\ pool' = pool
    BY <1>9 DEF ReceiveMessage, BodyArrives, EndListener, mainVars, ctlVars, workerVars, InLoop
  <2>2. controllerQ' = controllerQ \/ \E e \in Event : controllerQ' = Append(controllerQ, e)
    BY <1>9, EventTypes DEF ReceiveMessage, BodyArrives, EndListener, PassOn
  <2> QED
    BY <1>1, <1>2, <1>3, <1>4, <2>1, <2>2, QueueKeeps
<1> QED
  BY <1>5, <1>6, <1>7, <1>8, <1>9 DEF Next, vars

-----------------------------------------------------------------------------
(* The pool reaches the count that was asked for. *)

\* main() has not seen the end of the input.
Early == mpc \in {"start", "read", "plus", "minus"}

Has(type) == \E i \in DOMAIN controllerQ : controllerQ[i].type = type

\* No worker is coming or going.
Still ==
    /\ cpc = "loop"
    /\ pills = 0
    /\ leaving \cup posted = {}
    /\ ~Has("left")

\* The workers there will be when the change in hand is carried out.
Due == Cardinality(InLoop) - pills + (IF cpc = "change" THEN count ELSE 0)

\* With an operator who waits a change is alone in the queue of a still pool,
\* and once it is taken the pool is on its way to the goal.
GoalInv ==
    Early =>
      /\ cpc \in {"loop", "change"}
      /\ ~Has("exit")
      /\ ~hasty =>
           /\ mpc \in {"start", "plus", "minus"} => Still /\ ~Has("change")
           /\ \A i \in DOMAIN controllerQ : controllerQ[i].type = "change" =>
                /\ Still
                /\ controllerQ[i].arg = goal
                /\ \A j \in DOMAIN controllerQ : controllerQ[j].type = "change" => j = i
           /\ ~Has("change") => Due = goal

\* What an event is, when the queue grows or shrinks by one.
LEMMA QueueEnds ==
  ASSUME TypeOK, NEW e \in Event
  PROVE  /\ controllerQ' = Append(controllerQ, e) =>
              /\ DOMAIN controllerQ' = 1..(Len(controllerQ) + 1)
              /\ controllerQ'[Len(controllerQ) + 1] = e
              /\ \A i \in DOMAIN controllerQ :
                   i \in DOMAIN controllerQ' /\ controllerQ'[i] = controllerQ[i]
              /\ \A i \in DOMAIN controllerQ' : i = Len(controllerQ) + 1 \/ i \in DOMAIN controllerQ
         /\ controllerQ # << >> /\ controllerQ' = Tail(controllerQ) =>
              /\ 1 \in DOMAIN controllerQ /\ controllerQ[1] = Head(controllerQ)
              /\ \A i \in DOMAIN controllerQ' :
                   i \in Nat /\ i + 1 \in DOMAIN controllerQ /\ controllerQ'[i] = controllerQ[i + 1]
              /\ \A i \in DOMAIN controllerQ :
                   i = 1 \/ (i - 1 \in DOMAIN controllerQ' /\ controllerQ'[i - 1] = controllerQ[i])
<1>1. controllerQ \in Seq(Event)
  BY DEF TypeOK
<1>2. ASSUME controllerQ' = Append(controllerQ, e)
      PROVE  /\ DOMAIN controllerQ' = 1..(Len(controllerQ) + 1)
             /\ controllerQ'[Len(controllerQ) + 1] = e
             /\ \A i \in DOMAIN controllerQ :
                  i \in DOMAIN controllerQ' /\ controllerQ'[i] = controllerQ[i]
             /\ \A i \in DOMAIN controllerQ' : i = Len(controllerQ) + 1 \/ i \in DOMAIN controllerQ
  BY <1>1, <1>2
<1>3. ASSUME controllerQ # << >>, controllerQ' = Tail(controllerQ)
      PROVE  /\ 1 \in DOMAIN controllerQ /\ controllerQ[1] = Head(controllerQ)
             /\ \A i \in DOMAIN controllerQ' :
                  i \in Nat /\ i + 1 \in DOMAIN controllerQ /\ controllerQ'[i] = controllerQ[i + 1]
             /\ \A i \in DOMAIN controllerQ :
                  i = 1 \/ (i - 1 \in DOMAIN controllerQ' /\ controllerQ'[i - 1] = controllerQ[i])
  <2>1. /\ Len(controllerQ) \in Nat \ {0} /\ DOMAIN controllerQ = 1..Len(controllerQ)
        /\ DOMAIN controllerQ' = 1..(Len(controllerQ) - 1)
        /\ \A i \in 1..(Len(controllerQ) - 1) : controllerQ'[i] = controllerQ[i + 1]
    BY <1>1, <1>3
  <2> QED
    BY <1>1, <1>3, <2>1
<1> QED
  BY <1>2, <1>3

LEMMA StillPool ==
  ASSUME IInv, LeftIsAnnounced, Still, mpc # "ended"
  PROVE  InLoop = pool
<1>1. \A w \in pool : w \in InLoop
  <2> SUFFICES ASSUME NEW w \in pool, w \notin InLoop PROVE FALSE
    OBVIOUS
  <2>1. PICK i \in DOMAIN controllerQ : controllerQ[i] = Left(w)
    BY DEF Still, LeftIsAnnounced
  <2> QED
    BY <2>1 DEF Still, Has, Left
<1> QED
  BY <1>1 DEF IInv, PoolInv, Alive

LEMMA GoalSteady ==
  ASSUME IInv, GoalInv, Early, UNCHANGED <<controllerQ, goal, hasty>>,
         UNCHANGED <<InLoop, pills, cpc, count, leaving, posted>>,
         mpc' = mpc \/ (mpc' \in {"plus", "minus"} /\ (~hasty => Settled))
                    \/ (mpc' = "read" /\ ~Has("change"))
  PROVE  GoalInv'
<1>1. /\ \A t : Has(t)' <=> Has(t)
      /\ Still' <=> Still
      /\ Due' = Due
  BY DEF Has, Still, Due
<1>2. Settled => Still /\ ~Has("change")
  BY DEF Settled, Still, Has
<1> QED
  BY <1>1, <1>2 DEF GoalInv, Early

LEMMA GoalMain ==
  ASSUME IInv, LeftIsAnnounced, GoalInv, Early, Early', Operator \/ MainStep
  PROVE  GoalInv'
<1> USE DEF IInv
<1>0. InLoop' = InLoop
  BY DEF Operator, MainStep, Start, Press, Plus, Minus, Eof, StopController, StopListener,
         JoinController, JoinListener, Destroy, workerVars, InLoop
<1>1. CASE Press
  <2>1. ~hasty' => ~hasty /\ Settled
    BY <1>1 DEF Press, TypeOK
  <2>2. CASE hasty'
    BY <1>0, <1>1, <2>2 DEF Press, GoalInv, Early, Has, ctlVars
  <2>3. CASE ~hasty'
    <3>1. hasty' = hasty
      BY <2>1, <2>3, <1>1, Zenon DEF Press, TypeOK
    <3> QED
      BY <1>0, <1>1, <2>1, <2>3, <3>1, GoalSteady DEF Press, ctlVars, workerVars
  <2> QED
    BY <2>2, <2>3
<1>2. ASSUME NEW n \in Nat, PostChange(n), mpc \in {"start", "plus", "minus"}, mpc' = "read",
             UNCHANGED <<keyVars, ctlVars, pills, jobs, workerVars, listenerVars>>
      PROVE  GoalInv'
  <2>1. controllerQ' = Append(controllerQ, Change(n)) /\ goal' = n
    BY <1>2 DEF PostChange
  <2>2. Change(n) \in Event
    BY EventTypes
  <2>3. UNCHANGED <<cpc, count, pills, leaving, posted, hasty>>
    BY <1>2 DEF ctlVars, workerVars
  <2>4. /\ Has("exit")' => Has("exit")
        /\ Has("left")' => Has("left")
        /\ Has("change")'
    BY <2>1, <2>2, QueueEnds DEF Has, Change
  <2>5. Still => Still'
    BY <2>3, <2>4 DEF Still
  <2>6. ASSUME ~Has("change"), NEW i \in DOMAIN controllerQ', controllerQ'[i].type = "change"
        PROVE  i = Len(controllerQ) + 1 /\ controllerQ'[i].arg = n
    BY <2>1, <2>2, <2>6, QueueEnds DEF Has, Change
  <2> QED
    BY <1>2, <2>1, <2>3, <2>4, <2>5, <2>6 DEF GoalInv, Early
<1>3. CASE Start
  BY <1>2, <1>3 DEF Start
<1>4. CASE Plus
  <2>1. seen + 1 \in Nat
    BY DEF TypeOK
  <2> QED
    BY <1>2, <1>4, <2>1 DEF Plus
<1>5. CASE Minus
  <2>1. CASE seen - 1 > 0
    <3>1. seen - 1 \in Nat
      BY <2>1 DEF TypeOK
    <3> QED
      BY <1>2, <1>5, <2>1, <3>1 DEF Minus
  <2>2. CASE ~(seen - 1 > 0)
    <3>1. mpc = "minus" /\ mpc' = "read" /\ UNCHANGED <<controllerQ, goal>>
          /\ UNCHANGED <<keyVars, ctlVars, pills, jobs, workerVars, listenerVars>>
      BY <1>5, <2>2 DEF Minus
    <3>2. CASE hasty
      BY <1>0, <3>1, <3>2 DEF GoalInv, Early, Has, ctlVars
    <3>3. CASE ~hasty
      <4>1. ~Has("change")
        BY <3>1, <3>3 DEF GoalInv, Early
      <4> QED
        BY <1>0, <3>1, <4>1, GoalSteady DEF ctlVars, workerVars
    <3> QED
      BY <3>2, <3>3
  <2> QED
    BY <2>1, <2>2
<1> QED
  BY <1>1, <1>3, <1>4, <1>5
     DEF Operator, MainStep, Eof, StopController, StopListener, JoinController, JoinListener,
         Destroy, Early

LEMMA GoalController ==
  ASSUME IInv, LeftIsAnnounced, GoalInv, Early, Controller
  PROVE  GoalInv'
<1> USE DEF IInv
<1>0. /\ mpc' = mpc /\ goal' = goal /\ hasty' = hasty
      /\ cpc \in {"loop", "change"} /\ ~Has("exit")
      /\ Cardinality(InLoop) \in Nat /\ IsFiniteSet(InLoop) /\ pills \in Nat /\ count \in Int
      /\ workersCnt = Cardinality(pool) /\ workersCnt \in Nat /\ goal \in Nat
  <2>1. mainVars' = mainVars
    BY DEF Controller, HandleChange, RunWorker, DecreaseWorkers, EndChange, HandleExit,
           StopWorkers, EndController, HandleInput, HandleLeft
  <2> QED
    BY <2>1, LoopFinite DEF mainVars, GoalInv, TypeOK, PoolInv
<1>1. ASSUME controllerQ # << >>, controllerQ' = Tail(controllerQ)
      PROVE  /\ \A t : Has(t)' => Has(t)
             /\ \A t : Has(t) => Head(controllerQ).type = t \/ Has(t)'
             /\ Has(Head(controllerQ).type)
             /\ 1 \in DOMAIN controllerQ /\ controllerQ[1] = Head(controllerQ)
             /\ \A i \in DOMAIN controllerQ' :
                  i + 1 \in DOMAIN controllerQ /\ controllerQ'[i] = controllerQ[i + 1] /\ i + 1 # 1
             /\ \A i, j \in DOMAIN controllerQ' : i + 1 = j + 1 => i = j
  <2>1. Input \in Event
    BY EventTypes
  <2>2. /\ 1 \in DOMAIN controllerQ /\ controllerQ[1] = Head(controllerQ)
        /\ \A i \in DOMAIN controllerQ' :
             i \in Nat /\ i + 1 \in DOMAIN controllerQ /\ controllerQ'[i] = controllerQ[i + 1]
        /\ \A i \in DOMAIN controllerQ :
             i = 1 \/ (i - 1 \in DOMAIN controllerQ' /\ controllerQ'[i - 1] = controllerQ[i])
    BY <1>1, <2>1, QueueEnds
  <2>3. \A i \in DOMAIN controllerQ' : i \in Nat \ {0}
    <3>1. DOMAIN controllerQ' = 1..Len(controllerQ')
      BY <1>1 DEF TypeOK
    <3>2. Len(controllerQ') \in Nat
      BY <1>1 DEF TypeOK
    <3> QED
      BY <3>1, <3>2
  <2>4. \A t : Has(t)' => Has(t)
    BY <2>2 DEF Has
  <2>5. \A t : Has(t) => Head(controllerQ).type = t \/ Has(t)'
    <3> SUFFICES ASSUME NEW t, NEW i \in DOMAIN controllerQ, controllerQ[i].type = t,
                        Head(controllerQ).type # t
                 PROVE  \E k \in DOMAIN controllerQ' : controllerQ'[k].type = t
      BY DEF Has
    <3>1. i # 1
      BY <2>2
    <3> QED
      BY <2>2, <3>1
  <2>6. Has(Head(controllerQ).type)
    BY <2>2 DEF Has
  <2> QED
    BY <2>2, <2>3, <2>4, <2>5, <2>6
<1>2. CASE HandleChange
  <2>1. /\ controllerQ # << >> /\ controllerQ' = Tail(controllerQ)
        /\ Head(controllerQ).type = "change" /\ cpc' = "change"
        /\ count' = Head(controllerQ).arg - workersCnt
        /\ pills' = pills /\ InLoop' = InLoop
    BY <1>2 DEF HandleChange, workerVars, InLoop
  <2>2. CASE hasty
    BY <1>0, <1>1, <2>1, <2>2 DEF GoalInv, Early
  <2>3. CASE ~hasty
    <3>1. /\ Still /\ Head(controllerQ).arg = goal
          /\ \A j \in DOMAIN controllerQ : controllerQ[j].type = "change" => j = 1
          /\ mpc \notin {"start", "plus", "minus"}
      BY <1>1, <2>1, <2>3 DEF GoalInv
    <3>2. ~Has("change")'
      BY <1>1, <2>1, <3>1 DEF Has
    <3>3. InLoop = pool
      BY <3>1, StillPool DEF Early
    <3>4. Due' = Cardinality(InLoop) - 0 + (goal - workersCnt)
      BY <2>1, <3>1 DEF Due, Still
    <3>5. Due' = goal
      BY <1>0, <3>3, <3>4
    <3> QED
      BY <1>0, <1>1, <2>1, <3>1, <3>2, <3>5 DEF GoalInv, Early, Has
  <2> QED
    BY <2>2, <2>3
<1>3. CASE RunWorker \/ DecreaseWorkers \/ EndChange
  <2>1. cpc = "change" /\ controllerQ' = controllerQ /\ cpc' \in {"loop", "change"}
    BY <1>3 DEF RunWorker, DecreaseWorkers, EndChange
  <2>2. Due' = Due
    <3>1. CASE RunWorker
      <4>1. lastId + 1 \notin InLoop
        BY DEF TypeOK, Alive
      <4>2. InLoop' = InLoop \cup {lastId + 1}
        BY <3>1 DEF RunWorker, InLoop
      <4>3. Cardinality(InLoop') = Cardinality(InLoop) + 1
        BY <1>0, <4>1, <4>2, FS_AddElement
      <4> QED
        BY <1>0, <3>1, <4>3 DEF RunWorker, Due
    <3>2. CASE DecreaseWorkers
      BY <1>0, <3>2 DEF DecreaseWorkers, Due, workerVars, InLoop
    <3>3. CASE EndChange
      BY <1>0, <3>3 DEF EndChange, Due, workerVars, InLoop
    <3> QED
      BY <1>3, <3>1, <3>2, <3>3
  <2>3. \A t : Has(t)' <=> Has(t)
    BY <2>1 DEF Has
  <2>4. ~Still
    BY <2>1 DEF Still
  <2> QED
    BY <1>0, <2>1, <2>2, <2>3, <2>4 DEF GoalInv, Early
<1>4. CASE HandleInput
  <2>1. /\ controllerQ # << >> /\ controllerQ' = Tail(controllerQ)
        /\ Head(controllerQ).type = "input"
        /\ UNCHANGED <<pills, InLoop, cpc, count, leaving, posted>>
    BY <1>4 DEF HandleInput, ctlVars, workerVars, InLoop
  <2>2. \A t \in {"change", "left", "exit"} : Has(t)' <=> Has(t)
    BY <1>1, <2>1
  <2>3. Due' = Due /\ (Still => Still')
    BY <2>1, <2>2 DEF Due, Still
  <2>4. ASSUME ~hasty, NEW i \in DOMAIN controllerQ', controllerQ'[i].type = "change"
        PROVE  /\ Still' /\ controllerQ'[i].arg = goal'
               /\ \A j \in DOMAIN controllerQ' : controllerQ'[j].type = "change" => j = i
    <3>1. i + 1 \in DOMAIN controllerQ /\ controllerQ[i + 1] = controllerQ'[i]
      BY <1>1, <2>1
    <3>2. /\ Still /\ controllerQ[i + 1].arg = goal
          /\ \A j \in DOMAIN controllerQ : controllerQ[j].type = "change" => j = i + 1
      BY <2>4, <3>1 DEF GoalInv
    <3> QED
      BY <1>0, <1>1, <2>1, <2>3, <3>1, <3>2
  <2> QED
    BY <1>0, <2>1, <2>2, <2>3, <2>4 DEF GoalInv, Early
<1>5. CASE HandleLeft
  <2>1. /\ controllerQ # << >> /\ controllerQ' = Tail(controllerQ)
        /\ Head(controllerQ).type = "left"
        /\ UNCHANGED <<pills, InLoop, cpc, count>>
    BY <1>5 DEF HandleLeft, workerVars, InLoop
  <2>2. Has("left") /\ ~Still
    BY <1>1, <2>1 DEF Still
  <2>3. Due' = Due
    BY <2>1 DEF Due
  <2>4. /\ Has("exit")' => Has("exit")
        /\ Has("change")' <=> Has("change")
    BY <1>1, <2>1
  <2>5. ~hasty => ~Has("change")
    BY <2>2 DEF GoalInv, Has
  <2>6. ~hasty => \A i \in DOMAIN controllerQ' : controllerQ'[i].type # "change"
    BY <2>4, <2>5 DEF Has
  <2> QED
    BY <1>0, <2>1, <2>2, <2>3, <2>4, <2>5, <2>6 DEF GoalInv, Early
<1>6. CASE HandleExit \/ StopWorkers \/ EndController
  BY <1>0, <1>1, <1>6 DEF HandleExit, StopWorkers, EndController
<1> QED
  BY <1>2, <1>3, <1>4, <1>5, <1>6 DEF Controller

LEMMA GoalWorker ==
  ASSUME IInv, GoalInv, Early, WorkerStep \/ Answer
  PROVE  GoalInv'
<1> USE DEF IInv
<1>0. /\ Cardinality(InLoop) \in Nat /\ IsFiniteSet(InLoop) /\ pills \in Nat /\ count \in Int
  BY LoopFinite DEF TypeOK
<1>1. PICK w \in running \cup busy \cup leaving \cup posted :
        PopExit(w) \/ PopJob(w) \/ EndJob(w) \/ PostLeft(w) \/ EndThread(w)
  BY DEF WorkerStep, Answer
<1>2. /\ UNCHANGED <<mpc, goal, hasty, cpc, count>>
  BY <1>1 DEF PopExit, PopJob, EndJob, PostLeft, EndThread, mainVars, ctlVars
<1>3. CASE PopJob(w) \/ EndJob(w)
  BY <1>2, <1>3, GoalSteady DEF PopJob, EndJob, InLoop, mainVars, ctlVars
<1>4. CASE PopExit(w) \/ PostLeft(w) \/ EndThread(w)
  <2>1. ~Still
    BY <1>0, <1>4 DEF PopExit, PostLeft, EndThread, Still
  <2>2. Due' = Due
    <3>1. CASE PopExit(w)
      <4>1. InLoop' = InLoop \ {w} /\ w \in InLoop
        BY <3>1 DEF PopExit, InLoop, PhaseInv
      <4>2. Cardinality(InLoop') = Cardinality(InLoop) - 1
        BY <1>0, <4>1, FS_RemoveElement
      <4> QED
        BY <1>0, <1>2, <3>1, <4>2 DEF PopExit, Due
    <3>2. CASE PostLeft(w) \/ EndThread(w)
      BY <1>2, <3>2 DEF PostLeft, EndThread, Due, InLoop
    <3> QED
      BY <1>4, <3>1, <3>2
  <2>3. /\ Has("exit")' => Has("exit")
        /\ Has("change")' => Has("change")
        /\ Has("change") => Has("change")'
    <3>1. CASE PostLeft(w)
      <4>1. Left(w) \in Event /\ controllerQ' = Append(controllerQ, Left(w))
        BY <3>1, EventTypes DEF PostLeft, TypeOK, Alive
      <4>2. \A t : Has(t) => Has(t)'
        BY <4>1, QueueEnds DEF Has
      <4>3. \A t : Has(t)' => t = "left" \/ Has(t)
        BY <4>1, QueueEnds DEF Has, Left
      <4> QED
        BY <4>2, <4>3
    <3>2. CASE PopExit(w) \/ EndThread(w)
      BY <3>2 DEF PopExit, EndThread, Has
    <3> QED
      BY <1>4, <3>1, <3>2
  <2>4. ~hasty => ~Has("change")
    BY <2>1 DEF GoalInv, Has
  <2>5. ~hasty => \A i \in DOMAIN controllerQ' : controllerQ'[i].type # "change"
    BY <2>3, <2>4 DEF Has
  <2> QED
    BY <1>2, <2>1, <2>2, <2>3, <2>4, <2>5 DEF GoalInv, Early
<1> QED
  BY <1>1, <1>3, <1>4

LEMMA GoalListener ==
  ASSUME IInv, GoalInv, Early, ReceiveMessage \/ BodyArrives \/ EndListener
  PROVE  GoalInv'
<1> USE DEF IInv
<1>1. /\ UNCHANGED <<mpc, goal, hasty, cpc, count, pills, leaving, posted>>
      /\ InLoop' = InLoop
      /\ controllerQ' = controllerQ \/ controllerQ' = Append(controllerQ, Input)
  BY DEF ReceiveMessage, BodyArrives, EndListener, PassOn, mainVars, ctlVars, workerVars, InLoop
<1>2. CASE controllerQ' = controllerQ
  BY <1>1, <1>2, GoalSteady
<1>3. CASE controllerQ' = Append(controllerQ, Input)
  <2>1. Input \in Event /\ Input.type = "input"
    BY EventTypes DEF Input
  <2>2. \A t : Has(t) => Has(t)'
    BY <1>3, <2>1, QueueEnds DEF Has
  <2>3. \A t : Has(t)' => t = "input" \/ Has(t)
    BY <1>3, <2>1, QueueEnds DEF Has
  <2>4. Due' = Due /\ (Still => Still')
    BY <1>1, <2>3 DEF Due, Still
  <2>5. ASSUME NEW i \in DOMAIN controllerQ', controllerQ'[i].type = "change"
        PROVE  i \in DOMAIN controllerQ /\ controllerQ[i] = controllerQ'[i]
    BY <1>3, <2>1, <2>5, QueueEnds
  <2> QED
    BY <1>1, <2>2, <2>3, <2>4, <2>5 DEF GoalInv, Early
<1> QED
  BY <1>1, <1>2, <1>3

LEMMA GoalStep ==
  ASSUME IInv, LeftIsAnnounced, GoalInv, [Next]_vars
  PROVE  GoalInv'
<1>1. CASE UNCHANGED vars
  BY <1>1 DEF GoalInv, Early, Has, Still, Due, InLoop, vars, mainVars, ctlVars, workerVars
<1>2. SUFFICES ASSUME Early', Next PROVE GoalInv'
  BY <1>1 DEF GoalInv
<1>3. Early
  <2>1. CASE Operator \/ MainStep
    BY <1>2, <2>1
       DEF Early, Operator, MainStep, Start, Press, Plus, Minus, Eof, StopController,
           StopListener, JoinController, JoinListener, Destroy
  <2>2. CASE ~(Operator \/ MainStep)
    <3>1. mpc' = mpc
      BY <1>2, <2>2
         DEF Next, Controller, HandleChange, RunWorker, DecreaseWorkers, EndChange, HandleExit,
             StopWorkers, EndController, HandleInput, HandleLeft, WorkerStep, Answer, PopExit,
             PopJob, EndJob, PostLeft, EndThread, ReceiveMessage, BodyArrives, EndListener,
             mainVars, vars
    <3> QED
      BY <1>2, <3>1 DEF Early
  <2> QED
    BY <2>1, <2>2
<1> QED
  BY <1>1, <1>2, <1>3, GoalMain, GoalController, GoalWorker, GoalListener DEF Next

-----------------------------------------------------------------------------
\* The variables have their types; in particular workers_cnt is never negative.
THEOREM TypeCorrect == Spec => []TypeOK
<1>1. IInv => TypeOK
  BY DEF IInv
<1> QED
  BY <1>1, InvariantHolds, PTL

\* workers_cnt counts the workers not yet joined, every live thread among them.
THEOREM CountCorrect == Spec => []CountIsPool
<1>1. IInv => CountIsPool
  BY DEF IInv, PoolInv, CountIsPool
<1> QED
  BY <1>1, InvariantHolds, PTL

\* However the keys and the workers' exits interleaved before, the shutdown
\* leaves no worker in its loop without an exit event (controller.c:72-81).
THEOREM EnoughPillsCorrect == Spec => []EnoughPills
<1>1. IInv => EnoughPills
  BY DEF IInv, StopInv, EnoughPills
<1> QED
  BY <1>1, InvariantHolds, PTL

\* A worker that has left its loop is joined: the event that tells the
\* controller is queued until it is out of the pool (worker.c:21).
THEOREM LeftIsAnnouncedCorrect == Spec => []LeftIsAnnounced
<1>1. Init => LeftIsAnnounced
  BY DEF Init, LeftIsAnnounced
<1> QED
  BY <1>1, AnnouncedStep, InvariantHolds, PTL DEF Spec

\* With an operator who presses a key only when the last change is over, the
\* pool has as many workers as were asked for whenever nothing is under way
\* (main.c:48-57, change_worker_cnt_event.c).
THEOREM ReachesGoalCorrect == Spec => []ReachesGoal
<1>1. Init => LeftIsAnnounced /\ GoalInv
  <2> SUFFICES ASSUME Init PROVE LeftIsAnnounced /\ GoalInv
    OBVIOUS
  <2>1. InLoop = {} /\ Cardinality(InLoop) = 0
    BY FS_EmptySet DEF Init, InLoop
  <2>2. DOMAIN controllerQ = {}
    BY DEF Init
  <2>3. \A t : ~Has(t)
    BY <2>2 DEF Has
  <2>4. Still /\ Due = 0 /\ goal = 0
    BY <2>1, <2>3 DEF Init, Still, Due
  <2>5. GoalInv
    BY <2>2, <2>3, <2>4 DEF Init, GoalInv
  <2> QED
    BY <2>5 DEF Init, LeftIsAnnounced
<1>2. LeftIsAnnounced /\ GoalInv /\ IInv /\ [Next]_vars => (LeftIsAnnounced /\ GoalInv)'
  BY AnnouncedStep, GoalStep
<1>3. IInv /\ GoalInv => ReachesGoal
  <2> SUFFICES ASSUME IInv, GoalInv, ~hasty, Settled, mpc = "read"
               PROVE  Cardinality(InLoop) = goal
    BY DEF ReachesGoal, InLoop
  <2>1. ~Has("change") /\ pills = 0 /\ cpc = "loop"
    BY DEF Settled, Has
  <2>2. Cardinality(InLoop) \in Nat
    BY LoopFinite DEF IInv
  <2> QED
    BY <2>1, <2>2 DEF GoalInv, Early, Due
<1> QED
  BY <1>1, <1>2, <1>3, InvariantHolds, PTL DEF Spec

\* main() destroys the shared data when every other thread has ended
\* (main.c:67-71).
THEOREM SafeDestroyCorrect == Spec => []SafeDestroy
<1>1. IInv => SafeDestroy
  BY DEF IInv, PoolInv, StopInv, JoinInv, SafeDestroy
<1> QED
  BY <1>1, InvariantHolds, PTL

=============================================================================
