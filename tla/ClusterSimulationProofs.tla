---------------------- MODULE ClusterSimulationProofs ----------------------
(***************************************************************************)
(* Proofs about ClusterSimulation, for any workloads, powers and schedule: *)
(* types and legal caps, protected workloads, the agreement of the audit   *)
(* logs with the cluster through failing rows and roll-backs, and what is  *)
(* left of the excess after a control step.                                *)
(***************************************************************************)
EXTENDS ClusterSimulation, WellFoundedInduction, TLAPS

NumberedOrNone == Nat \cup {Uncapped}

\* A cap that workload w authorizes, or none.
Lawful(w, value) ==
    value # Uncapped => floor[w] # NoFloor /\ value \in floor[w] .. Nominal[w]

\* What a plan still to be carried out holds, validated once as a whole.
PlanOK ==
    pc \in {"control", "applying"} =>
        /\ todo \in Seq(PowerCaps)
        /\ \A i \in DOMAIN todo : /\ ~Protected(todo[i].workload)
                                  /\ Lawful(todo[i].workload, todo[i].value)

Admitted == {w \in Workloads : state[w] # "queued"}

\* How the log in memory relates to the cluster at each stage.
MemoryOK ==
    /\ pc \notin {"admitting", "applying"} => memory.caps = cap /\ memory.admitted = Admitted
    /\ pc = "admitting" =>
          /\ Head(todo) \in Workloads /\ state[Head(todo)] = "running"
          /\ memory.intent = Admission(Head(todo))
          /\ memory.caps = cap /\ memory.admitted = Admitted \ {Head(todo)}
    /\ pc = "applying" =>
          /\ todo # <<>>
          /\ memory.intent = Action(Head(todo))
          /\ memory.admitted = Admitted
          /\ priorCap = memory.caps[Head(todo).workload]
          /\ cap = [memory.caps EXCEPT ![Head(todo).workload] = Head(todo).value]
          /\ LegalCaps(memory.caps)

\* The durable log leaves memory behind only in the row that ended the run.
DurableOK == pc # "aborted" => durable = memory

ClusterInv == ClusterTypeOK /\ PlanOK /\ MemoryOK /\ DurableOK

-----------------------------------------------------------------------------
(* What the invariant says of the first action of a plan.                  *)

\* The first of a plan's actions is lawful and the rest is still such a plan.
LEMMA PlanHead ==
    ASSUME ClusterTypeOK, PlanOK, pc \in {"control", "applying"}, todo # <<>>
    PROVE  /\ Head(todo) \in PowerCaps
           /\ Head(todo).workload \in Workloads
           /\ Head(todo).value \in NumberedOrNone
           /\ ~Protected(Head(todo).workload)
           /\ Lawful(Head(todo).workload, Head(todo).value)
           /\ Tail(todo) \in Seq(PowerCaps)
           /\ \A i \in DOMAIN Tail(todo) : /\ ~Protected(Tail(todo)[i].workload)
                                           /\ Lawful(Tail(todo)[i].workload, Tail(todo)[i].value)
<1>1. todo \in Seq(PowerCaps)
  BY DEF PlanOK
<1>2. /\ Head(todo) = todo[1] /\ 1 \in DOMAIN todo /\ Head(todo) \in PowerCaps
      /\ Tail(todo) \in Seq(PowerCaps)
      /\ \A i \in DOMAIN Tail(todo) : i + 1 \in DOMAIN todo /\ Tail(todo)[i] = todo[i + 1]
  BY <1>1
<1>3. ~Protected(todo[1].workload) /\ Lawful(todo[1].workload, todo[1].value)
  BY <1>2 DEF PlanOK
<1>4. \A i \in DOMAIN Tail(todo) : /\ ~Protected(Tail(todo)[i].workload)
                                   /\ Lawful(Tail(todo)[i].workload, Tail(todo)[i].value)
  BY <1>2 DEF PlanOK
<1> QED
  BY <1>2, <1>3, <1>4 DEF PowerCaps, NumberedOrNone

\* Announcing and confirming changes keeps logs logs.
LEMMA AnnouncedType ==
    ASSUME NEW log \in Logs, NEW change \in Changes
    PROVE  /\ Announced(log, change) \in Logs
           /\ Announced(log, change).caps = log.caps
           /\ Announced(log, change).admitted = log.admitted
           /\ Announced(log, change).intent = change
  BY DEF Announced, Logs

LEMMA ConfirmedAdmission ==
    ASSUME NEW log \in Logs, NEW w \in Workloads, log.intent = Admission(w)
    PROVE  /\ Confirmed(log) \in Logs
           /\ Confirmed(log).caps = log.caps
           /\ Confirmed(log).admitted = log.admitted \cup {w}
<1>1. log.intent.kind = "admission" /\ log.intent.workload = w
  BY DEF Admission
<1>2. Confirmed(log) = [admitted |-> log.admitted \cup {w}, caps |-> log.caps, intent |-> NoChange]
  BY <1>1 DEF Confirmed
<1> QED
  BY <1>2 DEF Logs, Changes

LEMMA ConfirmedCap ==
    ASSUME NEW log \in Logs, NEW a \in PowerCaps, log.intent = Action(a)
    PROVE  /\ Confirmed(log) \in Logs
           /\ Confirmed(log).caps = [log.caps EXCEPT ![a.workload] = a.value]
           /\ Confirmed(log).admitted = log.admitted
<1>1. log.intent.kind # "admission" /\ log.intent.workload = a.workload /\ log.intent.value = a.value
  BY DEF Action
<1>2. Confirmed(log) = [admitted |-> log.admitted,
                         caps |-> [log.caps EXCEPT ![a.workload] = a.value], intent |-> NoChange]
  BY <1>1 DEF Confirmed
<1> QED
  BY <1>2 DEF Logs, Changes, PowerCaps

-----------------------------------------------------------------------------
(* The invariant.                                                          *)

LEMMA ClusterInit == Init => ClusterInv
<1> SUFFICES ASSUME Init PROVE ClusterInv
  OBVIOUS
<1> USE DEF Init
<1>1. floor \in Floors /\ LegalCaps(cap) /\ memory \in Logs
  BY ClusterAssumption DEF LegalCaps, Logs, Changes
<1>2. ClusterTypeOK
  <2>1. \A w \in Workloads : ~(state[w] = "completed")
    OBVIOUS
  <2>2. \A w \in Workloads : ~(Work[w] # Endless /\ progress[w] >= Work[w])
    BY ClusterAssumption
  <2>3. Interval \in Nat \ {0} /\ 0 \in 0 .. Interval - 1
    BY ClusterAssumption
  <2> QED
    BY <1>1, <2>1, <2>2, <2>3 DEF ClusterTypeOK, Stages
<1> QED
  BY <1>2 DEF ClusterInv, PlanOK, MemoryOK, DurableOK, Admitted

\* Legal caps stay so when one workload gets a lawful one.
LEMMA LawfulCap ==
    ASSUME NEW c \in [Workloads -> NumberedOrNone], LegalCaps(c),
           NEW w \in Workloads, NEW value \in NumberedOrNone, Lawful(w, value)
    PROVE  /\ [c EXCEPT ![w] = value] \in [Workloads -> NumberedOrNone]
           /\ LegalCaps([c EXCEPT ![w] = value])
  BY DEF LegalCaps, Lawful, NumberedOrNone

\* Progress stays a natural number.
LEMMA AdvancedType ==
    ASSUME ClusterTypeOK, NEW w \in Workloads
    PROVE  Advanced(w) \in Nat
<1>1. Draw(w) \in Nat
  BY ClusterAssumption DEF ClusterTypeOK, Draw
<1>2. Gpus[w] \in Nat /\ progress[w] \in Nat
  BY ClusterAssumption DEF ClusterTypeOK
<1>3. \A x, y \in Nat : x * y \in Nat
  OBVIOUS
<1>4. Gpus[w] * Draw(w) \in Nat
  BY <1>1, <1>2, <1>3
<1> QED
  BY <1>2, <1>4 DEF Advanced

\* A row that fails leaves the memory alone and a log in the durable one.
LEMMA FailedRow ==
    ASSUME NEW log \in Logs, durable \in Logs, memory \in Logs, RecordFails(log)
    PROVE  memory' = memory /\ durable' \in Logs /\ pc' = "aborted"
  BY DEF RecordFails

\* A change of state from queued to running or back keeps the state typed.
LEMMA StateChange ==
    ASSUME ClusterTypeOK, NEW w \in Workloads, state[w] # "completed",
           NEW new \in {"queued", "running"}, state' = [state EXCEPT ![w] = new],
           UNCHANGED progress
    PROVE  /\ state' \in [Workloads -> {"queued", "running", "completed"}]
           /\ \A v \in Workloads : state'[v] = "completed" <=>
                                     (Work[v] # Endless /\ progress'[v] >= Work[v])
<1> USE DEF ClusterTypeOK
<1>1. \A v \in Workloads : (state'[v] = "completed") <=> (state[v] = "completed")
  OBVIOUS
<1> QED
  BY <1>1

LEMMA ClusterNext == ClusterInv /\ [Next]_vars => ClusterInv'
<1> SUFFICES ASSUME ClusterInv, [Next]_vars PROVE ClusterInv'
  OBVIOUS
<1> USE DEF ClusterInv
<1>l. memory \in Logs /\ durable \in Logs
  BY DEF ClusterTypeOK
<1>1. ASSUME NEW e \in Envelopes, NEW arriving \in SUBSET (Workloads \ arrived), BeginSecond(e, arriving)
      PROVE  ClusterInv'
  <2> USE <1>1 DEF BeginSecond, cluster, logs
  <2>1. ClusterTypeOK'
    BY DEF ClusterTypeOK, LegalCaps, Stages
  <2> QED
    BY <2>1 DEF PlanOK, MemoryOK, DurableOK, Admitted
<1>2. CASE PassOver
  <2> USE <1>2 DEF PassOver, cluster, environment, logs
  <2>1. ClusterTypeOK'
    BY DEF ClusterTypeOK, LegalCaps, Stages
  <2> QED
    BY <2>1 DEF PlanOK, MemoryOK, DurableOK, Admitted
<1>3. CASE Admit
  <2> USE <1>3 DEF Admit, environment, Record
  <2>1. Head(todo) \in Workloads /\ state[Head(todo)] = "queued"
    BY DEF Admissible, ClusterTypeOK
  <2>2. Admission(Head(todo)) \in Changes
    BY <2>1 DEF Changes, Admission
  <2>3. memory' \in Logs /\ memory'.caps = memory.caps /\ memory'.admitted = memory.admitted
            /\ memory'.intent = Admission(Head(todo)) /\ durable' = memory'
    BY <1>l, <2>2, AnnouncedType
  <2>4. /\ state' \in [Workloads -> {"queued", "running", "completed"}]
        /\ \A v \in Workloads : state'[v] = "completed" <=>
                                  (Work[v] # Endless /\ progress'[v] >= Work[v])
    BY <2>1, StateChange
  <2>5. ClusterTypeOK'
    BY <2>3, <2>4 DEF ClusterTypeOK, LegalCaps, Stages
  <2>6. state' = [state EXCEPT ![Head(todo)] = "running"] /\ state \in [Workloads -> {"queued", "running", "completed"}]
    BY DEF ClusterTypeOK
  <2>7. Admitted = Admitted' \ {Head(todo)} /\ state'[Head(todo)] = "running"
    BY <2>1, <2>6 DEF Admitted
  <2>8. MemoryOK'
    BY <2>1, <2>3, <2>7 DEF MemoryOK
  <2> QED
    BY <2>3, <2>5, <2>8 DEF PlanOK, DurableOK
<1>4. CASE AdmissionOutcome
  <2> USE <1>4 DEF AdmissionOutcome, cluster, environment, Record
  <2>1. Head(todo) \in Workloads /\ memory.intent = Admission(Head(todo)) /\ memory.caps = cap
            /\ memory.admitted = Admitted \ {Head(todo)} /\ state[Head(todo)] = "running"
    BY DEF MemoryOK
  <2>2. memory' \in Logs /\ memory'.caps = cap /\ memory'.admitted = (Admitted \ {Head(todo)}) \cup {Head(todo)}
    BY <1>l, <2>1, ConfirmedAdmission
  <2>3. memory'.admitted = Admitted'
    BY <2>1, <2>2 DEF Admitted
  <2>4. ClusterTypeOK'
    BY <2>2 DEF ClusterTypeOK, LegalCaps, Stages
  <2> QED
    BY <2>2, <2>3, <2>4 DEF PlanOK, MemoryOK, DurableOK
<1>5. CASE AdmissionRolledBack
  <2> USE <1>5 DEF AdmissionRolledBack, environment
  <2>1. Head(todo) \in Workloads /\ memory.intent = Admission(Head(todo)) /\ memory.caps = cap
            /\ memory.admitted = Admitted \ {Head(todo)} /\ state[Head(todo)] = "running"
    BY DEF MemoryOK
  <2>2. memory' = memory /\ durable' \in Logs /\ pc' = "aborted"
    BY <1>l, <2>1, ConfirmedAdmission, FailedRow
  <2>3. /\ state' \in [Workloads -> {"queued", "running", "completed"}]
        /\ \A v \in Workloads : state'[v] = "completed" <=>
                                  (Work[v] # Endless /\ progress'[v] >= Work[v])
    BY <2>1, StateChange
  <2>4. ClusterTypeOK'
    BY <1>l, <2>2, <2>3 DEF ClusterTypeOK, LegalCaps, Stages
  <2>5. state' = [state EXCEPT ![Head(todo)] = "queued"] /\ state \in [Workloads -> {"queued", "running", "completed"}]
    BY DEF ClusterTypeOK
  <2>6. Admitted' = Admitted \ {Head(todo)}
    BY <2>1, <2>5 DEF Admitted
  <2> QED
    BY <2>1, <2>2, <2>4, <2>6 DEF PlanOK, MemoryOK, DurableOK
<1>6. CASE Decide
  <2> USE <1>6 DEF Decide, ControlDue, cluster, environment, logs
  <2>1. /\ todo' \in Seq(PowerCaps) 
        /\ \A i \in DOMAIN todo' : /\ ~Protected(todo'[i].workload)
                                   /\ Lawful(todo'[i].workload, todo'[i].value)
    BY DEF Validated, Lawful
  <2>2. PlanOK'
    BY <2>1 DEF PlanOK, Lawful, Protected
  <2>3. ClusterTypeOK'
    BY DEF ClusterTypeOK, LegalCaps, Stages
  <2> QED
    BY <2>2, <2>3 DEF MemoryOK, DurableOK, Admitted
<1>7. CASE PlanRefused
  <2> USE <1>7 DEF PlanRefused, ControlDue, cluster, environment, logs
  <2>1. ClusterTypeOK'
    BY DEF ClusterTypeOK, LegalCaps, Stages
  <2> QED
    BY <2>1 DEF PlanOK, MemoryOK, DurableOK, Admitted
<1>8. CASE Apply
  <2> USE <1>8 DEF Apply, environment, Record
  <2> DEFINE a == Head(todo)
  <2>1. /\ a \in PowerCaps /\ a.workload \in Workloads /\ a.value \in NumberedOrNone
        /\ Lawful(a.workload, a.value)
    BY PlanHead
  <2>2. Action(a) \in Changes
    BY <2>1 DEF Action, Changes, NumberedOrNone
  <2>3. memory' \in Logs /\ memory'.caps = memory.caps /\ memory'.admitted = memory.admitted
            /\ memory'.intent = Action(a) /\ durable' = memory'
    BY <1>l, <2>2, AnnouncedType
  <2>4. memory.caps = cap /\ memory.admitted = Admitted /\ LegalCaps(cap)
            /\ cap \in [Workloads -> NumberedOrNone]
    BY DEF MemoryOK, ClusterTypeOK, NumberedOrNone
  <2>5. cap' = [cap EXCEPT ![a.workload] = a.value] /\ priorCap' = cap[a.workload]
            /\ todo' = todo /\ pc' = "applying" /\ todo # <<>> /\ UNCHANGED <<state, floor>>
    OBVIOUS
  <2> HIDE DEF a
  <2>6. cap' \in [Workloads -> NumberedOrNone] /\ LegalCaps([cap EXCEPT ![a.workload] = a.value])
    BY <2>1, <2>4, <2>5, LawfulCap
  <2>7. LegalCaps(cap)' /\ LegalCaps(memory.caps)'
    BY <2>3, <2>4, <2>5, <2>6 DEF LegalCaps
  <2>8. ClusterTypeOK'
    BY <2>1, <2>3, <2>4, <2>5, <2>6, <2>7 DEF ClusterTypeOK, Stages, NumberedOrNone
  <2>9. MemoryOK'
    <3>1. Head(todo)' = a
      BY <2>5 DEF a
    <3>2. memory'.intent = Action(Head(todo))'
      BY <2>3, <3>1 DEF Action
    <3>3. Admitted' = Admitted
      BY <2>5 DEF Admitted
    <3>4. memory'.caps = cap
      BY <2>3, <2>4
    <3>5. priorCap' = memory'.caps[a.workload]
              /\ cap' = [memory'.caps EXCEPT ![a.workload] = a.value]
      BY <2>5, <3>4
    <3> QED
      BY <2>3, <2>4, <2>5, <2>7, <3>1, <3>2, <3>3, <3>5 DEF MemoryOK
  <2>10. PlanOK'
    BY <2>5 DEF PlanOK, Lawful, Protected
  <2> QED
    BY <2>3, <2>8, <2>9, <2>10 DEF DurableOK
<1>9. CASE ActionOutcome
  <2> USE <1>9 DEF ActionOutcome, cluster, environment, Record
  <2> DEFINE a == Head(todo)
  <2>1. todo # <<>> /\ memory.intent = Action(a) /\ memory.admitted = Admitted
            /\ cap = [memory.caps EXCEPT ![a.workload] = a.value]
    BY DEF MemoryOK
  <2>2. a \in PowerCaps
    BY <2>1, PlanHead
  <2>3. memory' \in Logs /\ memory'.caps = cap /\ memory'.admitted = Admitted /\ durable' = memory'
    BY <1>l, <2>1, <2>2, ConfirmedCap
  <2>4. ClusterTypeOK'
    BY <2>3 DEF ClusterTypeOK, LegalCaps, Stages
  <2>5. Tail(todo) \in Seq(PowerCaps)
            /\ \A i \in DOMAIN Tail(todo) : /\ ~Protected(Tail(todo)[i].workload)
                                            /\ Lawful(Tail(todo)[i].workload, Tail(todo)[i].value)
    BY <2>1, PlanHead
  <2>6. PlanOK'
    BY <2>5 DEF PlanOK, Lawful, Protected
  <2> QED
    BY <2>3, <2>4, <2>6 DEF MemoryOK, DurableOK, Admitted
<1>10. CASE ActionRolledBack
  <2> USE <1>10 DEF ActionRolledBack, environment
  <2> DEFINE a == Head(todo)
  <2>1. /\ todo # <<>> /\ memory.intent = Action(a) /\ memory.admitted = Admitted
        /\ cap = [memory.caps EXCEPT ![a.workload] = a.value]
        /\ priorCap = memory.caps[a.workload] /\ LegalCaps(memory.caps)
    BY DEF MemoryOK
  <2>2. a \in PowerCaps /\ a.workload \in Workloads
    BY <2>1, PlanHead
  <2>3. memory' = memory /\ durable' \in Logs /\ pc' = "aborted"
    BY <1>l, <2>1, <2>2, ConfirmedCap, FailedRow
  <2>4. memory.caps \in [Workloads -> NumberedOrNone]
    BY <1>l DEF Logs, NumberedOrNone
  <2>5. cap' = memory.caps
    BY <2>1, <2>2, <2>4
  <2>6. ClusterTypeOK'
    BY <1>l, <2>1, <2>3, <2>4, <2>5 DEF ClusterTypeOK, LegalCaps, Stages, NumberedOrNone
  <2> QED
    BY <2>1, <2>3, <2>5, <2>6 DEF PlanOK, MemoryOK, DurableOK, Admitted
<1>11. CASE ControlDone
  <2> USE <1>11 DEF ControlDone, cluster, environment, logs
  <2>1. ClusterTypeOK'
    BY DEF ClusterTypeOK, LegalCaps, Stages
  <2> QED
    BY <2>1 DEF PlanOK, MemoryOK, DurableOK, Admitted
<1>12. CASE Advance
  <2> USE <1>12 DEF Advance, SampleDue, logs
  <2>1. progress' \in [Workloads -> Nat]
    BY AdvancedType
  <2>2. state' \in [Workloads -> {"queued", "running", "completed"}]
    BY DEF ClusterTypeOK
  <2>3. \A w \in Workloads : (state'[w] = "queued") <=> (state[w] = "queued")
    BY DEF ClusterTypeOK
  <2>4. ASSUME NEW w \in Workloads
        PROVE  state'[w] = "completed" <=> (Work[w] # Endless /\ progress'[w] >= Work[w])
    <3>1. progress'[w] = Advanced(w)
      OBVIOUS
    <3>2. state[w] # "running" => progress'[w] = progress[w] /\ state'[w] = state[w]
      BY <3>1 DEF Advanced
    <3>3. CASE state[w] = "running"
      BY <3>1, <3>3
    <3>4. CASE state[w] # "running"
      BY <3>2, <3>4 DEF ClusterTypeOK
    <3> QED
      BY <3>3, <3>4
  <2>5. tick' \in 0 .. Interval - 1
    BY ClusterAssumption DEF ClusterTypeOK
  <2>6. ClusterTypeOK'
    BY <2>1, <2>2, <2>4, <2>5 DEF ClusterTypeOK, LegalCaps, Stages
  <2>7. Admitted' = Admitted
    BY <2>3 DEF Admitted
  <2> QED
    BY <2>6, <2>7 DEF PlanOK, MemoryOK, DurableOK
<1>13. CASE RowFails
  <2> USE <1>13 DEF RowFails, cluster, environment, ControlDue, SampleDue
  <2>1. memory' = memory /\ durable' \in Logs /\ pc' = "aborted"
    <3>1. CASE pc = "admit" /\ todo # <<>> /\ Admissible(Head(todo))
                   /\ RecordFails(Announced(memory, Admission(Head(todo))))
      <4>1. Admission(Head(todo)) \in Changes
        BY <3>1 DEF Admissible, ClusterTypeOK, Changes, Admission
      <4> QED
        BY <1>l, <3>1, <4>1, AnnouncedType, FailedRow
    <3>2. CASE pc = "control" /\ todo # <<>> /\ RecordFails(Announced(memory, Action(Head(todo))))
      <4>1. Action(Head(todo)) \in Changes
        BY <3>2, PlanHead DEF Changes, Action, NumberedOrNone
      <4> QED
        BY <1>l, <3>2, <4>1, AnnouncedType, FailedRow
    <3>3. CASE RecordFails(memory)
      BY <1>l, <3>3, FailedRow
    <3> QED
      BY <3>1, <3>2, <3>3
  <2>2. pc \notin {"admitting", "applying"}
    OBVIOUS
  <2>3. ClusterTypeOK'
    BY <1>l, <2>1 DEF ClusterTypeOK, LegalCaps, Stages
  <2> QED
    BY <2>1, <2>2, <2>3 DEF PlanOK, MemoryOK, DurableOK, Admitted
<1>14. CASE UNCHANGED vars
  <2> USE <1>14 DEF vars, cluster, environment, logs
  <2>1. ClusterTypeOK'
    BY DEF ClusterTypeOK, LegalCaps
  <2>2. PlanOK'
    BY DEF PlanOK, Lawful, Protected
  <2>3. MemoryOK'
    BY DEF MemoryOK, Admitted, LegalCaps
  <2> QED
    BY <2>1, <2>2, <2>3 DEF DurableOK
<1> QED
  BY <1>1, <1>2, <1>3, <1>4, <1>5, <1>6, <1>7, <1>8, <1>9, <1>10, <1>11, <1>12, <1>13, <1>14
     DEF Next, Loop, Begin

LEMMA ClusterInvariant == Spec => []ClusterInv
  BY ClusterInit, ClusterNext, PTL DEF Spec

-----------------------------------------------------------------------------
(* The theorems.                                                           *)

\* The simulation is type-correct: caps are at any moment within what their
\* workloads authorize, and completed means that the work is done.
THEOREM ClusterTypeCorrect == Spec => []ClusterTypeOK
<1>1. ClusterInv => ClusterTypeOK
  BY DEF ClusterInv
<1> QED
  BY <1>1, ClusterInvariant, PTL

\* The log in memory tells the cluster's caps and admissions, also after a row
\* that failed (simulator.py:114-116, :169-171).
THEOREM LogExplains == Spec => []LogExplainsCluster
<1>1. ClusterInv => LogExplainsCluster
  <2> SUFFICES ASSUME ClusterInv PROVE LogExplainsCluster
    OBVIOUS
  <2> USE DEF ClusterInv
  <2>l. memory \in Logs
    BY DEF ClusterTypeOK
  <2>1. CASE pc \notin {"admitting", "applying"}
    BY <2>1 DEF MemoryOK, Admitted, LogExplainsCluster
  <2>2. CASE pc = "admitting"
    <3>1. Head(todo) \in Workloads /\ memory.intent = Admission(Head(todo)) /\ memory.caps = cap
            /\ memory.admitted = Admitted \ {Head(todo)} /\ Head(todo) \in Admitted
      BY <2>2 DEF MemoryOK, Admitted
    <3>2. Confirmed(memory).caps = cap
            /\ Confirmed(memory).admitted = (Admitted \ {Head(todo)}) \cup {Head(todo)}
      BY <2>l, <3>1, ConfirmedAdmission
    <3> QED
      BY <2>2, <3>1, <3>2 DEF Admitted, LogExplainsCluster
  <2>3. CASE pc = "applying"
    <3>1. todo # <<>> /\ memory.intent = Action(Head(todo)) /\ memory.admitted = Admitted
            /\ cap = [memory.caps EXCEPT ![Head(todo).workload] = Head(todo).value]
      BY <2>3 DEF MemoryOK
    <3>2. Head(todo) \in PowerCaps
      BY <2>3, <3>1, PlanHead
    <3>3. Confirmed(memory).caps = cap /\ Confirmed(memory).admitted = Admitted
      BY <2>l, <3>1, <3>2, ConfirmedCap
    <3> QED
      BY <2>3, <3>3 DEF Admitted, LogExplainsCluster
  <2> QED
    BY <2>1, <2>2, <2>3
<1> QED
  BY <1>1, ClusterInvariant, PTL

\* What a step changes of the caps: nothing, the announced cap of one
\* unprotected workload, or back to the one before.
LEMMA CapStep ==
    ASSUME ClusterInv, [Next]_vars
    PROVE  \/ cap' = cap
           \/ /\ pc = "control" /\ todo # <<>> /\ Apply
           \/ /\ pc = "applying" /\ ActionRolledBack
<1> USE DEF ClusterInv
<1>1. CASE UNCHANGED vars
  BY <1>1 DEF vars, cluster
<1>2. CASE Next
  BY <1>2 DEF Next, Loop, Begin, BeginSecond, PassOver, Admit, AdmissionOutcome, Decide, PlanRefused,
              Apply, ActionOutcome, ControlDone, Advance, AdmissionRolledBack, ActionRolledBack,
              RowFails, cluster
<1> QED
  BY <1>1, <1>2

\* No protected workload's cap is ever touched.
THEOREM ProtectedSafe == Spec => ProtectedUntouched
<1>1. ClusterInv /\ [Next]_vars => \A w \in Workloads : Protected(w) => cap'[w] = cap[w]
  <2> SUFFICES ASSUME ClusterInv, [Next]_vars, NEW w \in Workloads, Protected(w)
               PROVE  cap'[w] = cap[w]
    OBVIOUS
  <2> USE DEF ClusterInv
  <2>c. cap \in [Workloads -> NumberedOrNone]
    BY DEF ClusterTypeOK, NumberedOrNone
  <2>1. CASE Apply
    <3>1. ~Protected(Head(todo).workload)
      BY <2>1, PlanHead DEF Apply
    <3>2. cap' = [cap EXCEPT ![Head(todo).workload] = Head(todo).value]
      BY <2>1 DEF Apply
    <3> QED
      BY <2>c, <3>1, <3>2
  <2>2. CASE ActionRolledBack
    <3>1. todo # <<>>
      BY <2>2 DEF MemoryOK, ActionRolledBack
    <3>2. ~Protected(Head(todo).workload)
      BY <2>2, <3>1, PlanHead DEF ActionRolledBack
    <3>3. cap' = [cap EXCEPT ![Head(todo).workload] = priorCap]
      BY <2>2 DEF ActionRolledBack
    <3> QED
      BY <2>c, <3>2, <3>3
  <2> QED
    BY <2>1, <2>2, CapStep
<1> QED
  BY <1>1, ClusterInvariant, PTL DEF Spec, ProtectedUntouched

\* Every change of a cap and every admission was announced in the durable log.
THEOREM AnnouncedFirst == Spec => ChangesAreAnnounced
<1> DEFINE CapAnnounced(w) ==
      cap'[w] # cap[w] => \/ durable'.intent = [kind |-> "cap", workload |-> w, value |-> cap'[w]]
                          \/ memory.intent = [kind |-> "cap", workload |-> w, value |-> cap[w]]
    AdmissionAnnounced(w) ==
      (state[w] = "queued" /\ state'[w] # "queued") => durable'.intent = Admission(w)
<1>1. ASSUME ClusterInv, [Next]_vars, NEW w \in Workloads PROVE CapAnnounced(w)
  <2> USE <1>1 DEF ClusterInv
  <2>c. cap \in [Workloads -> NumberedOrNone] /\ memory \in Logs
    BY DEF ClusterTypeOK, NumberedOrNone
  <2>1. CASE pc = "control" /\ todo # <<>> /\ Apply
    <3>1. Head(todo) \in PowerCaps /\ Head(todo).workload \in Workloads
            /\ Head(todo).value \in NumberedOrNone
      BY <2>1, PlanHead
    <3>2. Action(Head(todo)) \in Changes
      BY <3>1 DEF Action, Changes, NumberedOrNone
    <3>3. durable'.intent = Action(Head(todo))
      BY <2>1, <2>c, <3>2, AnnouncedType DEF Apply, Record
    <3>4. cap' = [cap EXCEPT ![Head(todo).workload] = Head(todo).value]
      BY <2>1 DEF Apply
    <3>5. cap'[w] # cap[w] => w = Head(todo).workload /\ cap'[w] = Head(todo).value
      BY <2>c, <3>1, <3>4
    <3> QED
      BY <3>3, <3>5 DEF Action
  <2>2. CASE pc = "applying" /\ ActionRolledBack
    <3>1. todo # <<>> /\ memory.intent = Action(Head(todo))
            /\ cap = [memory.caps EXCEPT ![Head(todo).workload] = Head(todo).value]
      BY <2>2 DEF MemoryOK
    <3>2. Head(todo).workload \in Workloads
      BY <2>2, <3>1, PlanHead
    <3>3. memory.caps \in [Workloads -> NumberedOrNone]
      BY <2>c DEF Logs, NumberedOrNone
    <3>4. cap[Head(todo).workload] = Head(todo).value
      BY <3>1, <3>2, <3>3
    <3>5. cap' = [cap EXCEPT ![Head(todo).workload] = priorCap]
      BY <2>2 DEF ActionRolledBack
    <3>6. cap'[w] # cap[w] => w = Head(todo).workload
      BY <2>c, <3>5
    <3> QED
      BY <3>1, <3>4, <3>6 DEF Action
  <2> QED
    BY <1>1, <2>1, <2>2, CapStep
<1>2. ASSUME ClusterInv, [Next]_vars, NEW w \in Workloads PROVE AdmissionAnnounced(w)
  <2> USE <1>2 DEF ClusterInv
  <2>c. state \in [Workloads -> {"queued", "running", "completed"}] /\ memory \in Logs
    BY DEF ClusterTypeOK
  <2>1. CASE Admit
    <3>1. Head(todo) \in Workloads
      BY <2>1 DEF Admit, Admissible, ClusterTypeOK
    <3>2. Admission(Head(todo)) \in Changes
      BY <3>1 DEF Changes, Admission
    <3>3. durable'.intent = Admission(Head(todo))
      BY <2>1, <2>c, <3>2, AnnouncedType DEF Admit, Record
    <3>4. state' = [state EXCEPT ![Head(todo)] = "running"]
      BY <2>1 DEF Admit
    <3>5. state'[w] # state[w] => w = Head(todo)
      BY <2>c, <3>4
    <3> QED
      BY <3>3, <3>5
  <2>2. CASE AdmissionRolledBack
    <3>1. state' = [state EXCEPT ![Head(todo)] = "queued"]
      BY <2>2 DEF AdmissionRolledBack
    <3> QED
      BY <2>c, <3>1
  <2>3. CASE Advance
    BY <2>3, <2>c DEF Advance
  <2>4. CASE UNCHANGED state
    BY <2>4
  <2> QED
    BY <1>2, <2>1, <2>2, <2>3, <2>4
       DEF Next, Loop, Begin, BeginSecond, PassOver, AdmissionOutcome, Decide, PlanRefused, Apply,
           ActionOutcome, ActionRolledBack, ControlDone, RowFails, cluster, vars
<1>3. ClusterInv /\ [Next]_vars =>
        \A w \in Workloads :
          /\ cap'[w] # cap[w] => \/ durable'.intent = [kind |-> "cap", workload |-> w, value |-> cap'[w]]
                                 \/ memory.intent = [kind |-> "cap", workload |-> w, value |-> cap[w]]
          /\ (state[w] = "queued" /\ state'[w] # "queued") => durable'.intent = Admission(w)
  BY <1>1, <1>2
<1> QED
  BY <1>3, ClusterInvariant, PTL DEF Spec, ChangesAreAnnounced

-----------------------------------------------------------------------------
(***************************************************************************)
(* Loops.  What a loop computes is a recursive function over its turns.    *)
(***************************************************************************)

\* The least number principle.
LEMMA Least ==
    ASSUME NEW T \in SUBSET Nat, T # {}
    PROVE  \E x \in T : \A y \in T : x <= y
<1> DEFINE R == OpToRel(<, Nat)
<1>1. PICK x \in T : \A y \in T : ~(<<y, x>> \in R)
  <2>1. IsWellFoundedOn(R, Nat)
    BY NatLessThanWellFounded
  <2> HIDE DEF R
  <2> QED
    BY <2>1, WFMin
<1>2. \A y \in T : ~(y < x)
  BY <1>1 DEF OpToRel
<1> QED
  BY <1>2

\* f is what a loop of n turns over states of S holds after each of them.
LoopStates(n, S, first, turn, f) ==
    /\ f \in [0..n -> S] /\ f[0] = first
    /\ \A k \in 1..n : f[k] = turn[k][f[k - 1]]

\* Every loop runs.
LEMMA LoopRuns ==
    ASSUME NEW n \in Nat, NEW S, NEW first \in S, NEW turn \in [1..n -> [S -> S]]
    PROVE  \E f : LoopStates(n, S, first, turn, f)
<1> DEFINE Runs(f, m) == /\ f \in [0..m -> S]
                         /\ \A k \in 0..m : f[k] = IF k = 0 THEN first ELSE turn[k][f[k - 1]]
           T == {m \in 0..n : ~\E f : Runs(f, m)}
<1>1. T = {}
  <2> SUFFICES ASSUME T # {} PROVE FALSE
    OBVIOUS
  <2>1. PICK m \in T : \A y \in T : m <= y
    <3>1. T \in SUBSET Nat
      OBVIOUS
    <3> HIDE DEF T
    <3> QED
      BY <3>1, Least
  <2>2. m \in 0..n /\ ~\E f : Runs(f, m)
    BY <2>1
  <2>3. CASE m = 0
    <3>1. Runs([k \in 0..0 |-> first], 0)
      OBVIOUS
    <3> QED
      BY <2>2, <2>3, <3>1
  <2>4. CASE m # 0
    <3>1. m - 1 \in 0..n /\ ~(m <= m - 1)
      BY <2>2, <2>4
    <3>2. PICK f : Runs(f, m - 1)
      BY <2>1, <3>1
    <3> DEFINE g == [k \in 0..m |-> IF k = m THEN turn[m][f[m - 1]] ELSE f[k]]
    <3>3. turn[m] \in [S -> S] /\ turn[m][f[m - 1]] \in S
      BY <2>2, <2>4, <3>2
    <3>4. g \in [0..m -> S]
      BY <2>2, <3>2, <3>3
    <3>5. ASSUME NEW k \in 0..m
          PROVE  g[k] = IF k = 0 THEN first ELSE turn[k][g[k - 1]]
      <4>1. CASE k = m
        <5>1. k # 0 /\ k - 1 \in 0..m /\ k - 1 # m
          BY <2>2, <2>4, <4>1
        <5> QED
          BY <4>1, <5>1
      <4>2. CASE k # m
        <5>1. k \in 0 .. m - 1 /\ (k # 0 => k - 1 \in 0..m /\ k - 1 # m)
          BY <2>2, <4>2
        <5>2. f[k] = IF k = 0 THEN first ELSE turn[k][f[k - 1]]
          BY <3>2, <5>1
        <5> QED
          BY <4>2, <5>1, <5>2
      <4> QED
        BY <4>1, <4>2
    <3> HIDE DEF g
    <3>6. Runs(g, m)
      BY <3>4, <3>5
    <3> QED
      BY <2>2, <3>6
  <2> QED
    BY <2>3, <2>4
<1>2. PICK f : Runs(f, n)
  BY <1>1
<1>3. f[0] = first /\ \A k \in 1..n : f[k] = turn[k][f[k - 1]]
  BY <1>2
<1>4. LoopStates(n, S, first, turn, f)
  BY <1>2, <1>3 DEF LoopStates
<1> QED
  BY <1>4

\* What holds before a loop and is kept by every turn holds after all turns.
LEMMA LoopKeeps ==
    ASSUME NEW n \in Nat, NEW good, 0 \in good,
           \A k \in 1..n : k - 1 \in good => k \in good
    PROVE  \A k \in 0..n : k \in good
<1> DEFINE T == {k \in 0..n : k \notin good}
<1> SUFFICES ASSUME T # {} PROVE FALSE
  OBVIOUS
<1>1. PICK m \in T : \A y \in T : m <= y
  <2>1. T \in SUBSET Nat
    OBVIOUS
  <2> HIDE DEF T
  <2> QED
    BY <2>1, Least
<1>2. m # 0
  BY <1>1
<1>3. m - 1 \in 0..n /\ m \in 1..n /\ ~(m <= m - 1)
  BY <1>1, <1>2
<1> QED
  BY <1>1, <1>3

-----------------------------------------------------------------------------
(* Totals over the workloads.                                              *)

\* The running total of Total, which ends in it.
Sums(watts, f) ==
    /\ f \in [0 .. Len(Names) -> Int] /\ f[0] = 0
    /\ \A k \in 1 .. Len(Names) : f[k] = f[k - 1] + watts[Names[k]]
    /\ Total(watts) = f[Len(Names)]

LEMMA NamesListed ==
    /\ Len(Names) \in Nat /\ DOMAIN Names = 1 .. Len(Names)
    /\ \A k \in 1 .. Len(Names) : Names[k] \in Workloads
    /\ \A w \in Workloads : \E k \in 1 .. Len(Names) : Names[k] = w
    /\ \A i, j \in 1 .. Len(Names) : Names[i] = Names[j] => i = j
<1>1. Names \in Seq(Workloads) /\ \A i, j \in DOMAIN Names : Names[i] = Names[j] => i = j
  BY ClusterAssumption DEF IsInjective
<1>2. Workloads = {Names[k] : k \in DOMAIN Names}
  BY DEF Workloads, Range
<1>3. Len(Names) \in Nat /\ DOMAIN Names = 1 .. Len(Names)
  BY <1>1
<1> QED
  BY <1>1, <1>2, <1>3

LEMMA TotalRuns ==
    ASSUME NEW watts \in [Workloads -> Int]
    PROVE  \E f : Sums(watts, f)
<1> DEFINE n == Len(Names)
           turn == [k \in 1..n |-> [sum \in Int |-> sum + watts[Names[k]]]]
           IsSum(f) == f = [k \in 0..n |-> IF k = 0 THEN 0 ELSE f[k - 1] + watts[Names[k]]]
<1>1. n \in Nat /\ turn \in [1..n -> [Int -> Int]]
  BY NamesListed
<1>2. PICK f : LoopStates(n, Int, 0, turn, f)
  <2>1. 0 \in Int
    OBVIOUS
  <2> HIDE DEF turn, n
  <2> QED
    BY <1>1, <2>1, LoopRuns
<1>3. f \in [0..n -> Int] /\ f[0] = 0 /\ \A k \in 1..n : f[k] = turn[k][f[k - 1]]
  <2> HIDE DEF turn, n
  <2> QED
    BY <1>2 DEF LoopStates
<1>4. \A k \in 1..n : k - 1 \in 0..n /\ f[k - 1] \in Int
  <2> HIDE DEF turn, n
  <2> QED
    BY <1>1, <1>3
<1>5. \A k \in 0..n : f[k] = IF k = 0 THEN 0 ELSE f[k - 1] + watts[Names[k]]
  <2>1. \A k \in 1..n : turn[k][f[k - 1]] = f[k - 1] + watts[Names[k]]
    BY <1>4
  <2> HIDE DEF turn, n
  <2> QED
    BY <1>1, <1>3, <2>1
<1>6. IsSum(f)
  <2> HIDE DEF turn, n
  <2> QED
    BY <1>3, <1>5
<1> DEFINE g == CHOOSE f_ : IsSum(f_)
<1>7. IsSum(g)
  <2> HIDE DEF IsSum
  <2> QED
    BY <1>6
<1>8. Total(watts) = g[n]
  BY DEF Total
<1> HIDE DEF g
<1>9. DOMAIN g = 0..n /\ \A k \in 0..n : g[k] = IF k = 0 THEN 0 ELSE g[k - 1] + watts[Names[k]]
  BY <1>7
<1>10. \A k \in 0..n : g[k] \in Int
  <2> DEFINE good == {k \in 0..n : g[k] \in Int}
  <2>1. 0 \in good
    BY <1>1, <1>9
  <2>2. \A k \in 1..n : k - 1 \in good => k \in good
    BY <1>1, <1>9, NamesListed
  <2>3. \A k \in 0..n : k \in good
    <3> HIDE DEF good
    <3> QED
      BY <1>1, <2>1, <2>2, LoopKeeps
  <2> QED
    BY <2>3
<1>11. g = [k \in 0..n |-> g[k]]
  BY <1>7
<1>12. \A k \in 1..n : g[k] = g[k - 1] + watts[Names[k]]
  BY <1>1, <1>9
<1>13. g \in [0..n -> Int]
  BY <1>10, <1>11
<1> HIDE DEF IsSum, turn
<1>14. Sums(watts, g)
  BY <1>1, <1>8, <1>9, <1>12, <1>13 DEF Sums
<1> QED
  BY <1>14

LEMMA TotalType ==
    ASSUME NEW watts \in [Workloads -> Int]
    PROVE  Total(watts) \in Int
  BY TotalRuns, NamesListed DEF Sums

LEMMA TotalAdds ==
    ASSUME NEW a \in [Workloads -> Int], NEW b \in [Workloads -> Int],
           NEW c \in [Workloads -> Int], \A w \in Workloads : c[w] = a[w] + b[w]
    PROVE  Total(c) = Total(a) + Total(b)
<1>1. PICK f, g, h : Sums(a, f) /\ Sums(b, g) /\ Sums(c, h)
  BY TotalRuns
<1> DEFINE n == Len(Names)
           good == {k \in 0..n : h[k] = f[k] + g[k]}
<1>2. n \in Nat
  BY NamesListed
<1>3. 0 \in good
  BY <1>1, <1>2 DEF Sums
<1>4. ASSUME NEW k \in 1..n, k - 1 \in good
      PROVE  k \in good
  <2>1. Names[k] \in Workloads /\ k \in 0..n /\ k - 1 \in 0..n
    BY NamesListed
  <2>2. {f[k - 1], g[k - 1], h[k - 1], a[Names[k]], b[Names[k]]} \subseteq Int
    BY <1>1, <2>1 DEF Sums
  <2>3. /\ f[k] = f[k - 1] + a[Names[k]] /\ g[k] = g[k - 1] + b[Names[k]]
        /\ h[k] = h[k - 1] + c[Names[k]]
    BY <1>1 DEF Sums
  <2>4. c[Names[k]] = a[Names[k]] + b[Names[k]] /\ h[k - 1] = f[k - 1] + g[k - 1]
    BY <1>4, <2>1
  <2> QED
    BY <2>1, <2>2, <2>3, <2>4
<1>5. n \in good
  <2>1. \A k \in 1..n : k - 1 \in good => k \in good
    BY <1>4
  <2> HIDE DEF good, n
  <2>2. \A k \in 0..n : k \in good
    BY <1>2, <1>3, <2>1, LoopKeeps
  <2> QED
    BY <1>2, <2>2
<1> QED
  BY <1>1, <1>5 DEF Sums

LEMMA TotalGrows ==
    ASSUME NEW a \in [Workloads -> Int], NEW b \in [Workloads -> Int],
           \A w \in Workloads : a[w] <= b[w]
    PROVE  Total(a) <= Total(b)
<1>1. PICK f, g : Sums(a, f) /\ Sums(b, g)
  BY TotalRuns
<1> DEFINE n == Len(Names)
           good == {k \in 0..n : f[k] <= g[k]}
<1>2. n \in Nat
  BY NamesListed
<1>3. 0 \in good
  BY <1>1, <1>2 DEF Sums
<1>4. ASSUME NEW k \in 1..n, k - 1 \in good
      PROVE  k \in good
  <2>1. Names[k] \in Workloads /\ k \in 0..n /\ k - 1 \in 0..n
    BY NamesListed
  <2>2. {f[k - 1], g[k - 1], a[Names[k]], b[Names[k]]} \subseteq Int
    BY <1>1, <2>1 DEF Sums
  <2>3. f[k] = f[k - 1] + a[Names[k]] /\ g[k] = g[k - 1] + b[Names[k]]
    BY <1>1 DEF Sums
  <2>4. a[Names[k]] <= b[Names[k]] /\ f[k - 1] <= g[k - 1]
    BY <1>4, <2>1
  <2> QED
    BY <2>1, <2>2, <2>3, <2>4
<1>5. n \in good
  <2>1. \A k \in 1..n : k - 1 \in good => k \in good
    BY <1>4
  <2> HIDE DEF good, n
  <2>2. \A k \in 0..n : k \in good
    BY <1>2, <1>3, <2>1, LoopKeeps
  <2> QED
    BY <1>2, <2>2
<1> QED
  BY <1>1, <1>5 DEF Sums

LEMMA TotalOfOne ==
    ASSUME NEW v \in Workloads, NEW x \in Int
    PROVE  Total([w \in Workloads |-> IF w = v THEN x ELSE 0]) = x
<1> DEFINE one == [w \in Workloads |-> IF w = v THEN x ELSE 0]
           n == Len(Names)
<1>1. one \in [Workloads -> Int]
  OBVIOUS
<1>2. PICK f : Sums(one, f)
  <2> HIDE DEF one
  <2> QED
    BY <1>1, TotalRuns
<1>3. n \in Nat
  BY NamesListed
<1>4. PICK j \in 1..n : Names[j] = v
  BY NamesListed
<1> DEFINE good == {k \in 0..n : f[k] = IF k < j THEN 0 ELSE x}
<1>5. 0 \in good
  BY <1>2, <1>3 DEF Sums
<1>6. ASSUME NEW k \in 1..n, k - 1 \in good
      PROVE  k \in good
  <2>1. Names[k] \in Workloads /\ k \in 0..n /\ k - 1 \in 0..n
    BY NamesListed
  <2>2. one[Names[k]] = IF k = j THEN x ELSE 0
    BY <1>4, <2>1, NamesListed
  <2>3. f[k] = f[k - 1] + one[Names[k]]
    BY <1>2 DEF Sums
  <2>4. f[k - 1] = IF k - 1 < j THEN 0 ELSE x
    BY <1>6
  <2> QED
    BY <2>1, <2>2, <2>3, <2>4
<1>7. n \in good
  <2>1. \A k \in 1..n : k - 1 \in good => k \in good
    BY <1>6
  <2> HIDE DEF good, n
  <2>2. \A k \in 0..n : k \in good
    BY <1>3, <1>5, <2>1, LoopKeeps
  <2> QED
    BY <1>3, <2>2
<1> QED
  BY <1>2, <1>3, <1>7 DEF Sums

-----------------------------------------------------------------------------
(* The controller's order of its candidates: each of them is in it.        *)

Lists(s, S) == s \in Seq(S) /\ \A w \in S : \E i \in DOMAIN s : s[i] = w

LEMMA OfPriorityLists ==
    ASSUME NEW S \in SUBSET Workloads, NEW P
    PROVE  Lists(OfPriority(S, P), {w \in S : Priority[w] \in P})
<1> DEFINE n == Len(Names)
           C == {w \in S : Priority[w] \in P}
           With(s, k) == IF Names[k] \in S /\ Priority[Names[k]] \in P THEN Append(s, Names[k])
                         ELSE s
           turn == [k \in 1..n |-> [s \in Seq(C) |-> With(s, k)]]
           IsChosen(f) == f = [k \in 0..n |-> IF k = 0 THEN <<>> ELSE With(f[k - 1], k)]
<1>1. n \in Nat
  BY NamesListed
<1>2. \A k \in 1..n, s \in Seq(C) : With(s, k) \in Seq(C)
  BY NamesListed
<1>3. turn \in [1..n -> [Seq(C) -> Seq(C)]]
  <2> HIDE DEF C, With
  <2> QED
    BY <1>2
<1>4. PICK f : LoopStates(n, Seq(C), <<>>, turn, f)
  <2>1. <<>> \in Seq(C)
    OBVIOUS
  <2> HIDE DEF turn, n, C
  <2> QED
    BY <1>1, <1>3, <2>1, LoopRuns
<1>5. f \in [0..n -> Seq(C)] /\ f[0] = <<>> /\ \A k \in 1..n : f[k] = turn[k][f[k - 1]]
  <2> HIDE DEF turn, n, C
  <2> QED
    BY <1>4 DEF LoopStates
<1>6. \A k \in 0..n : f[k] = IF k = 0 THEN <<>> ELSE With(f[k - 1], k)
  <2>1. \A k \in 1..n : k - 1 \in 0..n /\ f[k - 1] \in Seq(C)
    <3> HIDE DEF turn, n, C
    <3> QED
      BY <1>1, <1>5
  <2>2. \A k \in 1..n : turn[k][f[k - 1]] = With(f[k - 1], k)
    <3> HIDE DEF C, With
    <3> QED
      BY <2>1
  <2> HIDE DEF turn, n, With
  <2> QED
    BY <1>1, <1>5, <2>2
<1>7. IsChosen(f)
  <2> HIDE DEF n, With
  <2> QED
    BY <1>5, <1>6
<1> DEFINE g == CHOOSE f_ : IsChosen(f_)
<1>8. IsChosen(g)
  <2> HIDE DEF IsChosen
  <2> QED
    BY <1>7
<1>9. OfPriority(S, P) = g[n]
  BY DEF OfPriority
<1> HIDE DEF g
<1>10. \A k \in 0..n : g[k] = IF k = 0 THEN <<>> ELSE With(g[k - 1], k)
  <2> HIDE DEF With
  <2> QED
    BY <1>8
<1> DEFINE good == {k \in 0..n : /\ g[k] \in Seq(C)
                                 /\ \A j \in 1..k : Names[j] \in C =>
                                      \E i \in DOMAIN g[k] : g[k][i] = Names[j]}
<1>11. 0 \in good
  <2>1. g[0] = <<>> /\ 0 \in 0..n
    BY <1>1, <1>10
  <2>2. <<>> \in Seq(C)
    OBVIOUS
  <2>3. \A j \in 1..0 : FALSE
    OBVIOUS
  <2> HIDE DEF C, With, n
  <2> QED
    BY <2>1, <2>2, <2>3
<1>12. ASSUME NEW k \in 1..n, k - 1 \in good
       PROVE  k \in good
  <2>1. k \in 0..n /\ k - 1 \in 0..n /\ g[k] = With(g[k - 1], k) /\ g[k - 1] \in Seq(C)
    BY <1>1, <1>10, <1>12
  <2>2. \A j \in 1 .. k - 1 : Names[j] \in C => \E i \in DOMAIN g[k - 1] : g[k - 1][i] = Names[j]
    BY <1>12
  <2>3. CASE Names[k] \in C
    <3>1. g[k] = Append(g[k - 1], Names[k])
      BY <2>1, <2>3
    <3>2. /\ g[k] \in Seq(C) /\ DOMAIN g[k - 1] \subseteq DOMAIN g[k]
          /\ \A i \in DOMAIN g[k - 1] : g[k][i] = g[k - 1][i]
          /\ Len(g[k - 1]) + 1 \in DOMAIN g[k] /\ g[k][Len(g[k - 1]) + 1] = Names[k]
      <4> HIDE DEF C, With, n
      <4> QED
        BY <2>1, <2>3, <3>1
    <3>3. \A j \in 1..k : j \in 1 .. k - 1 \/ j = k
      BY <2>1
    <3> HIDE DEF C, With, n
    <3> QED
      BY <2>1, <2>2, <3>2, <3>3
  <2>4. CASE Names[k] \notin C
    <3>1. g[k] = g[k - 1]
      BY <2>1, <2>4
    <3>2. \A j \in 1..k : j \in 1 .. k - 1 \/ j = k
      BY <2>1
    <3> HIDE DEF C, With, n
    <3> QED
      BY <2>1, <2>2, <2>4, <3>1, <3>2
  <2> QED
    BY <2>3, <2>4
<1>13. n \in good
  <2>1. \A k \in 1..n : k - 1 \in good => k \in good
    BY <1>12
  <2> HIDE DEF good, n
  <2>2. \A k \in 0..n : k \in good
    BY <1>1, <1>11, <2>1, LoopKeeps
  <2> QED
    BY <1>1, <2>2
<1>14. \A w \in C : \E j \in 1..n : Names[j] = w
  BY NamesListed
<1> HIDE DEF C, n
<1>15. Lists(g[n], C)
  BY <1>13, <1>14 DEF Lists
<1> QED
  BY <1>9, <1>15 DEF C

\* One list after another.
LEMMA ListsJoin ==
    ASSUME NEW S, NEW T, NEW s, NEW t, Lists(s, S), Lists(t, T)
    PROVE  Lists(s \o t, S \cup T)
<1>1. s \in Seq(S \cup T) /\ t \in Seq(S \cup T)
  BY DEF Lists
<1>2. /\ s \o t \in Seq(S \cup T) /\ Len(s) \in Nat /\ Len(t) \in Nat
      /\ DOMAIN s = 1 .. Len(s) /\ DOMAIN t = 1 .. Len(t)
      /\ DOMAIN (s \o t) = 1 .. Len(s) + Len(t)
      /\ \A i \in 1 .. Len(s) : (s \o t)[i] = s[i]
      /\ \A i \in 1 .. Len(t) : (s \o t)[Len(s) + i] = t[i]
  BY <1>1
<1>3. ASSUME NEW w \in S
      PROVE  \E i \in DOMAIN (s \o t) : (s \o t)[i] = w
  BY <1>2 DEF Lists
<1>4. ASSUME NEW w \in T
      PROVE  \E i \in DOMAIN (s \o t) : (s \o t)[i] = w
  <2>1. PICK i \in 1 .. Len(t) : t[i] = w
    BY <1>2 DEF Lists
  <2>2. Len(s) + i \in 1 .. Len(s) + Len(t)
    BY <1>2
  <2> QED
    BY <1>2, <2>1, <2>2
<1> QED
  BY <1>2, <1>3, <1>4 DEF Lists

LEMMA OrdersList ==
    ASSUME NEW S \in SUBSET Workloads
    PROVE  Lists(OpportunisticFirst(S), S) /\ Lists(OpportunisticLast(S), S)
<1> DEFINE A == {w \in S : Priority[w] \in {"opportunistic"}}
           B == {w \in S : Priority[w] \in {"critical", "normal"}}
<1>1. A \cup B = S /\ B \cup A = S
  BY ClusterAssumption
<1>2. /\ Lists(OfPriority(S, {"opportunistic"}), A)
      /\ Lists(OfPriority(S, {"critical", "normal"}), B)
  BY OfPriorityLists
<1> HIDE DEF A, B
<1> QED
  BY <1>1, <1>2, ListsJoin DEF OpportunisticFirst, OpportunisticLast

-----------------------------------------------------------------------------
(* What a plan leaves of the caps and the power.                           *)

Distinct(plan) ==
    \A i, j \in DOMAIN plan : plan[i].workload = plan[j].workload => i = j

\* The draw an action leaves its workload with.
Leaves(action) == IF action.value = Uncapped THEN Nominal[action.workload] ELSE action.value

\* Every workload's draw when the plan is carried out.
After(plan) ==
    [w \in Workloads |->
        IF \E i \in DOMAIN plan : plan[i].workload = w
        THEN Leaves(plan[CHOOSE i \in DOMAIN plan : plan[i].workload = w])
        ELSE Draw(w)]

PowerAt(draw) == [w \in Workloads |-> IF w \in Running THEN Gpus[w] * draw[w] ELSE 0]

RegainedAt(draw) ==
    [w \in Workloads |-> IF w \in Cappable /\ draw[w] > floor[w]
                         THEN Gpus[w] * Min({RecoveryStep, draw[w] - floor[w]}) ELSE 0]

\* ExcessIsAccountedFor of these draws, after a step for this reason.
AccountedAs(why, draw) ==
    IF why = "rate_limited_recovery"
    THEN Facility(Total(PowerAt(draw))) - Target <= Cooling * Total(RegainedAt(draw))
    ELSE Facility(Total(PowerAt(draw))) > Hundredths(envelope) =>
             \A w \in Cappable : draw[w] <= floor[w]

Accounted(draw) == AccountedAs(reason, draw)

\* From the decision on, the excess is accounted for in what the rest of the
\* plan leads to, and after the plan in what there is.
PlanAccounts ==
    /\ pc \in {"control", "applying"} => Distinct(todo) /\ Accounted(After(todo))
    /\ pc = "sampling" => Accounted(After(<<>>))

Draws == [Workloads -> Nat]

LEMMA DrawType ==
    ASSUME ClusterTypeOK
    PROVE  /\ \A w \in Workloads : Draw(w) \in Nat
           /\ After(<<>>) \in Draws /\ \A w \in Workloads : After(<<>>)[w] = Draw(w)
           /\ FacilityPower = Facility(Total(PowerAt(After(<<>>))))
<1>1. \A w \in Workloads : Draw(w) \in Nat
  BY ClusterAssumption DEF ClusterTypeOK, Draw
<1>2. After(<<>>) = [w \in Workloads |-> Draw(w)]
  BY DEF After
<1>3. PowerAt(After(<<>>)) = [w \in Workloads |-> IF w \in Running THEN Gpus[w] * Draw(w) ELSE 0]
  BY <1>2 DEF PowerAt
<1> QED
  BY <1>1, <1>2, <1>3 DEF Draws, FacilityPower

\* A plan leaves the workloads of its actions with these, all others as they are.
LEMMA AfterPlan ==
    ASSUME NEW plan, Distinct(plan), \A i \in DOMAIN plan : plan[i].workload \in Workloads
    PROVE  /\ \A i \in DOMAIN plan : After(plan)[plan[i].workload] = Leaves(plan[i])
           /\ \A w \in Workloads : (\A i \in DOMAIN plan : plan[i].workload # w) =>
                                       After(plan)[w] = Draw(w)
<1>1. ASSUME NEW i \in DOMAIN plan
      PROVE  After(plan)[plan[i].workload] = Leaves(plan[i])
  <2>1. (CHOOSE j \in DOMAIN plan : plan[j].workload = plan[i].workload) = i
    BY DEF Distinct
  <2> QED
    BY <2>1 DEF After
<1> QED
  BY <1>1 DEF After

LEMMA AfterOneMore ==
    ASSUME ClusterTypeOK, NEW plan \in Seq(PowerCaps), NEW action \in PowerCaps,
           Distinct(Append(plan, action))
    PROVE  /\ Distinct(plan)
           /\ After(plan)[action.workload] = Draw(action.workload)
           /\ After(Append(plan, action)) = [After(plan) EXCEPT ![action.workload] = Leaves(action)]
<1> DEFINE longer == Append(plan, action)
           n == Len(plan)
<1>1. /\ n \in Nat /\ DOMAIN plan = 1..n /\ DOMAIN longer = 1 .. n + 1
      /\ \A i \in 1..n : longer[i] = plan[i] /\ plan[i].workload \in Workloads
      /\ longer[n + 1] = action /\ action.workload \in Workloads
  <2>1. /\ n \in Nat /\ DOMAIN plan = 1..n /\ DOMAIN longer = 1 .. n + 1
        /\ \A i \in 1..n : longer[i] = plan[i] /\ plan[i] \in PowerCaps
        /\ longer[n + 1] = action
    OBVIOUS
  <2>2. \A a \in PowerCaps : a.workload \in Workloads
    BY DEF PowerCaps
  <2> HIDE DEF longer, n
  <2> QED
    BY <2>1, <2>2
<1>2. \A i, j \in 1 .. n + 1 : longer[i].workload = longer[j].workload => i = j
  BY <1>1 DEF Distinct
<1> HIDE DEF longer, n
<1>3. Distinct(plan)
  BY <1>1, <1>2 DEF Distinct
<1>4. \A i \in 1..n : plan[i].workload # action.workload
  BY <1>1, <1>2
<1>5. \A i \in DOMAIN longer : longer[i].workload \in Workloads
  BY <1>1
<1>6. Distinct(longer)
  BY DEF longer
<1>7. ASSUME NEW w \in Workloads
      PROVE  After(longer)[w] = IF w = action.workload THEN Leaves(action) ELSE After(plan)[w]
  <2>1. CASE w = action.workload
    <3>1. n + 1 \in DOMAIN longer
      BY <1>1
    <3> QED
      BY <1>1, <1>5, <1>6, <2>1, <3>1, AfterPlan
  <2>2. CASE \E i \in 1..n : plan[i].workload = w
    <3>1. PICK i \in 1..n : plan[i].workload = w
      BY <2>2
    <3>2. i \in DOMAIN longer /\ longer[i] = plan[i]
      BY <1>1
    <3>3. After(longer)[w] = Leaves(plan[i])
      BY <1>5, <1>6, <3>1, <3>2, AfterPlan
    <3>4. After(plan)[w] = Leaves(plan[i])
      BY <1>1, <1>3, <3>1, AfterPlan
    <3> QED
      BY <1>4, <3>1, <3>3, <3>4
  <2>3. CASE w # action.workload /\ \A i \in 1..n : plan[i].workload # w
    <3>1. \A i \in DOMAIN longer : longer[i].workload # w
      BY <1>1, <2>3
    <3>2. After(longer)[w] = Draw(w)
      BY <1>5, <1>6, <3>1, AfterPlan
    <3>3. After(plan)[w] = Draw(w)
      BY <1>1, <1>3, <2>3, AfterPlan
    <3> QED
      BY <2>3, <3>2, <3>3
  <2> QED
    BY <2>1, <2>2, <2>3
<1>8. After(longer) = [After(plan) EXCEPT ![action.workload] = Leaves(action)]
  <2>1. After(longer) = [w \in Workloads |-> After(longer)[w]]
    BY DEF After
  <2>2. After(plan) = [w \in Workloads |-> After(plan)[w]]
    BY DEF After
  <2> QED
    BY <1>7, <2>1, <2>2
<1> QED
  BY <1>1, <1>3, <1>4, <1>8, AfterPlan DEF longer

\* The power of the facility follows one draw that changes.
LEMMA PowerMoves ==
    ASSUME NEW draw \in Draws, NEW v \in Running, NEW watts \in Nat
    PROVE  LET moved == [draw EXCEPT ![v] = watts] IN
           /\ moved \in Draws
           /\ Total(PowerAt(draw)) \in Int
           /\ Total(PowerAt(moved)) = Total(PowerAt(draw)) + Gpus[v] * (watts - draw[v])
<1> DEFINE moved == [draw EXCEPT ![v] = watts]
           x == Gpus[v] * (watts - draw[v])
           one == [w \in Workloads |-> IF w = v THEN x ELSE 0]
<1>1. v \in Workloads /\ moved \in Draws
  BY DEF Running, Draws
<1>2. \A a \in Nat, b \in Int : a * b \in Int
  OBVIOUS
<1>3. x \in Int
  <2>1. Gpus[v] \in Nat /\ watts - draw[v] \in Int
    BY <1>1, ClusterAssumption DEF Draws
  <2> QED
    BY <1>2, <2>1
<1>4. \A d \in Draws : PowerAt(d) \in [Workloads -> Int]
  <2> TAKE d \in Draws
  <2>1. \A w \in Workloads : Gpus[w] * d[w] \in Int
    BY <1>2, ClusterAssumption DEF Draws
  <2> QED
    BY <2>1 DEF PowerAt
<1>5. one \in [Workloads -> Int]
  <2> HIDE DEF x
  <2> QED
    BY <1>3
<1>6. ASSUME NEW w \in Workloads
      PROVE  PowerAt(moved)[w] = PowerAt(draw)[w] + one[w]
  <2>1. Gpus[w] \in Nat /\ draw[w] \in Nat /\ moved[w] = IF w = v THEN watts ELSE draw[w]
    BY <1>1, ClusterAssumption DEF Draws
  <2>2. CASE w = v
    <3>1. \A g, a, b \in Nat : g * b = g * a + g * (b - a)
      OBVIOUS
    <3>2. Gpus[v] * watts = Gpus[v] * draw[v] + x
      BY <2>1, <2>2, <3>1
    <3> HIDE DEF x
    <3> QED
      BY <2>1, <2>2, <3>2 DEF PowerAt
  <2>3. CASE w # v
    <3>1. PowerAt(draw)[w] \in Int
      BY <1>4
    <3>2. PowerAt(moved)[w] = PowerAt(draw)[w]
      BY <2>1, <2>3 DEF PowerAt
    <3> QED
      BY <2>3, <3>1, <3>2
  <2> QED
    BY <2>2, <2>3
<1>7. Total(one) = x
  <2> HIDE DEF x
  <2> QED
    BY <1>1, <1>3, TotalOfOne
<1> HIDE DEF one, moved, x
<1>8. Total(PowerAt(moved)) = Total(PowerAt(draw)) + x
  BY <1>1, <1>4, <1>5, <1>6, <1>7, TotalAdds
<1> QED
  BY <1>1, <1>4, <1>8, TotalType DEF moved, x

-----------------------------------------------------------------------------
(* The controller's loop, turn by turn.                                    *)

Plans == [watts : Nat, actions : Seq(PowerCaps)]

Turn(plan, w) == IF Excess > 0 THEN Reduce(plan, w) ELSE Recover(plan, w)

\* The plans of PlanAlong after each turn.
PlanStates(s, watts, f) ==
    /\ f \in [0 .. Len(s) -> Plans] /\ f[0] = [watts |-> watts, actions |-> <<>>]
    /\ \A k \in 1 .. Len(s) : f[k] = Turn(f[k - 1], s[k])
    /\ PlanAlong(s, watts) = f[Len(s)].actions

LEMMA PlanRuns ==
    ASSUME NEW S, NEW s \in Seq(S), NEW watts \in Nat,
           \A w \in S, plan \in Plans : Turn(plan, w) \in Plans
    PROVE  \E f : PlanStates(s, watts, f)
<1> DEFINE n == Len(s)
           first == [watts |-> watts, actions |-> <<>>]
           turn == [k \in 1..n |-> [plan \in Plans |-> Turn(plan, s[k])]]
           IsPlan(f) == f = [k \in 0..n |-> IF k = 0 THEN [watts |-> watts, actions |-> <<>>]
                                            ELSE IF Excess > 0 THEN Reduce(f[k - 1], s[k])
                                            ELSE Recover(f[k - 1], s[k])]
<1>1. n \in Nat /\ \A k \in 1..n : s[k] \in S
  OBVIOUS
<1>2. turn \in [1..n -> [Plans -> Plans]] /\ first \in Plans
  <2>1. <<>> \in Seq(PowerCaps)
    OBVIOUS
  <2>2. first \in Plans
    BY <2>1 DEF Plans
  <2> HIDE DEF n
  <2> QED
    BY <1>1, <2>2
<1> HIDE DEF n
<1>3. PICK f : LoopStates(n, Plans, first, turn, f)
  <2> HIDE DEF turn, first
  <2> QED
    BY <1>1, <1>2, LoopRuns
<1>4. f \in [0..n -> Plans] /\ f[0] = first /\ \A k \in 1..n : f[k] = turn[k][f[k - 1]]
  <2> HIDE DEF turn, first
  <2> QED
    BY <1>3 DEF LoopStates
<1>5. \A k \in 1..n : k - 1 \in 0..n /\ f[k - 1] \in Plans
  <2> HIDE DEF turn, first
  <2> QED
    BY <1>1, <1>4
<1>6. \A k \in 1..n : f[k] = Turn(f[k - 1], s[k])
  <2>1. \A k \in 1..n : turn[k][f[k - 1]] = Turn(f[k - 1], s[k])
    BY <1>5
  <2> HIDE DEF turn
  <2> QED
    BY <1>4, <2>1
<1>7. IsPlan(f)
  <2>1. \A k \in 0..n : k = 0 \/ k \in 1..n
    BY <1>1
  <2>2. \A k \in 0..n : f[k] = IF k = 0 THEN [watts |-> watts, actions |-> <<>>]
                                ELSE IF Excess > 0 THEN Reduce(f[k - 1], s[k])
                                ELSE Recover(f[k - 1], s[k])
    BY <1>4, <1>6, <2>1 DEF Turn
  <2>3. f = [k \in 0..n |-> f[k]]
    BY <1>4
  <2> QED
    BY <2>2, <2>3
<1> DEFINE g == CHOOSE f_ : IsPlan(f_)
<1>8. IsPlan(g)
  <2> HIDE DEF IsPlan
  <2> QED
    BY <1>7
<1>9. PlanAlong(s, watts) = g[n].actions
  BY DEF PlanAlong, n
<1> HIDE DEF g
<1>10. /\ DOMAIN g = 0..n /\ g = [k \in 0..n |-> g[k]]
       /\ \A k \in 0..n : g[k] = IF k = 0 THEN first ELSE Turn(g[k - 1], s[k])
  BY <1>8 DEF Turn
<1> HIDE DEF first
<1>11. \A k \in 0..n : g[k] \in Plans
  <2> DEFINE good == {k \in 0..n : g[k] \in Plans}
  <2>1. 0 \in good
    BY <1>1, <1>2, <1>10
  <2>2. ASSUME NEW k \in 1..n, k - 1 \in good
        PROVE  k \in good
    <3>1. k \in 0..n /\ k # 0 /\ s[k] \in S
      BY <1>1
    <3>2. Turn(g[k - 1], s[k]) \in Plans
      BY <2>2, <3>1
    <3> QED
      BY <1>10, <3>1, <3>2
  <2>3. \A k \in 1..n : k - 1 \in good => k \in good
    BY <2>2
  <2>4. \A k \in 0..n : k \in good
    <3> HIDE DEF good
    <3> QED
      BY <1>1, <2>1, <2>3, LoopKeeps
  <2> QED
    BY <2>4
<1>12. g \in [0..n -> Plans]
  BY <1>10, <1>11
<1>13. g[0] = first /\ \A k \in 1..n : g[k] = Turn(g[k - 1], s[k])
  BY <1>1, <1>10
<1>14. PlanStates(s, watts, g)
  BY <1>9, <1>12, <1>13 DEF PlanStates, n, first
<1> QED
  BY <1>14

-----------------------------------------------------------------------------
(* One turn of a reduction and one of a recovery.                          *)

LEMMA Quotient ==
    ASSUME NEW a \in Nat, NEW b \in Nat \ {0}
    PROVE  /\ a \div b \in Nat
           /\ b * (a \div b) <= a
           /\ a < b * (a \div b) + b
  OBVIOUS

LEMMA ExactQuotient ==
    ASSUME NEW q \in Nat, NEW b \in Nat \ {0}
    PROVE  (b * q) \div b = q
<1>1. \A r \in Nat : b * r <= b * q /\ b * q < b * r + b => r = q
  OBVIOUS
<1>2. b * q \in Nat
  OBVIOUS
<1> QED
  BY <1>1, <1>2, Quotient

LEMMA Lesser ==
    ASSUME NEW x \in Int, NEW y \in Int
    PROVE  /\ Min({x, y}) \in Int /\ Min({x, y}) <= x /\ Min({x, y}) <= y
           /\ (Min({x, y}) = x \/ Min({x, y}) = y)
  BY DEF Min

LEMMA LongerPlan ==
    ASSUME NEW plan \in Plans, NEW watts \in Nat, NEW action \in PowerCaps
    PROVE  [watts |-> watts, actions |-> Append(plan.actions, action)] \in Plans
<1>1. plan.actions \in Seq(PowerCaps)
  BY DEF Plans
<1>2. Append(plan.actions, action) \in Seq(PowerCaps)
  BY <1>1
<1> QED
  BY <1>2 DEF Plans

\* Reduce lowers w to `low': to its floor, or as far as the rest of the excess
\* takes it, all of which this then uses.
ReducesTo(plan, w, low) ==
    /\ low \in Nat /\ floor[w] <= low /\ low <= Draw(w)
    /\ Reduce(plan, w).actions = Append(plan.actions, CapTo(w, low))
    /\ Reduce(plan, w) \in Plans
    /\ \/ /\ low = floor[w]
          /\ Reduce(plan, w).watts = plan.watts - 100 * (Gpus[w] * (Draw(w) - low))
       \/ /\ Reduce(plan, w).watts = 0
          /\ plan.watts < 100 * (Gpus[w] * (Draw(w) - low)) + 100 * Gpus[w]

LEMMA CandidateType ==
    ASSUME ClusterTypeOK, NEW w \in Cappable
    PROVE  /\ w \in Workloads /\ w \in Running /\ floor[w] \in Nat
           /\ Draw(w) \in Nat /\ Gpus[w] \in Nat \ {0}
<1>1. w \in Workloads /\ w \in Running /\ floor[w] # NoFloor
  BY DEF Cappable, Running
<1>2. floor \in [Workloads -> Nat \cup {NoFloor}]
  BY ClusterAssumption DEF ClusterTypeOK
<1> QED
  BY <1>1, <1>2, DrawType, ClusterAssumption

LEMMA ReduceTurn ==
    ASSUME ClusterTypeOK, NEW plan \in Plans, NEW w \in Cappable
    PROVE  \/ Reduce(plan, w) = plan /\ (plan.watts = 0 \/ Draw(w) <= floor[w])
           \/ plan.watts > 0 /\ \E low : ReducesTo(plan, w, low)
<1> DEFINE g == Gpus[w]
           d == Draw(w)
           fl == floor[w]
           all == Hundredths((d - fl) * g)
           cut == Min({plan.watts, all})
           low == LoweredBy(w, cut)
<1>1. fl \in Nat /\ d \in Nat /\ g \in Nat \ {0} /\ plan.watts \in Nat
  BY CandidateType DEF Plans
<1>2. all \in Int /\ (d <= fl => all <= 0) /\ all = 100 * (g * (d - fl))
  <2>1. \A x \in Nat \ {0}, y \in Int : /\ 100 * (y * x) \in Int /\ (y <= 0 => 100 * (y * x) <= 0)
                                        /\ 100 * (y * x) = 100 * (x * y)
    OBVIOUS
  <2>2. d - fl \in Int /\ (d <= fl => d - fl <= 0)
    BY <1>1
  <2>3. all = 100 * ((d - fl) * g)
    BY DEF Hundredths
  <2> HIDE DEF g, d, fl, all
  <2> QED
    BY <1>1, <2>1, <2>2, <2>3
<1>3. (d > fl => all > 0 /\ all = (100 * g) * (d - fl))
  <2>1. \A x \in Nat \ {0}, y \in Int : y > 0 => 100 * (x * y) > 0 /\ 100 * (x * y) = (100 * x) * y
    OBVIOUS
  <2>2. d - fl \in Int /\ (d > fl => d - fl > 0)
    BY <1>1
  <2> HIDE DEF g, d, fl, all
  <2> QED
    BY <1>1, <1>2, <2>1, <2>2
<1> HIDE DEF all
<1>4. cut \in Int /\ cut <= plan.watts /\ cut <= all /\ (cut = plan.watts \/ cut = all)
  <2>1. plan.watts \in Int
    BY <1>1
  <2>2. all \in Int
    BY <1>2
  <2> HIDE DEF g, d, fl
  <2> QED
    BY <2>1, <2>2, Lesser, Zenon
<1>5. Reduce(plan, w) = IF cut <= 0 THEN plan
                        ELSE [watts |-> plan.watts - cut, actions |-> Append(plan.actions, CapTo(w, low))]
  BY DEF Reduce, all
<1>6. low = d - cut \div (100 * g)
  BY DEF LoweredBy, Hundredths
<1> HIDE DEF cut, low, g, d, fl
<1>7. CASE cut <= 0
  <2>1. plan.watts = 0 \/ d <= fl
    BY <1>1, <1>2, <1>3, <1>4, <1>7
  <2> QED
    BY <1>5, <1>7, <2>1 DEF d, fl
<1>8. CASE cut > 0
  <2>1. plan.watts > 0 /\ d > fl /\ cut \in Nat /\ 100 * g \in Nat \ {0}
    BY <1>1, <1>2, <1>4, <1>8
  <2> DEFINE q == cut \div (100 * g)
  <2>2. q \in Nat /\ (100 * g) * q <= cut /\ cut < (100 * g) * q + 100 * g
    BY <2>1, Quotient
  <2>3. cut = all => q = d - fl
    BY <1>1, <1>3, <2>1, ExactQuotient
  <2> HIDE DEF q
  <2>4. q <= d - fl
    <3>1. (100 * g) * q <= (100 * g) * (d - fl)
      <4>1. /\ (100 * g) * q \in Int /\ (100 * g) * (d - fl) \in Int
        BY <1>1, <2>2
      <4> QED
        BY <1>1, <1>2, <1>3, <1>4, <2>1, <2>2, <4>1
    <3>2. \A b \in Nat \ {0}, x, y \in Int : b * x <= b * y => x <= y
      OBVIOUS
    <3> QED
      BY <1>1, <2>1, <2>2, <3>1, <3>2
  <2>5. low = d - q
    BY <1>6 DEF q
  <2>6. low \in Nat /\ fl <= low /\ low <= d /\ d - low = q
    BY <1>1, <2>2, <2>4, <2>5
  <2>7. Reduce(plan, w) = [watts |-> plan.watts - cut, actions |-> Append(plan.actions, CapTo(w, low))]
    BY <1>4, <1>5, <1>8
  <2>8. plan.watts - cut \in Nat
    BY <1>1, <1>4
  <2>9. \/ low = fl /\ plan.watts - cut = plan.watts - 100 * (g * (d - low))
        \/ plan.watts - cut = 0 /\ plan.watts < 100 * (g * (d - low)) + 100 * g
    <3>1. CASE cut = all
      BY <1>1, <1>2, <2>3, <2>5, <2>6, <3>1
    <3>2. CASE cut = plan.watts
      <4>1. (100 * g) * q = 100 * (g * (d - low))
        BY <1>1, <2>2, <2>6
      <4>2. g * (d - low) \in Int
        BY <1>1, <2>6
      <4> QED
        BY <1>1, <2>2, <3>2, <4>1, <4>2
    <3> QED
      BY <1>4, <3>1, <3>2
  <2>10. Reduce(plan, w) \in Plans
    <3>1. CapTo(w, low) \in PowerCaps
      BY <2>6, CandidateType DEF CapTo, PowerCaps
    <3> QED
      BY <2>7, <2>8, <3>1, LongerPlan
  <2>11. ReducesTo(plan, w, low)
    BY <2>6, <2>7, <2>9, <2>10 DEF ReducesTo, g, d, fl
  <2> QED
    BY <2>1, <2>11
<1> QED
  BY <1>4, <1>7, <1>8

\* Recover raises w by at most a step, out of what is left of the headroom.
RaisesTo(plan, w, value) ==
    LET more == Leaves(CapTo(w, value)) - Draw(w) IN
    /\ Leaves(CapTo(w, value)) \in Nat /\ 0 < more /\ more <= RecoveryStep
    /\ CapTo(w, value) \in PowerCaps
    /\ Recover(plan, w).actions = Append(plan.actions, CapTo(w, value))
    /\ Recover(plan, w) \in Plans
    /\ Recover(plan, w).watts = plan.watts - 100 * (Gpus[w] * more)

LEMMA RestorableType ==
    ASSUME ClusterTypeOK, NEW w \in Restorable
    PROVE  /\ w \in Cappable /\ floor[w] <= Draw(w) /\ Nominal[w] \in Nat
<1>1. w \in Workloads /\ w \in Running /\ cap[w] # Uncapped
  BY DEF Restorable, Running
<1>2. floor[w] # NoFloor /\ cap[w] \in floor[w] .. Nominal[w]
  BY <1>1 DEF ClusterTypeOK, LegalCaps
<1>3. w \in Cappable
  BY <1>1, <1>2 DEF Cappable
<1> QED
  BY <1>1, <1>2, <1>3, CandidateType, ClusterAssumption DEF Draw

LEMMA RecoverTurn ==
    ASSUME ClusterTypeOK, NEW plan \in Plans, NEW w \in Restorable
    PROVE  Recover(plan, w) = plan \/ \E value : RaisesTo(plan, w, value)
<1> DEFINE g == Gpus[w]
           d == Draw(w)
           nominal == Nominal[w]
           more == Min({RecoveryStep, nominal - d})
           all == Hundredths(more * g)
           value == IF d + more >= nominal THEN Uncapped ELSE d + more
<1>1. /\ w \in Workloads /\ d \in Nat /\ g \in Nat \ {0} /\ nominal \in Nat
      /\ plan.watts \in Nat /\ RecoveryStep \in Nat
  BY CandidateType, RestorableType, ClusterAssumption DEF Plans
<1>2. more \in Int /\ more <= RecoveryStep /\ more <= nominal - d
  <2>1. RecoveryStep \in Int /\ nominal - d \in Int
    BY <1>1
  <2> HIDE DEF g, d, nominal
  <2> QED
    BY <2>1, Lesser, Zenon
<1>3. Recover(plan, w) = IF more <= 0 \/ all > plan.watts THEN plan
                         ELSE [watts |-> plan.watts - all,
                               actions |-> Append(plan.actions, CapTo(w, value))]
  BY DEF Recover
<1>4. more > 0 => all = 100 * (g * more) /\ all \in Nat
  <2>1. \A x \in Nat \ {0}, y \in Nat : 100 * (y * x) \in Nat /\ 100 * (y * x) = 100 * (x * y)
    OBVIOUS
  <2>2. all = 100 * (more * g)
    BY DEF Hundredths
  <2> HIDE DEF g, d, nominal, more, all
  <2> QED
    BY <1>1, <1>2, <2>1, <2>2
<1>5. more > 0 => Leaves(CapTo(w, value)) = d + more /\ CapTo(w, value) \in PowerCaps
  <2> HIDE DEF more, d
  <2>1. CASE d + more >= nominal
    <3>1. more > 0 => d + more = nominal
      BY <1>1, <1>2, <2>1
    <3> QED
      BY <1>1, <2>1, <3>1 DEF Leaves, CapTo, PowerCaps
  <2>2. CASE ~(d + more >= nominal)
    <3>1. Uncapped \notin Nat
      BY ClusterAssumption
    <3>2. more > 0 => d + more \in Nat
      BY <1>1, <1>2
    <3>3. more > 0 => d + more # Uncapped
      BY <3>1, <3>2
    <3> QED
      BY <1>1, <2>2, <3>2, <3>3 DEF Leaves, CapTo, PowerCaps
  <2> QED
    BY <2>1, <2>2
<1> HIDE DEF g, d, nominal, more, all, value
<1>6. CASE more <= 0 \/ all > plan.watts
  BY <1>3, <1>6
<1>7. CASE ~(more <= 0 \/ all > plan.watts)
  <2>1. more > 0 /\ plan.watts - all \in Nat /\ all = 100 * (g * more)
    BY <1>1, <1>2, <1>4, <1>7
  <2>2. Recover(plan, w) = [watts |-> plan.watts - all, actions |-> Append(plan.actions, CapTo(w, value))]
    BY <1>3, <1>7
  <2>3. Leaves(CapTo(w, value)) = d + more /\ CapTo(w, value) \in PowerCaps
    BY <1>5, <2>1
  <2>4. Recover(plan, w) \in Plans
    BY <2>1, <2>2, <2>3, LongerPlan
  <2>5. Leaves(CapTo(w, value)) \in Nat /\ Leaves(CapTo(w, value)) - d = more
    BY <1>1, <1>2, <2>1, <2>3
  <2>6. RaisesTo(plan, w, value)
    BY <1>2, <2>1, <2>2, <2>3, <2>4, <2>5 DEF RaisesTo, d, g
  <2> QED
    BY <2>6
<1> QED
  BY <1>6, <1>7

-----------------------------------------------------------------------------
(* What the loop of a reduction leads to.                                  *)

LEMMA PowerType ==
    ASSUME ClusterTypeOK, NEW draw \in Draws
    PROVE  /\ PowerAt(draw) \in [Workloads -> Int] /\ Total(PowerAt(draw)) \in Int
           /\ Facility(Total(PowerAt(draw))) \in Int
           /\ Target \in Int /\ envelope \in Nat /\ {Overhead, Cooling, Reserve} \subseteq Nat
<1>1. \A a, b \in Nat : a * b \in Int
  OBVIOUS
<1>2. \A w \in Workloads : Gpus[w] * draw[w] \in Int
  BY <1>1, ClusterAssumption DEF Draws
<1>3. PowerAt(draw) \in [Workloads -> Int]
  BY <1>2 DEF PowerAt
<1>4. Total(PowerAt(draw)) \in Int
  BY <1>3, TotalType
<1>5. envelope \in Nat /\ {Overhead, Cooling, Reserve} \subseteq Nat
  BY ClusterAssumption DEF ClusterTypeOK
<1>6. \A a \in Int, b \in Nat : a * (100 + b) \in Int
  OBVIOUS
<1>7. Total(PowerAt(draw)) * (100 + Cooling) \in Int
  BY <1>4, <1>5, <1>6
<1> QED
  BY <1>3, <1>4, <1>5, <1>7 DEF Facility, Target, Hundredths

\* What the facility's IT power has lost to a plan.
Saved(plan) == Total(PowerAt(After(<<>>))) - Total(PowerAt(After(plan)))

\* A plan made of a list's first k candidates: while some excess is left, it is
\* what the plan does not save yet, and these candidates are at their floors;
\* when none is left, the plan falls short of it by less than the rounding.
ReducedSoFar(s, k, plan) ==
    Distinct(plan.actions) =>
        /\ After(plan.actions) \in Draws /\ Saved(plan.actions) \in Nat
        /\ \A w \in Workloads : After(plan.actions)[w] <= Draw(w)
        /\ plan.watts > 0 => /\ 100 * Saved(plan.actions) + plan.watts = Excess
                             /\ \A j \in 1..k : After(plan.actions)[s[j]] <= floor[s[j]]
        /\ plan.watts = 0 => Excess <= 100 * Saved(plan.actions) + 100 * Reserve

LEMMA ReduceKeeps ==
    ASSUME ClusterTypeOK, ReserveCoversRounding, NEW s \in Seq(Cappable), NEW k \in 1 .. Len(s),
           NEW plan \in Plans, ReducedSoFar(s, k - 1, plan)
    PROVE  ReducedSoFar(s, k, Reduce(plan, s[k]))
<1> DEFINE w == s[k]
           next == Reduce(plan, w)
           draw == After(plan.actions)
<1>1. w \in Cappable /\ \A j \in 1..k : s[j] \in Cappable /\ (j \in 1 .. k - 1 \/ j = k)
  OBVIOUS
<1>2. /\ w \in Workloads /\ w \in Running /\ floor[w] \in Nat /\ Draw(w) \in Nat
      /\ Gpus[w] \in Nat \ {0} /\ plan.watts \in Nat /\ plan.actions \in Seq(PowerCaps)
      /\ Reserve \in Nat /\ Gpus[w] <= Reserve
  BY <1>1, CandidateType, ClusterAssumption DEF Plans, ReserveCoversRounding
<1> HIDE DEF w, next
<1>3. SUFFICES ASSUME Distinct(next.actions)
               PROVE  /\ After(next.actions) \in Draws /\ Saved(next.actions) \in Nat
                      /\ \A v \in Workloads : After(next.actions)[v] <= Draw(v)
                      /\ next.watts > 0 =>
                            /\ 100 * Saved(next.actions) + next.watts = Excess
                            /\ \A j \in 1..k : After(next.actions)[s[j]] <= floor[s[j]]
                      /\ next.watts = 0 => Excess <= 100 * Saved(next.actions) + 100 * Reserve
  BY DEF ReducedSoFar, next, w
<1>4. CASE next = plan /\ (plan.watts = 0 \/ Draw(w) <= floor[w])
  <2>1. /\ draw \in Draws /\ Saved(plan.actions) \in Nat
        /\ \A v \in Workloads : draw[v] <= Draw(v)
        /\ plan.watts > 0 => /\ 100 * Saved(plan.actions) + plan.watts = Excess
                             /\ \A j \in 1 .. k - 1 : draw[s[j]] <= floor[s[j]]
        /\ plan.watts = 0 => Excess <= 100 * Saved(plan.actions) + 100 * Reserve
    BY <1>3, <1>4 DEF ReducedSoFar
  <2>2. Draw(w) <= floor[w] => draw[w] <= floor[w]
    <3>1. draw[w] \in Nat /\ draw[w] <= Draw(w)
      BY <1>2, <2>1 DEF Draws
    <3> QED
      BY <1>2, <3>1
  <2>3. plan.watts > 0 => \A j \in 1..k : draw[s[j]] <= floor[s[j]]
    BY <1>1, <1>2, <1>4, <2>1, <2>2 DEF w
  <2> QED
    BY <1>4, <2>1, <2>3
<1>5. CASE plan.watts > 0 /\ \E low : ReducesTo(plan, w, low)
  <2>1. PICK low : ReducesTo(plan, w, low)
    BY <1>5
  <2> DEFINE action == CapTo(w, low)
  <2>2. /\ low \in Nat /\ floor[w] <= low /\ low <= Draw(w) /\ next \in Plans
        /\ next.actions = Append(plan.actions, action)
        /\ action \in PowerCaps /\ action.workload = w /\ Leaves(action) = low
    <3>1. Uncapped \notin Nat
      BY ClusterAssumption
    <3> QED
      BY <1>2, <2>1, <3>1 DEF ReducesTo, next, CapTo, PowerCaps, Leaves
  <2> HIDE DEF action
  <2>3. /\ Distinct(plan.actions) /\ draw[w] = Draw(w)
        /\ After(next.actions) = [draw EXCEPT ![w] = low]
    BY <1>2, <1>3, <2>2, AfterOneMore
  <2>4. /\ draw \in Draws /\ Saved(plan.actions) \in Nat
        /\ \A v \in Workloads : draw[v] <= Draw(v)
        /\ 100 * Saved(plan.actions) + plan.watts = Excess
        /\ \A j \in 1 .. k - 1 : draw[s[j]] <= floor[s[j]]
    BY <1>5, <2>3 DEF ReducedSoFar
  <2>5. /\ After(next.actions) \in Draws
        /\ Total(PowerAt(draw)) \in Int /\ Total(PowerAt(After(<<>>))) \in Int
        /\ Total(PowerAt(After(next.actions))) = Total(PowerAt(draw)) + Gpus[w] * (low - draw[w])
    <3>1. Total(PowerAt(After(<<>>))) \in Int
      BY PowerType, DrawType
    <3>2. /\ [draw EXCEPT ![w] = low] \in Draws /\ Total(PowerAt(draw)) \in Int
          /\ Total(PowerAt([draw EXCEPT ![w] = low])) = Total(PowerAt(draw)) + Gpus[w] * (low - draw[w])
      <4> HIDE DEF draw
      <4> QED
        BY <1>2, <2>2, <2>4, PowerMoves
    <3> QED
      BY <2>3, <3>1, <3>2
  <2> DEFINE cut == Gpus[w] * (Draw(w) - low)
  <2>6. cut \in Nat /\ Gpus[w] * (low - draw[w]) = - cut
    <3>1. \A a, b, c \in Nat : c <= b => a * (b - c) \in Nat /\ a * (c - b) = - (a * (b - c))
      OBVIOUS
    <3> QED
      BY <1>2, <2>2, <2>3, <3>1
  <2>7. \/ low = floor[w] /\ next.watts = plan.watts - 100 * cut
        \/ next.watts = 0 /\ plan.watts < 100 * cut + 100 * Gpus[w]
    BY <2>1 DEF ReducesTo, next
  <2> HIDE DEF cut
  <2>8. Saved(next.actions) = Saved(plan.actions) + cut
    BY <2>5, <2>6 DEF Saved
  <2>9. next.watts \in Nat
    BY <2>2 DEF Plans
  <2>10. \A v \in Workloads : After(next.actions)[v] = IF v = w THEN low ELSE draw[v]
    BY <2>3, <2>4 DEF Draws
  <2>11. \A v \in Workloads : After(next.actions)[v] <= Draw(v)
    BY <2>2, <2>4, <2>10
  <2>12. ASSUME next.watts > 0
         PROVE  /\ 100 * Saved(next.actions) + next.watts = Excess
                /\ \A j \in 1..k : After(next.actions)[s[j]] <= floor[s[j]]
    <3>1. low = floor[w] /\ next.watts = plan.watts - 100 * cut
      BY <2>7, <2>9, <2>12
    <3>2. 100 * Saved(next.actions) + next.watts = Excess
      BY <1>2, <2>4, <2>6, <2>8, <3>1
    <3>3. ASSUME NEW j \in 1..k
          PROVE  After(next.actions)[s[j]] <= floor[s[j]]
      <4>1. s[j] \in Workloads
        BY <1>1, CandidateType
      <4>2. CASE s[j] = w
        BY <1>2, <2>10, <3>1, <4>1, <4>2
      <4>3. CASE s[j] # w
        <5>1. j \in 1 .. k - 1
          BY <1>1, <4>3 DEF w
        <5> QED
          BY <2>4, <2>10, <4>1, <4>3, <5>1
      <4> QED
        BY <4>2, <4>3
    <3> QED
      BY <3>2, <3>3
  <2>13. next.watts = 0 => Excess <= 100 * Saved(next.actions) + 100 * Reserve
    <3>1. /\ {Gpus[w], Reserve, cut, plan.watts, Saved(plan.actions)} \subseteq Nat
          /\ Gpus[w] <= Reserve /\ Excess = 100 * Saved(plan.actions) + plan.watts
      BY <1>2, <2>4, <2>6
    <3>2. next.watts = 0 => plan.watts <= 100 * cut + 100 * Reserve
      BY <2>7, <3>1
    <3> QED
      BY <2>8, <3>1, <3>2
  <2>14. Saved(next.actions) \in Nat
    BY <2>4, <2>6, <2>8
  <2> QED
    BY <2>5, <2>11, <2>12, <2>13, <2>14
<1> QED
  BY <1>1, <1>4, <1>5, ReduceTurn DEF next

LEMMA ExcessType ==
    ASSUME ClusterTypeOK
    PROVE  /\ Excess \in Nat /\ FacilityPower \in Int
           /\ Excess > 0 => Excess = FacilityPower - Target
           /\ ~(Excess > 0) => Target - FacilityPower \in Nat
<1>1. FacilityPower \in Int /\ Target \in Int
  BY DrawType, PowerType
<1>2. \A x \in Int : Max({0, x}) \in Nat /\ (Max({0, x}) > 0 => Max({0, x}) = x)
                     /\ (~(Max({0, x}) > 0) => x <= 0)
  BY DEF Max
<1>3. FacilityPower - Target \in Int
  BY <1>1
<1>4. /\ Excess \in Nat /\ (Excess > 0 => Excess = FacilityPower - Target)
      /\ ~(Excess > 0) => FacilityPower - Target <= 0
  BY <1>2, <1>3 DEF Excess
<1> QED
  BY <1>1, <1>4

\* A reduction along a list of all workloads that may be capped either brings
\* the facility's power to the envelope or takes each of them to its floor.
LEMMA ReductionAccounts ==
    ASSUME ClusterTypeOK, ReserveCoversRounding, Excess > 0, NEW s, Lists(s, Cappable),
           Distinct(PlanAlong(s, Excess))
    PROVE  AccountedAs("power_envelope", After(PlanAlong(s, Excess)))
<1> DEFINE n == Len(s)
           plan == PlanAlong(s, Excess)
<1>1. s \in Seq(Cappable) /\ n \in Nat /\ DOMAIN s = 1..n /\ Excess \in Nat
  BY ExcessType DEF Lists
<1>2. PICK f : PlanStates(s, Excess, f)
  <2>1. \A w \in Cappable, p \in Plans : Turn(p, w) \in Plans
    BY ReduceTurn DEF Turn, ReducesTo
  <2> QED
    BY <1>1, <2>1, PlanRuns
<1>3. /\ f \in [0..n -> Plans] /\ f[0] = [watts |-> Excess, actions |-> <<>>] /\ plan = f[n].actions
      /\ \A k \in 1..n : f[k] = Reduce(f[k - 1], s[k])
  BY <1>2 DEF PlanStates, Turn
<1> HIDE DEF plan, n
<1> DEFINE good == {k \in 0..n : ReducedSoFar(s, k, f[k])}
<1>4. 0 \in good
  <2>1. f[0].watts = Excess /\ f[0].actions = <<>>
    BY <1>3
  <2>2. /\ After(<<>>) \in Draws /\ Total(PowerAt(After(<<>>))) \in Int
        /\ \A w \in Workloads : After(<<>>)[w] = Draw(w) /\ Draw(w) \in Nat
    BY DrawType, PowerType
  <2>3. Saved(<<>>) = 0
    BY <2>2 DEF Saved
  <2>4. ReducedSoFar(s, 0, f[0])
    BY <1>1, <2>1, <2>2, <2>3 DEF ReducedSoFar
  <2> QED
    BY <1>1, <2>4
<1>5. ASSUME NEW k \in 1..n, k - 1 \in good
      PROVE  k \in good
  <2>1. k \in 0..n /\ k - 1 \in 0..n /\ f[k - 1] \in Plans /\ ReducedSoFar(s, k - 1, f[k - 1])
    BY <1>1, <1>3, <1>5
  <2>2. k \in 1 .. Len(s)
    BY DEF n
  <2>3. ReducedSoFar(s, k, Reduce(f[k - 1], s[k]))
    BY <1>1, <2>1, <2>2, ReduceKeeps
  <2> QED
    BY <1>3, <2>1, <2>3
<1>6. ReducedSoFar(s, n, f[n]) /\ f[n].watts \in Nat
  <2>1. \A k \in 1..n : k - 1 \in good => k \in good
    BY <1>5
  <2>2. \A k \in 0..n : k \in good
    <3> HIDE DEF good
    <3> QED
      BY <1>1, <1>4, <2>1, LoopKeeps
  <2> QED
    BY <1>1, <1>3, <2>2 DEF Plans
<1>7. /\ Saved(plan) \in Nat /\ After(plan) \in Draws
      /\ f[n].watts > 0 => \A j \in 1..n : After(plan)[s[j]] <= floor[s[j]]
      /\ f[n].watts = 0 => Excess <= 100 * Saved(plan) + 100 * Reserve
  BY <1>3, <1>6 DEF ReducedSoFar, plan
<1>8. CASE f[n].watts > 0
  <2>1. \A w \in Cappable : After(plan)[w] <= floor[w]
    BY <1>1, <1>7, <1>8 DEF Lists
  <2> QED
    BY <2>1 DEF AccountedAs, plan
<1>9. CASE f[n].watts = 0
  <2> DEFINE before == Total(PowerAt(After(<<>>)))
             after == Total(PowerAt(After(plan)))
  <2>1. /\ before \in Int /\ after \in Int /\ before - after = Saved(plan)
        /\ envelope \in Nat /\ {Overhead, Cooling, Reserve} \subseteq Nat
        /\ FacilityPower = Facility(before)
    BY <1>7, DrawType, PowerType DEF Saved
  <2> HIDE DEF before, after
  <2>2. \A x, y \in Int, c \in Nat : x - y \in Nat =>
            /\ x * (100 + c) \in Int /\ y * (100 + c) \in Int
            /\ x * (100 + c) - y * (100 + c) >= 100 * (x - y)
    <3> TAKE x \in Int, y \in Int, c \in Nat
    <3> HAVE x - y \in Nat
    <3>1. /\ x * (100 + c) \in Int /\ y * (100 + c) \in Int
          /\ x * (100 + c) - y * (100 + c) = 100 * (x - y) + c * (x - y)
      OBVIOUS
    <3>2. \A a, b \in Nat : a * b \in Nat
      OBVIOUS
    <3>3. c * (x - y) \in Nat
      BY <3>2
    <3> QED
      BY <3>1, <3>3
  <2>3. before * (100 + Cooling) - after * (100 + Cooling) >= 100 * Saved(plan)
           /\ before * (100 + Cooling) \in Int /\ after * (100 + Cooling) \in Int
    BY <1>7, <2>1, <2>2
  <2>4. Excess = FacilityPower - Target
    BY ExcessType
  <2>5. /\ FacilityPower = 100 * Overhead + before * (100 + Cooling)
        /\ Target = 100 * (envelope - Reserve)
    BY <2>1 DEF Facility, Target, Hundredths
  <2>6. Facility(after) = 100 * Overhead + after * (100 + Cooling)
    BY DEF Facility, Hundredths
  <2>7. Facility(after) <= 100 * envelope
    BY <1>7, <1>9, <2>1, <2>3, <2>4, <2>5, <2>6
  <2>8. ~(Facility(after) > Hundredths(envelope))
    BY <2>1, <2>3, <2>6, <2>7 DEF Hundredths
  <2> QED
    BY <2>8 DEF AccountedAs, plan, after
<1> QED
  BY <1>6, <1>8, <1>9

-----------------------------------------------------------------------------
(* What the loop of a recovery leads to.                                   *)

\* A plan that raises draws: what is left of the headroom is what the plan does
\* not use, before cooling, and each draw is raised by a step at most.
RaisedSoFar(plan) ==
    Distinct(plan.actions) =>
        /\ After(plan.actions) \in Draws
        /\ plan.watts - 100 * Saved(plan.actions) = Target - FacilityPower
        /\ \A w \in Workloads :
              \/ After(plan.actions)[w] = Draw(w)
              \/ /\ w \in Restorable /\ Draw(w) < After(plan.actions)[w]
                 /\ After(plan.actions)[w] - Draw(w) <= RecoveryStep

LEMMA RecoverKeeps ==
    ASSUME ClusterTypeOK, NEW plan \in Plans, NEW w \in Restorable, RaisedSoFar(plan)
    PROVE  RaisedSoFar(Recover(plan, w))
<1> DEFINE next == Recover(plan, w)
           draw == After(plan.actions)
<1>1. CASE next = plan
  BY <1>1
<1>2. CASE \E value : RaisesTo(plan, w, value)
  <2>1. PICK value : RaisesTo(plan, w, value)
    BY <1>2
  <2> DEFINE action == CapTo(w, value)
             high == Leaves(action)
             more == high - Draw(w)
  <2>2. /\ high \in Nat /\ 0 < more /\ more <= RecoveryStep
        /\ action \in PowerCaps /\ action.workload = w /\ next \in Plans
        /\ next.actions = Append(plan.actions, action)
        /\ next.watts = plan.watts - 100 * (Gpus[w] * more)
    BY <2>1 DEF RaisesTo, CapTo
  <2>3. /\ w \in Workloads /\ w \in Running /\ Draw(w) \in Nat /\ Gpus[w] \in Nat
        /\ plan.watts \in Nat /\ next.watts \in Nat /\ plan.actions \in Seq(PowerCaps)
    BY <2>2, RestorableType, CandidateType DEF Plans
  <2> HIDE DEF next, action, high
  <2>4. SUFFICES ASSUME Distinct(next.actions)
                 PROVE  /\ After(next.actions) \in Draws
                        /\ next.watts - 100 * Saved(next.actions) = Target - FacilityPower
                        /\ \A v \in Workloads :
                              \/ After(next.actions)[v] = Draw(v)
                              \/ /\ v \in Restorable /\ Draw(v) < After(next.actions)[v]
                                 /\ After(next.actions)[v] - Draw(v) <= RecoveryStep
    BY DEF RaisedSoFar, next
  <2>5. /\ Distinct(plan.actions) /\ draw[w] = Draw(w)
        /\ After(next.actions) = [draw EXCEPT ![w] = high]
    BY <2>2, <2>3, <2>4, AfterOneMore DEF high
  <2>6. /\ draw \in Draws
        /\ plan.watts - 100 * Saved(plan.actions) = Target - FacilityPower
        /\ \A v \in Workloads : \/ draw[v] = Draw(v)
                                \/ /\ v \in Restorable /\ Draw(v) < draw[v]
                                   /\ draw[v] - Draw(v) <= RecoveryStep
    BY <2>5 DEF RaisedSoFar
  <2>7. /\ After(next.actions) \in Draws
        /\ Total(PowerAt(draw)) \in Int /\ Total(PowerAt(After(<<>>))) \in Int
        /\ Total(PowerAt(After(next.actions))) = Total(PowerAt(draw)) + Gpus[w] * (high - draw[w])
    <3>1. Total(PowerAt(After(<<>>))) \in Int
      BY PowerType, DrawType
    <3>2. /\ [draw EXCEPT ![w] = high] \in Draws /\ Total(PowerAt(draw)) \in Int
          /\ Total(PowerAt([draw EXCEPT ![w] = high])) = Total(PowerAt(draw)) + Gpus[w] * (high - draw[w])
      <4> HIDE DEF draw
      <4> QED
        BY <2>2, <2>3, <2>6, PowerMoves
    <3> QED
      BY <2>5, <3>1, <3>2
  <2> DEFINE given == Gpus[w] * more
  <2>8. given \in Int /\ Gpus[w] * (high - draw[w]) = given
    <3>1. \A a, b, c \in Nat : a * (b - c) \in Int
      OBVIOUS
    <3> QED
      BY <2>2, <2>3, <2>5, <3>1
  <2>9. next.watts = plan.watts - 100 * given
    BY <2>2
  <2> HIDE DEF given
  <2>10. /\ Saved(next.actions) = Saved(plan.actions) - given
         /\ Saved(plan.actions) \in Int
    BY <2>7, <2>8 DEF Saved
  <2>11. next.watts - 100 * Saved(next.actions) = Target - FacilityPower
    BY <2>3, <2>6, <2>8, <2>9, <2>10
  <2>12. \A v \in Workloads : After(next.actions)[v] = IF v = w THEN high ELSE draw[v]
    BY <2>5, <2>6 DEF Draws
  <2>13. Draw(w) < high /\ high - Draw(w) <= RecoveryStep
    BY <2>2, <2>3
  <2> QED
    BY <2>6, <2>7, <2>11, <2>12, <2>13
<1> QED
  BY <1>1, <1>2, RecoverTurn

\* What a draw has risen by costs at most what RegainedAt counts for it.
LEMMA RiseIsRegained ==
    ASSUME ClusterTypeOK, NEW draw \in Draws, NEW w \in Workloads,
           \/ draw[w] = Draw(w)
           \/ w \in Restorable /\ Draw(w) < draw[w] /\ draw[w] - Draw(w) <= RecoveryStep
    PROVE  /\ RegainedAt(draw)[w] \in Int
           /\ PowerAt(draw)[w] - PowerAt(After(<<>>))[w] <= RegainedAt(draw)[w]
<1> DEFINE g == Gpus[w]
           d == draw[w]
           least == Min({RecoveryStep, d - floor[w]})
<1>1. /\ g \in Nat /\ d \in Nat /\ Draw(w) \in Nat /\ RecoveryStep \in Nat
      /\ After(<<>>)[w] = Draw(w)
  BY DrawType, ClusterAssumption DEF Draws
<1>2. \A x, y, z \in Nat : z <= y => x * z <= x * y /\ x * y \in Nat /\ x * z \in Nat
  OBVIOUS
<1>3. \A x, y, z \in Nat : x * y \in Nat /\ x * y - x * z = x * (y - z)
  OBVIOUS
<1> HIDE DEF g, d
<1>4. w \in Cappable /\ d > floor[w] =>
          /\ floor[w] \in Nat /\ least \in Nat
          /\ least <= RecoveryStep /\ least <= d - floor[w]
          /\ least = RecoveryStep \/ least = d - floor[w]
  <2> SUFFICES ASSUME w \in Cappable, d > floor[w]
               PROVE  /\ floor[w] \in Nat /\ least \in Nat
                      /\ least <= RecoveryStep /\ least <= d - floor[w]
                      /\ least = RecoveryStep \/ least = d - floor[w]
    OBVIOUS
  <2>1. floor[w] \in Nat /\ RecoveryStep \in Int /\ d - floor[w] \in Int
    BY <1>1, CandidateType
  <2>2. /\ least <= RecoveryStep /\ least <= d - floor[w]
        /\ least = RecoveryStep \/ least = d - floor[w]
    BY <2>1, Lesser, Zenon
  <2> HIDE DEF least
  <2> QED
    BY <1>1, <2>1, <2>2
<1>5. RegainedAt(draw)[w] = IF w \in Cappable /\ d > floor[w] THEN g * least ELSE 0
  BY DEF RegainedAt, g, d
<1> HIDE DEF least
<1>6. RegainedAt(draw)[w] \in Nat
  BY <1>1, <1>3, <1>4, <1>5
<1>7. CASE d = Draw(w)
  <2>1. PowerAt(draw)[w] = PowerAt(After(<<>>))[w] /\ PowerAt(draw)[w] \in Int
    BY <1>1, <1>3, <1>7 DEF PowerAt, d, g
  <2> QED
    BY <1>6, <2>1
<1>8. CASE w \in Restorable /\ Draw(w) < d /\ d - Draw(w) <= RecoveryStep
  <2>1. w \in Cappable /\ floor[w] <= Draw(w) /\ floor[w] \in Nat /\ w \in Running
    BY <1>8, RestorableType, CandidateType
  <2>2. d > floor[w] /\ d - Draw(w) \in Nat /\ d - Draw(w) <= least
    BY <1>1, <1>4, <1>8, <2>1
  <2>3. PowerAt(draw)[w] - PowerAt(After(<<>>))[w] = g * (d - Draw(w))
    BY <1>1, <1>3, <2>1 DEF PowerAt, d, g
  <2>4. RegainedAt(draw)[w] = g * least /\ least \in Nat
    BY <1>4, <1>5, <2>1, <2>2
  <2>5. g * (d - Draw(w)) <= g * least
    BY <1>1, <1>2, <2>2, <2>4
  <2> QED
    BY <1>6, <2>3, <2>4, <2>5
<1> QED
  BY <1>6, <1>7, <1>8 DEF d

\* A recovery passes the target by no more than the cooling of what it gives back.
LEMMA RecoveryAccounts ==
    ASSUME ClusterTypeOK, ~(Excess > 0), NEW s \in Seq(Restorable),
           Distinct(PlanAlong(s, Target - FacilityPower))
    PROVE  AccountedAs("rate_limited_recovery", After(PlanAlong(s, Target - FacilityPower)))
<1> DEFINE n == Len(s)
           headroom == Target - FacilityPower
           plan == PlanAlong(s, headroom)
           draw == After(plan)
<1>1. n \in Nat /\ headroom \in Nat
  BY ExcessType
<1>2. PICK f : PlanStates(s, headroom, f)
  <2>1. \A w \in Restorable, p \in Plans : Turn(p, w) \in Plans
    BY RecoverTurn DEF Turn, RaisesTo
  <2> HIDE DEF headroom
  <2> QED
    BY <1>1, <2>1, PlanRuns
<1>3. /\ f \in [0..n -> Plans] /\ f[0] = [watts |-> headroom, actions |-> <<>>] /\ plan = f[n].actions
      /\ \A k \in 1..n : f[k] = Recover(f[k - 1], s[k]) /\ s[k] \in Restorable
  BY <1>2 DEF PlanStates, Turn
<1> HIDE DEF plan, n
<1> DEFINE good == {k \in 0..n : RaisedSoFar(f[k])}
<1>4. 0 \in good
  <2>1. f[0].watts = headroom /\ f[0].actions = <<>>
    BY <1>3
  <2>2. /\ After(<<>>) \in Draws /\ Total(PowerAt(After(<<>>))) \in Int
        /\ \A w \in Workloads : After(<<>>)[w] = Draw(w)
    BY DrawType, PowerType
  <2>3. Saved(<<>>) = 0
    BY <2>2 DEF Saved
  <2>4. headroom - 100 * 0 = headroom
    BY <1>1
  <2>5. RaisedSoFar(f[0])
    BY <2>1, <2>2, <2>3, <2>4 DEF RaisedSoFar
  <2> QED
    BY <1>1, <2>5
<1>5. ASSUME NEW k \in 1..n, k - 1 \in good
      PROVE  k \in good
  <2>1. k \in 0..n /\ k - 1 \in 0..n /\ f[k - 1] \in Plans /\ RaisedSoFar(f[k - 1])
    BY <1>1, <1>3, <1>5
  <2>2. RaisedSoFar(Recover(f[k - 1], s[k]))
    BY <1>3, <2>1, RecoverKeeps
  <2> QED
    BY <1>3, <2>1, <2>2
<1>6. RaisedSoFar(f[n]) /\ f[n].watts \in Nat
  <2>1. \A k \in 1..n : k - 1 \in good => k \in good
    BY <1>5
  <2>2. \A k \in 0..n : k \in good
    <3> HIDE DEF good
    <3> QED
      BY <1>1, <1>4, <2>1, LoopKeeps
  <2> QED
    BY <1>1, <1>3, <2>2 DEF Plans
<1>7. /\ draw \in Draws /\ f[n].watts - 100 * Saved(plan) = headroom
      /\ \A w \in Workloads :
            \/ draw[w] = Draw(w)
            \/ w \in Restorable /\ Draw(w) < draw[w] /\ draw[w] - Draw(w) <= RecoveryStep
  BY <1>3, <1>6 DEF RaisedSoFar, plan
<1> HIDE DEF draw
<1> DEFINE before == PowerAt(After(<<>>))
           rise == [w \in Workloads |-> PowerAt(draw)[w] - before[w]]
           risen == Total(rise)
<1>8. /\ before \in [Workloads -> Int] /\ PowerAt(draw) \in [Workloads -> Int]
      /\ Total(before) \in Int /\ Total(PowerAt(draw)) \in Int
  BY <1>7, DrawType, PowerType
<1>9. rise \in [Workloads -> Int] /\ RegainedAt(draw) \in [Workloads -> Int]
      /\ \A w \in Workloads : rise[w] <= RegainedAt(draw)[w]
  <2>1. \A w \in Workloads : /\ RegainedAt(draw)[w] \in Int
                             /\ PowerAt(draw)[w] - before[w] <= RegainedAt(draw)[w]
    BY <1>7, RiseIsRegained
  <2>2. RegainedAt(draw) = [w \in Workloads |-> RegainedAt(draw)[w]]
    BY DEF RegainedAt
  <2> HIDE DEF before
  <2>3. rise \in [Workloads -> Int]
    BY <1>8
  <2> QED
    BY <2>1, <2>2, <2>3
<1>10. Total(PowerAt(draw)) = Total(before) + risen
  <2>1. \A w \in Workloads : PowerAt(draw)[w] = before[w] + rise[w]
    <3> HIDE DEF before
    <3> QED
      BY <1>8
  <2> HIDE DEF before, rise
  <2> QED
    BY <1>8, <1>9, <2>1, TotalAdds
<1>11. risen \in Int /\ Total(RegainedAt(draw)) \in Int /\ risen <= Total(RegainedAt(draw))
  <2> HIDE DEF rise
  <2> QED
    BY <1>9, TotalType, TotalGrows
<1> HIDE DEF risen
<1>12. Saved(plan) = - risen
  BY <1>8, <1>10, <1>11 DEF Saved, draw
<1>13. Cooling \in Nat /\ Target \in Int /\ FacilityPower \in Int /\ Overhead \in Nat
       /\ FacilityPower = Facility(Total(before))
  BY <1>7, DrawType, PowerType, ExcessType
<1> DEFINE cooled == Cooling * risen
           bound == Cooling * Total(RegainedAt(draw))
<1>14. /\ Facility(Total(PowerAt(draw))) = Facility(Total(before)) + 100 * risen + cooled
       /\ Facility(Total(before)) \in Int /\ cooled \in Int /\ bound \in Int
       /\ cooled <= bound
  <2>1. \A x, y \in Int, c \in Nat : /\ (x + y) * (100 + c) = x * (100 + c) + 100 * y + c * y
                                     /\ x * (100 + c) \in Int /\ c * y \in Int
    OBVIOUS
  <2>2. \A x, y \in Int, c \in Nat : x <= y => c * x <= c * y
    OBVIOUS
  <2> DEFINE it == Total(before)
             power == it * (100 + Cooling)
  <2> HIDE DEF before
  <2>3. /\ (it + risen) * (100 + Cooling) = power + 100 * risen + cooled
        /\ power \in Int /\ cooled \in Int /\ bound \in Int
    BY <1>8, <1>11, <1>13, <2>1
  <2>4. cooled <= bound
    BY <1>11, <1>13, <2>2
  <2>5. Facility(it + risen) = 100 * Overhead + (it + risen) * (100 + Cooling)
    BY DEF Facility, Hundredths
  <2>6. Facility(it) = 100 * Overhead + power
    BY DEF Facility, Hundredths
  <2> HIDE DEF it, power, cooled, bound
  <2>7. Facility(it + risen) = Facility(it) + 100 * risen + cooled /\ Facility(it) \in Int
    BY <1>11, <1>13, <2>3, <2>5, <2>6
  <2> QED
    BY <1>10, <2>3, <2>4, <2>7 DEF it
<1> HIDE DEF cooled, before
<1>15. Facility(Total(PowerAt(draw))) - Target <= bound
  <2>1. f[n].watts + 100 * risen = Target - FacilityPower
    BY <1>6, <1>7, <1>11, <1>12
  <2> HIDE DEF headroom, bound
  <2> QED
    BY <1>6, <1>11, <1>13, <1>14, <2>1
<1> QED
  BY <1>15 DEF AccountedAs, draw, plan

-----------------------------------------------------------------------------
(* The excess is accounted for from the decision to the sample.            *)

\* Every decision that passes validation accounts for the excess it leaves.
LEMMA DecisionAccounts ==
    ASSUME ClusterTypeOK, ReserveCoversRounding, Validated(Recommendation)
    PROVE  /\ Distinct(Recommendation)
           /\ AccountedAs(IF Recommendation = <<>> THEN "none"
                          ELSE IF Excess > 0 THEN "power_envelope" ELSE "rate_limited_recovery",
                          After(Recommendation))
<1> DEFINE plan == Recommendation
<1>1. Distinct(plan)
  BY DEF Validated, Distinct
<1>2. AccountedAs("power_envelope", After(plan)) => AccountedAs("none", After(plan))
  BY DEF AccountedAs
<1>3. CASE Excess > 0
  <2> DEFINE s == OpportunisticFirst(Cappable)
  <2>1. Lists(s, Cappable)
    <3>1. Cappable \in SUBSET Workloads
      BY DEF Cappable, Running
    <3> QED
      BY <3>1, OrdersList
  <2>2. plan = PlanAlong(s, Excess)
    BY <1>3 DEF Recommendation
  <2> HIDE DEF s, plan
  <2>3. AccountedAs("power_envelope", After(plan))
    BY <1>1, <1>3, <2>1, <2>2, ReductionAccounts
  <2> QED
    BY <1>1, <1>2, <1>3, <2>3 DEF plan
<1>4. CASE ~(Excess > 0)
  <2> DEFINE s == OpportunisticLast(Restorable)
  <2>1. s \in Seq(Restorable)
    <3>1. Restorable \in SUBSET Workloads
      BY DEF Restorable, Running
    <3> QED
      BY <3>1, OrdersList DEF Lists
  <2>2. plan = PlanAlong(s, Target - FacilityPower)
    BY <1>4 DEF Recommendation
  <2> HIDE DEF s, plan
  <2>3. AccountedAs("rate_limited_recovery", After(plan))
    BY <1>1, <1>4, <2>1, <2>2, RecoveryAccounts
  <2>4. ASSUME plan = <<>>
        PROVE  AccountedAs("none", After(plan))
    <3>1. /\ FacilityPower = Facility(Total(PowerAt(After(plan)))) /\ FacilityPower \in Int
          /\ Target \in Int /\ Target - FacilityPower \in Nat
          /\ envelope \in Nat /\ Reserve \in Nat
      BY <1>4, <2>4, DrawType, PowerType, ExcessType
    <3>2. ~(FacilityPower > Hundredths(envelope))
      BY <3>1 DEF Target, Hundredths
    <3> QED
      BY <3>1, <3>2 DEF AccountedAs
  <2> QED
    BY <1>1, <1>4, <2>3, <2>4 DEF plan
<1> QED
  BY <1>3, <1>4

\* Carrying out the first action of a plan leaves what the plan leads to.
LEMMA AppliedLeaves ==
    ASSUME ClusterTypeOK, NEW plan \in Seq(PowerCaps), plan # <<>>, Distinct(plan),
           cap[Head(plan).workload] = Head(plan).value
    PROVE  Distinct(Tail(plan)) /\ After(Tail(plan)) = After(plan)
<1> DEFINE rest == Tail(plan)
           n == Len(plan)
<1>1. /\ n \in Nat \ {0} /\ DOMAIN plan = 1..n /\ DOMAIN rest = 1 .. n - 1
      /\ Head(plan) = plan[1] /\ \A i \in 1 .. n - 1 : rest[i] = plan[i + 1]
      /\ \A i \in 1..n : plan[i] \in PowerCaps
  OBVIOUS
<1>2. \A i \in 1..n : plan[i].workload \in Workloads
  BY <1>1 DEF PowerCaps
<1> HIDE DEF rest, n
<1>3. Distinct(rest)
  <2> SUFFICES ASSUME NEW i \in 1 .. n - 1, NEW j \in 1 .. n - 1, rest[i].workload = rest[j].workload
               PROVE  i = j
    BY <1>1 DEF Distinct
  <2>1. i + 1 \in DOMAIN plan /\ j + 1 \in DOMAIN plan
    BY <1>1
  <2>2. plan[i + 1].workload = plan[j + 1].workload
    BY <1>1
  <2>3. i + 1 = j + 1
    BY <2>1, <2>2 DEF Distinct
  <2> QED
    BY <1>1, <2>3
<1>4. Leaves(plan[1]) = Draw(plan[1].workload)
  BY <1>1 DEF Leaves, Draw
<1>5. ASSUME NEW w \in Workloads
      PROVE  After(rest)[w] = After(plan)[w]
  <2>1. /\ \A i \in DOMAIN rest : rest[i].workload \in Workloads
        /\ \A i \in DOMAIN plan : plan[i].workload \in Workloads
    BY <1>1, <1>2
  <2>2. CASE w = plan[1].workload
    <3>1. \A i \in DOMAIN rest : rest[i].workload # w
      BY <1>1, <2>2 DEF Distinct
    <3>2. After(rest)[w] = Draw(w)
      BY <1>3, <2>1, <3>1, AfterPlan
    <3>3. After(plan)[w] = Leaves(plan[1])
      BY <1>1, <2>1, <2>2, AfterPlan
    <3> QED
      BY <1>4, <2>2, <3>2, <3>3
  <2>3. CASE \E i \in 1 .. n - 1 : plan[i + 1].workload = w
    <3>1. PICK i \in 1 .. n - 1 : plan[i + 1].workload = w
      BY <2>3
    <3>2. i \in DOMAIN rest /\ rest[i] = plan[i + 1] /\ i + 1 \in DOMAIN plan
      BY <1>1
    <3>3. After(rest)[w] = Leaves(plan[i + 1])
      BY <1>3, <2>1, <3>1, <3>2, AfterPlan
    <3>4. After(plan)[w] = Leaves(plan[i + 1])
      BY <2>1, <3>1, <3>2, AfterPlan
    <3> QED
      BY <3>3, <3>4
  <2>4. CASE w # plan[1].workload /\ ~\E i \in 1 .. n - 1 : plan[i + 1].workload = w
    <3>1. \A i \in DOMAIN rest : rest[i].workload # w
      BY <1>1, <2>4
    <3>2. \A i \in DOMAIN plan : plan[i].workload # w
      <4>1. \A i \in 1..n : i = 1 \/ (i - 1 \in 1 .. n - 1 /\ (i - 1) + 1 = i)
        BY <1>1
      <4> QED
        BY <1>1, <2>4, <4>1
    <3>3. After(rest)[w] = Draw(w) /\ After(plan)[w] = Draw(w)
      BY <1>3, <2>1, <3>1, <3>2, AfterPlan
    <3> QED
      BY <3>3
  <2> QED
    BY <2>2, <2>3, <2>4
<1>6. After(rest) = [w \in Workloads |-> After(rest)[w]] /\ After(plan) = [w \in Workloads |-> After(plan)[w]]
  BY DEF After
<1> QED
  BY <1>3, <1>5, <1>6 DEF rest

\* Applying the first action changes nothing of what the plan leads to.
LEMMA ApplyingLeaves ==
    ASSUME ClusterInv, Apply, Distinct(todo)
    PROVE  After(todo)' = After(todo)
<1> USE DEF ClusterInv
<1> DEFINE a == Head(todo)
<1>1. /\ todo' = todo /\ todo \in Seq(PowerCaps) /\ todo # <<>>
      /\ cap' = [cap EXCEPT ![a.workload] = a.value]
      /\ cap \in [Workloads -> NumberedOrNone]
  BY DEF Apply, PlanOK, ClusterTypeOK, NumberedOrNone
<1>2. /\ 1 \in DOMAIN todo /\ a = todo[1]
      /\ \A i \in DOMAIN todo : todo[i].workload \in Workloads
  <2>1. 1 \in DOMAIN todo /\ a = todo[1] /\ \A i \in DOMAIN todo : todo[i] \in PowerCaps
    BY <1>1
  <2> QED
    BY <2>1 DEF PowerCaps
<1> HIDE DEF a
<1>3. ASSUME NEW w \in Workloads
      PROVE  (IF \E i \in DOMAIN todo : todo[i].workload = w
              THEN Leaves(todo[CHOOSE i \in DOMAIN todo : todo[i].workload = w])
              ELSE Draw(w)')
             = (IF \E i \in DOMAIN todo : todo[i].workload = w
                THEN Leaves(todo[CHOOSE i \in DOMAIN todo : todo[i].workload = w])
                ELSE Draw(w))
  <2>1. (\A i \in DOMAIN todo : todo[i].workload # w) => Draw(w)' = Draw(w)
    BY <1>1, <1>2 DEF Draw
  <2> QED
    BY <2>1
<1> QED
  BY <1>1, <1>3 DEF After, Leaves

\* What accounts for the excess depends on nothing that these steps change.
LEMMA AccountStays ==
    ASSUME UNCHANGED <<reason, envelope, floor, state>>, After(todo)' = After(todo), Accounted(After(todo))
    PROVE  Accounted(After(todo))'
  BY DEF Accounted, AccountedAs, PowerAt, RegainedAt, Cappable, Running, Target

LEMMA ExcessInit == Init => PlanAccounts
  BY DEF Init, PlanAccounts

LEMMA ExcessNext ==
    ASSUME ClusterInv, ReserveCoversRounding, PlanAccounts, [Next]_vars
    PROVE  PlanAccounts'
<1>t. ClusterTypeOK
  BY DEF ClusterInv
<1>1. CASE Decide
  <2> DEFINE plan == Recommendation
             why == IF plan = <<>> THEN "none"
                    ELSE IF Excess > 0 THEN "power_envelope" ELSE "rate_limited_recovery"
  <2>1. /\ Validated(plan) /\ todo' = plan /\ reason' = why /\ pc' = "control"
        /\ UNCHANGED <<state, cap, floor, envelope>>
    BY <1>1 DEF Decide, cluster, environment
  <2>2. Distinct(plan) /\ AccountedAs(why, After(plan))
    BY <1>t, <2>1, DecisionAccounts
  <2> HIDE DEF plan, why
  <2>3. Distinct(todo)' /\ After(todo)' = After(plan)
    BY <2>1, <2>2 DEF Distinct, After, Leaves, Draw
  <2>4. Accounted(After(todo))'
    BY <2>1, <2>2, <2>3
       DEF Accounted, AccountedAs, PowerAt, RegainedAt, Cappable, Running, Target
  <2> QED
    BY <2>1, <2>3, <2>4 DEF PlanAccounts
<1>2. CASE Apply
  <2>1. Distinct(todo) /\ Accounted(After(todo))
    BY <1>2 DEF Apply, PlanAccounts
  <2>2. After(todo)' = After(todo)
    BY <1>2, <2>1, ApplyingLeaves
  <2>3. pc' = "applying" /\ todo' = todo /\ UNCHANGED <<reason, envelope, floor, state>>
    BY <1>2 DEF Apply, environment
  <2>4. Accounted(After(todo))'
    BY <2>1, <2>2, <2>3, AccountStays
  <2> QED
    BY <2>1, <2>3, <2>4 DEF PlanAccounts, Distinct
<1>3. CASE ActionOutcome
  <2>1. /\ todo \in Seq(PowerCaps) /\ todo # <<>> /\ Distinct(todo) /\ Accounted(After(todo))
        /\ cap = [memory.caps EXCEPT ![Head(todo).workload] = Head(todo).value]
        /\ memory.caps \in [Workloads -> NumberedOrNone]
    BY <1>3 DEF ActionOutcome, PlanAccounts, ClusterInv, PlanOK, MemoryOK, ClusterTypeOK, Logs, NumberedOrNone
  <2>2. cap[Head(todo).workload] = Head(todo).value
    <3>1. Head(todo).workload \in Workloads
      BY <1>3, <2>1, PlanHead DEF ClusterInv, ActionOutcome
    <3> QED
      BY <2>1, <3>1
  <2>3. Distinct(Tail(todo)) /\ After(Tail(todo)) = After(todo)
    BY <1>t, <2>1, <2>2, AppliedLeaves
  <2>4. pc' = "control" /\ todo' = Tail(todo) /\ UNCHANGED <<reason, envelope, floor, state, cap>>
    BY <1>3 DEF ActionOutcome, cluster, environment
  <2>5. After(todo)' = After(todo)
    <3>1. After(todo)' = After(Tail(todo))
      BY <2>4 DEF After, Leaves, Draw
    <3> QED
      BY <2>3, <3>1
  <2>6. Accounted(After(todo))'
    BY <2>1, <2>4, <2>5, AccountStays
  <2>7. Distinct(todo)'
    BY <2>3, <2>4 DEF Distinct
  <2> QED
    BY <2>4, <2>6, <2>7 DEF PlanAccounts
<1>4. CASE ControlDone
  <2>1. /\ todo = <<>> /\ Accounted(After(todo)) /\ pc' = "sampling"
        /\ UNCHANGED <<reason, envelope, floor, state, cap, todo>>
    BY <1>4 DEF ControlDone, PlanAccounts, cluster, environment
  <2>2. After(todo)' = After(todo)
    BY <2>1 DEF After, Leaves, Draw
  <2>3. Accounted(After(todo))'
    BY <2>1, <2>2, AccountStays
  <2>4. todo' = <<>>
    BY <2>1
  <2>5. Accounted(After(<<>>))'
    BY <2>3, <2>4 DEF Accounted
  <2> QED
    BY <2>1, <2>5 DEF PlanAccounts
<1>5. CASE UNCHANGED vars
  <2>1. UNCHANGED <<pc, reason, envelope, floor, state, cap, todo>>
    BY <1>5 DEF vars, cluster, environment
  <2>2. After(todo)' = After(todo) /\ After(<<>>)' = After(<<>>)
    BY <2>1 DEF After, Leaves, Draw
  <2>3. Accounted(After(todo)) => Accounted(After(todo))'
    BY <2>1, <2>2, AccountStays
  <2>4. Accounted(After(<<>>)) => Accounted(After(<<>>))'
    BY <2>1, <2>2 DEF Accounted, AccountedAs, PowerAt, RegainedAt, Cappable, Running, Target
  <2>5. Distinct(todo)' = Distinct(todo)
    BY <2>1 DEF Distinct
  <2> QED
    BY <2>1, <2>3, <2>4, <2>5 DEF PlanAccounts
<1>6. CASE /\ Next /\ ~Decide /\ ~Apply /\ ~ActionOutcome /\ ~ControlDone
  <2>1. pc' \notin {"control", "applying", "sampling"}
    BY <1>6 DEF Next, Loop, Begin, BeginSecond, PassOver, Admit, AdmissionOutcome, PlanRefused, Advance,
                AdmissionRolledBack, ActionRolledBack, RowFails, RecordFails
  <2> QED
    BY <2>1 DEF PlanAccounts
<1> QED
  BY <1>1, <1>2, <1>3, <1>4, <1>5, <1>6

\* After a control step, power above the envelope means that every workload
\* that may be capped is at its floor, or that a recovery left out the cooling
\* of what it gave back (controller.py:30-73, simulator.py:183-203), for any
\* workloads, provided the reserve covers the rounding of one cap.
THEOREM ExcessAccounted ==
    ASSUME ReserveCoversRounding
    PROVE  Spec => []ExcessIsAccountedFor
<1>1. Init => ClusterInv /\ PlanAccounts
  BY ClusterInit, ExcessInit
<1>2. ClusterInv /\ PlanAccounts /\ [Next]_vars => ClusterInv' /\ PlanAccounts'
  <2>1. ReserveCoversRounding
    OBVIOUS
  <2> QED
    BY <2>1, ClusterNext, ExcessNext
<1>3. ClusterInv /\ PlanAccounts => ExcessIsAccountedFor
  <2> SUFFICES ASSUME ClusterInv, PlanAccounts, pc = "sampling"
               PROVE  IF reason = "rate_limited_recovery"
                      THEN FacilityPower - Target <= Cooling * Total([w \in Workloads |-> Regained(w)])
                      ELSE FacilityPower > Hundredths(envelope) => \A w \in Cappable : Draw(w) <= floor[w]
    BY DEF ExcessIsAccountedFor
  <2>1. /\ FacilityPower = Facility(Total(PowerAt(After(<<>>))))
        /\ \A w \in Workloads : After(<<>>)[w] = Draw(w)
    BY DrawType DEF ClusterInv
  <2>2. RegainedAt(After(<<>>)) = [w \in Workloads |-> Regained(w)]
    BY <2>1 DEF RegainedAt, Regained
  <2>3. \A w \in Cappable : w \in Workloads
    BY DEF Cappable, Running
  <2>4. AccountedAs(reason, After(<<>>))
    BY DEF PlanAccounts, Accounted
  <2> QED
    BY <2>1, <2>2, <2>3, <2>4 DEF AccountedAs
<1> QED
  BY <1>1, <1>2, <1>3, PTL DEF Spec
=============================================================================
