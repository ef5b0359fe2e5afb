---------------------- MODULE StartupOrchestratorProofs ----------------------
(* Theorems about StartupOrchestrator, for every set of keys, any phases,  *)
(* priorities, commands and limits, and any number of submissions.         *)
EXTENDS StartupOrchestrator, FiniteSetTheorems, TLAPS

-----------------------------------------------------------------------------
(* Type correctness.                                                       *)

TaskType ==
  /\ generation \in 0 .. MaxRuns
  /\ \A g \in Generation :
       task[g] \in (IF g <= generation THEN Submission ELSE {NoSubmission})
  /\ DOMAIN task = Generation

MapType ==
  /\ queue \subseteq 1 .. generation
  /\ drain \subseteq queue
  /\ inFlight \in [Keys -> 0 .. generation]
  /\ running \in [Keys -> 0 .. generation]
  /\ cancelled \subseteq 1 .. generation
  /\ withdrawn \subseteq 1 .. generation

CountType ==
  /\ phaseCount \in [Phases -> Nat]
  /\ commandCount \in [Commands -> Nat]

IdleType ==
  /\ slice \in {"none", "within", "over"}
  /\ resumed \in BOOLEAN /\ resuming \in BOOLEAN

LEMMA TypeParts == TypeOK <=> TaskType /\ MapType /\ CountType /\ IdleType
BY Zenon DEF TypeOK, TaskType, MapType, CountType, IdleType

\* Submissions that have been made, and the fields of one.
LEMMA Submitted ==
  ASSUME TaskType, NEW g \in Generation
  PROVE  /\ generation \in Nat /\ MaxRuns \in Nat /\ generation <= MaxRuns
         /\ g \in 1 .. generation <=> task[g].where # "none"
         /\ g \in 1 .. generation => task[g] \in Submission /\ task[g].key \in Keys
         /\ g \notin 1 .. generation => task[g] = NoSubmission
<1>1. /\ generation \in Nat /\ MaxRuns \in Nat /\ generation <= MaxRuns
      /\ g \in Nat /\ g >= 1
  BY StartupAssumption DEF TaskType, Generation
<1>2. task[g] \in (IF g <= generation THEN Submission ELSE {NoSubmission})
  BY DEF TaskType
<1>3. CASE g <= generation
  <2>1. task[g] \in Submission
    BY <1>2, <1>3
  <2>2. QED BY <1>1, <1>3, <2>1 DEF Submission
<1>4. CASE ~(g <= generation)
  <2>1. task[g] = NoSubmission
    BY <1>2, <1>4
  <2>2. task[g].where = "none"
    BY <2>1 DEF NoSubmission
  <2>3. QED BY <1>1, <1>4, <2>1, <2>2
<1>5. QED BY <1>3, <1>4, <1>1

LEMMA GenerationSet ==
  ASSUME TaskType
  PROVE  1 .. generation \subseteq Generation
BY StartupAssumption DEF TaskType, Generation

\* What a submission may become: all that is known of it is kept by EXCEPT.
LEMMA TaskTypeStep ==
  ASSUME TaskType, UNCHANGED generation, DOMAIN task' = Generation,
         \A g \in Generation :
           task'[g] = task[g] \/ (g \in 1 .. generation /\ task'[g] \in Submission)
  PROVE  TaskType'
BY Submitted DEF TaskType, Generation

\* The counters stay numbers, and grow only when a task is started.
LEMMA Decremented ==
  ASSUME TaskType, CountType, NEW G \in SUBSET (1 .. generation), decrementRunning(G)
  PROVE  /\ CountType'
         /\ \A p \in Phases : phaseCount'[p] <= phaseCount[p]
         /\ \A c \in Commands : commandCount'[c] <= commandCount[c]
<1>1. IsFiniteSet(G)
  <2>1. generation \in Int /\ 1 \in Int
    BY DEF TaskType
  <2>2. IsFiniteSet(1 .. generation)
    BY <2>1, FS_Interval
  <2>3. QED BY <2>2, FS_Subset
<1>2. \A T \in SUBSET G : Cardinality(T) \in Nat
  BY <1>1, FS_Subset, FS_CardinalityType
<1>3. \A m, n \in Nat : Minus(m, n) \in Nat /\ Minus(m, n) <= m
  BY DEF Minus
<1>4. ASSUME NEW p \in Phases
      PROVE  phaseCount'[p] \in Nat /\ phaseCount'[p] <= phaseCount[p]
  <2>1. phaseCount'[p] =
          Minus(phaseCount[p], Cardinality({g \in G : PhaseOf[task[g].key] = p}))
    BY DEF decrementRunning
  <2>2. QED BY <1>2, <1>3, <2>1 DEF CountType
<1>5. ASSUME NEW c \in Commands
      PROVE  commandCount'[c] \in Nat /\ commandCount'[c] <= commandCount[c]
  <2>1. commandCount'[c] =
          Minus(commandCount[c], Cardinality({g \in G : CommandOf[task[g].key] = c}))
    BY DEF decrementRunning
  <2>2. QED BY <1>2, <1>3, <2>1 DEF CountType
<1>6. QED BY <1>4, <1>5 DEF CountType, decrementRunning

LEMMA PhaseTypes ==
  ASSUME NEW k \in Keys
  PROVE  /\ PhaseOf[k] \in Phases /\ CommandOf[k] \in Commands
         /\ PhaseLimit[PhaseOf[k]] \in Nat
BY StartupAssumption DEF Commands

LEMMA Incremented ==
  ASSUME CountType, NEW k \in Keys, incrementRunning(k)
  PROVE  CountType'
BY PhaseTypes DEF CountType, incrementRunning

LEMMA HoldersType ==
  ASSUME MapType, TaskType
  PROVE  Holders \subseteq 1 .. generation
<1>1. generation \in Nat
  BY DEF TaskType
<1>2. \A k \in Keys : running[k] \in 0 .. generation
  BY DEF MapType
<1>3. \A n \in 0 .. generation : n # 0 => n \in 1 .. generation
  BY <1>1
<1>4. QED BY <1>2, <1>3 DEF MapType, Holders

LEMMA TypeInit == Init => TypeOK
<1> SUFFICES ASSUME Init PROVE TypeOK
  OBVIOUS
<1>1. TaskType
  <2>1. generation = 0 /\ \A g \in Generation : ~(g <= 0)
    BY DEF Init, Generation
  <2>2. QED BY <2>1, StartupAssumption DEF Init, TaskType
<1>2. MapType
  BY DEF Init, MapType
<1>3. CountType
  BY DEF Init, CountType
<1>4. IdleType
  BY DEF Init, IdleType
<1>5. QED BY <1>1, <1>2, <1>3, <1>4, TypeParts

\* What becomes of the submission a step is about, the others being left alone.
Becomes(g, t) ==
  /\ DOMAIN task' = DOMAIN task
  /\ \A h \in Generation \ {g} : task'[h] = task[h]
  /\ task'[g] = t

Started(t) == [t EXCEPT !.where = "racing", !.slot = TRUE, !.body = TRUE]
Ended(t) == [t EXCEPT !.where = "over", !.body = FALSE, !.slot = FALSE,
                      !.caller = IF t.caller = "waiting" THEN "answered" ELSE t.caller]
Orphaned(t) == [t EXCEPT !.body = FALSE]
Late(t) == [t EXCEPT !.where = "settling", !.caller = "fallback"]
LateCancelled(t) == [t EXCEPT !.where = "over", !.slot = FALSE]
FellBack(t) ==
  [t EXCEPT !.caller = "answered",
            !.where = IF t.where = "settling" THEN "over" ELSE t.where,
            !.slot = IF t.where = "settling" THEN FALSE ELSE t.slot]
CancelledOut(t) ==
  [t EXCEPT !.slot = FALSE,
            !.where = IF t.where = "queued" THEN "over" ELSE t.where,
            !.caller = IF t.caller = "waiting" THEN "fallback" ELSE t.caller]

LEMMA Becoming ==
  ASSUME TaskType, NEW g \in Generation
  PROVE  /\ DrainStarts(g) => Becomes(g, Started(task[g]))
         /\ BodyEnds(g) => Becomes(g, Ended(task[g]))
         /\ OrphanEnds(g) => Becomes(g, Orphaned(task[g]))
         /\ TimesOut(g) => Becomes(g, Late(task[g]))
         /\ TimesOutCancelled(g) => Becomes(g, LateCancelled(task[g]))
         /\ FallbackEnds(g) => Becomes(g, FellBack(task[g]))
<1> USE DEF Becomes, TaskType
<1>1. DrainStarts(g) => Becomes(g, Started(task[g]))
  BY DEF DrainStarts, Started
<1>2. BodyEnds(g) => Becomes(g, Ended(task[g]))
  BY DEF BodyEnds, Ended
<1>3. OrphanEnds(g) => Becomes(g, Orphaned(task[g]))
  BY DEF OrphanEnds, Orphaned
<1>4. TimesOut(g) => Becomes(g, Late(task[g]))
  BY DEF TimesOut, Late
<1>5. TimesOutCancelled(g) => Becomes(g, LateCancelled(task[g]))
  BY DEF TimesOutCancelled, LateCancelled
<1>6. FallbackEnds(g) => Becomes(g, FellBack(task[g]))
  BY DEF FallbackEnds, FellBack
<1>7. QED BY <1>1, <1>2, <1>3, <1>4, <1>5, <1>6

LEMMA BecomesSubmission ==
  ASSUME NEW t \in Submission
  PROVE  /\ Started(t) \in Submission /\ Ended(t) \in Submission
         /\ Orphaned(t) \in Submission /\ Late(t) \in Submission
         /\ LateCancelled(t) \in Submission /\ FellBack(t) \in Submission
         /\ CancelledOut(t) \in Submission
BY DEF Started, Ended, Orphaned, Late, LateCancelled, FellBack, CancelledOut, Submission

\* The submissions that the steps about one of them find.
LEMMA Found ==
  ASSUME TaskType, MapType, NEW g \in Generation,
         (g \in drain /\ DrainStarts(g)) \/ BodyEnds(g) \/ OrphanEnds(g) \/ TimesOut(g)
           \/ TimesOutCancelled(g) \/ FallbackEnds(g)
  PROVE  g \in 1 .. generation /\ task[g] \in Submission /\ UNCHANGED generation
<1>1. CASE g \in drain /\ DrainStarts(g)
  BY <1>1, Submitted DEF DrainStarts, MapType
<1>2. CASE FallbackEnds(g)
  <2>1. task[g] # NoSubmission
    BY <1>2 DEF FallbackEnds, NoSubmission
  <2>2. QED BY <1>2, <2>1, Submitted DEF FallbackEnds, Finish
<1>3. CASE OrphanEnds(g)
  BY <1>3, Submitted DEF OrphanEnds
<1>4. CASE BodyEnds(g) \/ TimesOut(g) \/ TimesOutCancelled(g)
  BY <1>4, Submitted DEF BodyEnds, TimesOut, TimesOutCancelled, Finish
<1>5. QED BY <1>1, <1>2, <1>3, <1>4

LEMMA CancelTasks ==
  ASSUME TaskType, NEW G \in SUBSET (1 .. generation), Cancel(G)
  PROVE  /\ UNCHANGED generation /\ DOMAIN task' = Generation
         /\ \A g \in Generation \ G : task'[g] = task[g]
         /\ \A g \in G : g \in Generation /\ task[g] \in Submission
                       /\ task'[g] = CancelledOut(task[g])
<1>1. UNCHANGED generation /\ DOMAIN task' = Generation
  BY DEF Cancel
<1>2. \A g \in Generation \ G : task'[g] = task[g]
  BY DEF Cancel
<1>3. ASSUME NEW g \in G
      PROVE  g \in Generation /\ task[g] \in Submission /\ task'[g] = CancelledOut(task[g])
  <2>1. g \in Generation
    BY GenerationSet
  <2>2. task'[g] = [task[g] EXCEPT
                  !.slot = FALSE,
                  !.where = IF @ = "queued" THEN "over" ELSE @,
                  !.caller = IF @ = "waiting" THEN "fallback" ELSE @]
    BY <2>1, Zenon DEF Cancel
  <2>3. task[g] \in Submission
    BY <2>1, Submitted
  <2>4. QED BY <2>1, <2>2, <2>3 DEF CancelledOut, Submission
<1>4. QED BY <1>1, <1>2, <1>3

LEMMA TaskTypeKept ==
  ASSUME TaskType, MapType, Next
  PROVE  TaskType'
<1>1. ASSUME NEW g \in 1 .. generation, NEW t \in Submission, UNCHANGED generation, Becomes(g, t)
      PROVE  TaskType'
  BY <1>1, TaskTypeStep DEF TaskType, Becomes
<1>2. ASSUME UNCHANGED <<generation, task>>
      PROVE  TaskType'
  BY <1>2 DEF TaskType
<1>3. ASSUME NEW k \in Keys, Run(k)
      PROVE  TaskType'
  <2> DEFINE new == [key |-> k, where |-> "queued", slot |-> FALSE, body |-> FALSE,
                     caller |-> "waiting"]
  <2>1. new \in Submission
    BY DEF Submission
  <2>2. /\ generation \in Nat /\ MaxRuns \in Nat /\ generation < MaxRuns
        /\ generation' = generation + 1 /\ task' = [task EXCEPT ![generation + 1] = new]
    BY <1>3, StartupAssumption DEF TaskType, Run
  <2> HIDE DEF new
  <2>3. DOMAIN task' = Generation
    BY <2>2 DEF TaskType
  <2>4. ASSUME NEW g \in Generation
        PROVE  task'[g] \in (IF g <= generation + 1 THEN Submission ELSE {NoSubmission})
    <3>1. task[g] \in (IF g <= generation THEN Submission ELSE {NoSubmission}) /\ g \in Nat
      BY DEF TaskType, Generation
    <3>2. task'[g] = IF g = generation + 1 THEN new ELSE task[g]
      BY <2>2 DEF TaskType
    <3>3. QED BY <2>1, <2>2, <3>1, <3>2
  <2>5. generation + 1 \in 0 .. MaxRuns
    BY <2>2
  <2>6. QED BY <2>2, <2>3, <2>4, <2>5 DEF TaskType
<1>4. ASSUME NEW g \in drain, DrainStarts(g)
      PROVE  TaskType'
  <2>1. g \in Generation
    BY GenerationSet DEF MapType
  <2>2. QED BY <1>1, <1>4, <2>1, Found, Becoming, BecomesSubmission
<1>5. ASSUME NEW g \in Generation,
             BodyEnds(g) \/ OrphanEnds(g) \/ TimesOut(g) \/ TimesOutCancelled(g) \/ FallbackEnds(g)
      PROVE  TaskType'
  BY <1>1, <1>5, Found, Becoming, BecomesSubmission
<1>6. ASSUME NEW G \in SUBSET (1 .. generation), Cancel(G)
      PROVE  TaskType'
  BY <1>6, CancelTasks, BecomesSubmission, TaskTypeStep
<1>7. CASE cancelAllTasks \/ \E k \in Keys : cancelTask(k)
  BY <1>6, <1>7, HoldersType DEF cancelAllTasks, cancelTask
<1>8. ASSUME NEW w, cancelWorkspaceTasks(w)
      PROVE  TaskType'
  BY <1>6, <1>8, HoldersType DEF cancelWorkspaceTasks
<1>9. CASE IdleResumes \/ SliceEnds
  BY <1>2, <1>9 DEF IdleResumes, SliceEnds
<1>10. ASSUME NEW g \in drain, DrainSkips(g) \/ DrainYields(g)
       PROVE  TaskType'
  BY <1>2, <1>10 DEF DrainSkips, DrainYields
<1>11. QED BY <1>3, <1>4, <1>5, <1>7, <1>8, <1>9, <1>10 DEF Next, Drains, Timer

LEMMA CountTypeKept ==
  ASSUME TaskType, MapType, CountType, Next
  PROVE  CountType'
<1> USE DEF counts, idle
<1>1. ASSUME UNCHANGED counts
      PROVE  CountType'
  BY <1>1 DEF CountType
<1>2. ASSUME NEW g \in Generation, task[g].where # "none", Finish(g)
      PROVE  CountType'
  BY <1>1, <1>2, Submitted, Decremented DEF Finish
<1>3. ASSUME NEW G \in SUBSET (1 .. generation), Cancel(G)
      PROVE  CountType'
  BY <1>3, Decremented DEF Cancel
<1>4. ASSUME NEW g \in Generation, BodyEnds(g) \/ TimesOutCancelled(g)
      PROVE  CountType'
  BY <1>2, <1>4 DEF BodyEnds, TimesOutCancelled
<1>5. ASSUME NEW g \in Generation, FallbackEnds(g)
      PROVE  CountType'
  BY <1>1, <1>2, <1>5 DEF FallbackEnds
<1>6. ASSUME NEW g \in Generation, OrphanEnds(g) \/ TimesOut(g)
      PROVE  CountType'
  BY <1>1, <1>6 DEF OrphanEnds, TimesOut
<1>7. ASSUME NEW g \in drain, DrainStarts(g)
      PROVE  CountType'
  <2>1. g \in Generation /\ g \in 1 .. generation
    BY GenerationSet DEF MapType
  <2>2. QED BY <1>7, <2>1, Submitted, Incremented DEF DrainStarts
<1>8. CASE cancelAllTasks \/ \E k \in Keys : cancelTask(k)
  BY <1>3, <1>8, HoldersType DEF cancelAllTasks, cancelTask
<1>9. ASSUME NEW w, cancelWorkspaceTasks(w)
      PROVE  CountType'
  BY <1>3, <1>9, HoldersType DEF cancelWorkspaceTasks
<1>10. CASE IdleResumes \/ SliceEnds \/ \E k \in Keys : Run(k)
  BY <1>1, <1>10 DEF IdleResumes, SliceEnds, Run
<1>11. ASSUME NEW g \in drain, DrainSkips(g) \/ DrainYields(g)
       PROVE  CountType'
  BY <1>1, <1>11 DEF DrainSkips, DrainYields
<1>12. QED BY <1>4, <1>5, <1>6, <1>7, <1>8, <1>9, <1>10, <1>11 DEF Next, Drains, Timer

LEMMA MapTypeKept ==
  ASSUME TaskType, MapType, Next
  PROVE  MapType'
<1> USE DEF counts, idle
<1>1. /\ generation \in Nat /\ queue \subseteq 1 .. generation /\ drain \subseteq queue
      /\ inFlight \in [Keys -> 0 .. generation] /\ running \in [Keys -> 0 .. generation]
      /\ cancelled \subseteq 1 .. generation /\ withdrawn \subseteq 1 .. generation
  BY DEF MapType, TaskType
<1>2. \A g \in 1 .. generation : g \in 0 .. generation /\ 0 \in 0 .. generation
  BY <1>1
<1>3. ASSUME UNCHANGED generation, queue' \subseteq queue, drain' \subseteq queue',
             inFlight' \in [Keys -> 0 .. generation], running' \in [Keys -> 0 .. generation],
             cancelled' \subseteq 1 .. generation, withdrawn' \subseteq 1 .. generation
      PROVE  MapType'
  BY <1>1, <1>3 DEF MapType
<1>4. ASSUME NEW k \in Keys, Run(k)
      PROVE  MapType'
  <2>1. \A n \in 0 .. generation : n \in 0 .. generation + 1
    BY <1>1
  <2>2. 1 .. generation \subseteq 1 .. generation + 1 /\ generation + 1 \in 1 .. generation + 1
    BY <1>1
  <2>3. generation + 1 \in 0 .. generation + 1
    BY <1>1
  <2>4. /\ inFlight' \in [Keys -> 0 .. generation + 1]
        /\ running' \in [Keys -> 0 .. generation + 1]
    BY <1>1, <1>4, <2>1, <2>3 DEF Run
  <2>5. QED BY <1>1, <1>4, <2>2, <2>4 DEF Run, DrainNext, MapType
<1>5. ASSUME NEW g \in 1 .. generation, task[g] \in Submission, Finish(g)
      PROVE  /\ UNCHANGED <<generation, queue>> /\ (drain = {} => drain' \subseteq queue')
             /\ running' \in [Keys -> 0 .. generation] /\ cancelled' \subseteq 1 .. generation
  BY <1>1, <1>2, <1>5 DEF Finish, DrainNext
<1>6. ASSUME NEW g \in 1 .. generation, releaseInFlight(g)
      PROVE  inFlight' \in [Keys -> 0 .. generation]
  BY <1>1, <1>2, <1>6 DEF releaseInFlight
<1>7. ASSUME NEW g \in Generation, BodyEnds(g)
      PROVE  MapType'
  BY <1>1, <1>3, <1>5, <1>6, <1>7, Found DEF BodyEnds
<1>8. ASSUME NEW g \in Generation, TimesOutCancelled(g)
      PROVE  MapType'
  BY <1>1, <1>3, <1>5, <1>8, Found DEF TimesOutCancelled
<1>9. ASSUME NEW g \in Generation, FallbackEnds(g)
      PROVE  MapType'
  BY <1>1, <1>3, <1>5, <1>6, <1>9, Found DEF FallbackEnds
<1>10. ASSUME NEW g \in Generation, OrphanEnds(g) \/ TimesOut(g)
       PROVE  MapType'
  BY <1>1, <1>3, <1>10 DEF OrphanEnds, TimesOut
<1>11. ASSUME NEW g \in drain, DrainStarts(g)
       PROVE  MapType'
  <2>1. running' \in [Keys -> 0 .. generation]
    BY <1>1, <1>2, <1>11 DEF DrainStarts
  <2>2. QED BY <1>1, <1>3, <1>11, <2>1 DEF DrainStarts
<1>12. ASSUME NEW g \in drain, DrainSkips(g) \/ DrainYields(g)
       PROVE  MapType'
  BY <1>1, <1>3, <1>12 DEF DrainSkips, DrainYields
<1>13. ASSUME NEW G \in SUBSET (1 .. generation), Cancel(G), DrainNext \/ NoDrain
       PROVE  MapType'
  <2>1. /\ inFlight' \in [Keys -> 0 .. generation] /\ running' \in [Keys -> 0 .. generation]
    <3>1. 0 \in 0 .. generation
      BY <1>1
    <3>2. /\ DOMAIN inFlight' = Keys /\ DOMAIN running' = Keys
          /\ inFlight' = [k \in Keys |-> inFlight'[k]]
          /\ running' = [k \in Keys |-> running'[k]]
          /\ \A k \in Keys : inFlight'[k] \in {0, inFlight[k]} /\ running'[k] \in {0, running[k]}
      BY <1>13 DEF Cancel
    <3>3. QED BY <1>1, <3>1, <3>2
  <2>2. QED BY <1>1, <1>3, <1>13, <2>1 DEF Cancel, DrainNext, NoDrain
<1>14. CASE cancelAllTasks \/ \E k \in Keys : cancelTask(k)
  BY <1>13, <1>14, HoldersType DEF cancelAllTasks, cancelTask
<1>15. ASSUME NEW w, cancelWorkspaceTasks(w)
       PROVE  MapType'
  BY <1>13, <1>15, HoldersType DEF cancelWorkspaceTasks
<1>16. CASE IdleResumes \/ SliceEnds
  BY <1>1, <1>3, <1>16 DEF IdleResumes, SliceEnds, DrainNext
<1>17. QED BY <1>4, <1>7, <1>8, <1>9, <1>10, <1>11, <1>12, <1>14, <1>15, <1>16
           DEF Next, Drains, Timer

LEMMA IdleTypeKept ==
  ASSUME IdleType, Next
  PROVE  IdleType'
<1> USE DEF IdleType, idle
<1>1. ASSUME UNCHANGED idle
      PROVE  IdleType'
  BY <1>1
<1>2. ASSUME NEW g \in drain, DrainSkips(g) \/ DrainYields(g) \/ DrainStarts(g)
      PROVE  IdleType'
  BY <1>2 DEF DrainSkips, DrainYields, DrainStarts
<1>3. ASSUME NEW g \in Generation, BodyEnds(g) \/ OrphanEnds(g) \/ TimesOut(g)
                                   \/ TimesOutCancelled(g) \/ FallbackEnds(g)
      PROVE  IdleType'
  BY <1>1, <1>3 DEF BodyEnds, OrphanEnds, TimesOut, TimesOutCancelled, FallbackEnds, Finish
<1>4. CASE cancelAllTasks \/ \E k \in Keys : cancelTask(k) \/ Run(k)
  BY <1>1, <1>4 DEF cancelAllTasks, cancelTask, Cancel, Run
<1>5. ASSUME NEW w, cancelWorkspaceTasks(w)
      PROVE  IdleType'
  BY <1>1, <1>5 DEF cancelWorkspaceTasks, Cancel
<1>6. CASE IdleResumes \/ SliceEnds
  BY <1>6 DEF IdleResumes, SliceEnds
<1>7. QED BY <1>2, <1>3, <1>4, <1>5, <1>6 DEF Next, Drains, Timer

LEMMA TypeStep ==
  ASSUME TypeOK, Next
  PROVE  TypeOK'
<1>1. TaskType /\ MapType /\ CountType /\ IdleType
  BY TypeParts
<1>2. TaskType' /\ MapType' /\ CountType' /\ IdleType'
  BY <1>1, TaskTypeKept, MapTypeKept, CountTypeKept, IdleTypeKept
<1>3. QED BY <1>2, Zenon DEF TypeOK, TaskType, MapType, CountType, IdleType

\* Every variable keeps its type, for any tasks, limits and submissions.
THEOREM StartupTypeCorrect == Spec => []TypeOK
<1>1. ASSUME TypeOK, UNCHANGED vars
      PROVE  TypeOK'
  BY <1>1, Zenon DEF TypeOK, vars, counts, idle
<1>2. TypeOK /\ [Next]_vars => TypeOK'
  BY <1>1, TypeStep
<1>3. QED BY TypeInit, <1>2, PTL DEF Spec

-----------------------------------------------------------------------------
(* A key names one task.                                                   *)

\* Where startTask is with a submission says whether it has a slot and whether its
\* caller has been given up on.
Shaped(t) ==
  /\ t.where = "queued" => ~t.slot /\ t.caller = "waiting"
  /\ t.where = "racing" => (t.slot <=> t.caller = "waiting")
  /\ t.where = "settling" => t.caller = "fallback"
  /\ t.where = "over" => ~t.slot

Shapes == \A g \in 1 .. generation : Shaped(task[g])

\* The map of running tasks has them under their own keys.
RunningKeys == \A k \in Keys : running[k] # 0 => task[running[k]].key = k

KeyInv == TypeOK /\ Shapes /\ RunningKeys /\ KeysNameOneTask

LEMMA KeyInit == Init => KeyInv
<1> SUFFICES ASSUME Init PROVE KeyInv
  OBVIOUS
<1>1. generation = 0 /\ 1 .. generation = {}
  BY DEF Init
<1>2. Shapes /\ RunningKeys /\ KeysNameOneTask
  BY <1>1 DEF Init, Shapes, RunningKeys, KeysNameOneTask
<1>3. QED BY <1>2, TypeInit DEF KeyInv

\* What the types and the invariant say of one submission.
LEMMA KeyFacts ==
  ASSUME KeyInv
  PROVE  /\ TaskType /\ MapType /\ generation \in Nat
         /\ \A g \in 1 .. generation :
              /\ g # 0 /\ g \in Generation
              /\ task[g] \in Submission /\ task[g].key \in Keys /\ Shaped(task[g])
              /\ task[g].where = "queued" <=> g \in queue
              /\ task[g].slot <=> running[task[g].key] = g
              /\ (task[g].where = "queued" \/ task[g].slot) <=> inFlight[task[g].key] = g
         /\ queue \subseteq 1 .. generation /\ drain \subseteq queue
         /\ inFlight \in [Keys -> 0 .. generation] /\ running \in [Keys -> 0 .. generation]
         /\ RunningKeys
<1>1. TaskType /\ MapType /\ RunningKeys /\ Shapes /\ KeysNameOneTask
  BY TypeParts DEF KeyInv
<1>2. generation \in Nat
  BY <1>1 DEF TaskType
<1>3. /\ queue \subseteq 1 .. generation /\ drain \subseteq queue
      /\ inFlight \in [Keys -> 0 .. generation] /\ running \in [Keys -> 0 .. generation]
  BY <1>1 DEF MapType
<1>4. ASSUME NEW g \in 1 .. generation
      PROVE  /\ g # 0 /\ g \in Generation
             /\ task[g] \in Submission /\ task[g].key \in Keys /\ Shaped(task[g])
             /\ task[g].where = "queued" <=> g \in queue
             /\ task[g].slot <=> running[task[g].key] = g
             /\ (task[g].where = "queued" \/ task[g].slot) <=> inFlight[task[g].key] = g
  <2>1. g # 0
    BY <1>2
  <2>2. g \in Generation
    BY <1>1, GenerationSet
  <2>3. task[g] \in Submission /\ task[g].key \in Keys
    BY <1>1, <2>2, Submitted
  <2>4. QED BY <1>1, <2>1, <2>2, <2>3 DEF Shapes, KeysNameOneTask, Live
<1>5. QED BY <1>1, <1>2, <1>3, <1>4

\* A submission stays shaped, whatever becomes of it.
LEMMA BecomesShaped ==
  ASSUME NEW t \in Submission, Shaped(t)
  PROVE  /\ t.where = "queued" => Shaped(Started(t))
         /\ t.where = "racing" => Shaped(Ended(t))
         /\ t.where \in {"settling", "over"} => Shaped(Orphaned(t))
         /\ t.where = "racing" => Shaped(Late(t))
         /\ t.where = "racing" => Shaped(LateCancelled(t))
         /\ t.caller = "fallback" => Shaped(FellBack(t))
         /\ Shaped(CancelledOut(t))
BY DEF Shaped, Submission, Started, Ended, Orphaned, Late, LateCancelled, FellBack, CancelledOut

\* The fields of what a submission becomes.
LEMMA BecomesFields ==
  ASSUME NEW t \in Submission
  PROVE  /\ Started(t).key = t.key /\ Started(t).where = "racing" /\ Started(t).slot
         /\ Ended(t).key = t.key /\ Ended(t).where = "over" /\ ~Ended(t).slot
         /\ Orphaned(t).key = t.key /\ Orphaned(t).where = t.where /\ Orphaned(t).slot = t.slot
         /\ Late(t).key = t.key /\ Late(t).where = "settling" /\ Late(t).slot = t.slot
         /\ LateCancelled(t).key = t.key /\ LateCancelled(t).where = "over" /\ ~LateCancelled(t).slot
         /\ FellBack(t).key = t.key
         /\ FellBack(t).where = IF t.where = "settling" THEN "over" ELSE t.where
         /\ FellBack(t).slot = IF t.where = "settling" THEN FALSE ELSE t.slot
         /\ CancelledOut(t).key = t.key /\ ~CancelledOut(t).slot
         /\ CancelledOut(t).where # "queued"
BY DEF Submission, Started, Ended, Orphaned, Late, LateCancelled, FellBack, CancelledOut

\* A step about one submission, which fits what the maps have of it afterwards, and
\* changes them only where they have it or nothing.
Fits(g, t) ==
  /\ t \in Submission /\ t.key = task[g].key /\ Shaped(t)
  /\ Becomes(g, t) /\ UNCHANGED generation
  /\ \A h \in 1 .. generation : h # g => (h \in queue' <=> h \in queue)
  /\ \A k \in Keys \ {t.key} : running'[k] = running[k] /\ inFlight'[k] = inFlight[k]
  /\ t.where = "queued" <=> g \in queue'
  /\ t.slot <=> running'[t.key] = g
  /\ t.where = "queued" \/ t.slot <=> inFlight'[t.key] = g
  /\ running'[t.key] \in {0, g, running[t.key]}
  /\ inFlight'[t.key] \in {0, inFlight[t.key]}
  /\ running'[t.key] # running[t.key] => inFlight[t.key] = g
  /\ inFlight'[t.key] # inFlight[t.key] => inFlight[t.key] = g

LEMMA KeyStepOfOne ==
  ASSUME KeyInv, NEW g \in 1 .. generation, NEW t, Fits(g, t)
  PROVE  Shapes' /\ RunningKeys' /\ KeysNameOneTask'
<1> USE DEF Fits
<1>1. ASSUME NEW h \in 1 .. generation, h # g
      PROVE  /\ task'[h] = task[h] /\ Shaped(task[h])
             /\ task[h].where = "queued" <=> h \in queue'
             /\ task[h].slot <=> running'[task[h].key] = h
             /\ (task[h].where = "queued" \/ task[h].slot) <=> inFlight'[task[h].key] = h
  <2>1. /\ task'[h] = task[h] /\ Shaped(task[h]) /\ task[h].key \in Keys
        /\ task[h].where = "queued" <=> h \in queue
        /\ task[h].slot <=> running[task[h].key] = h
        /\ (task[h].where = "queued" \/ task[h].slot) <=> inFlight[task[h].key] = h
        /\ h # 0
    BY <1>1, KeyFacts DEF Becomes
  <2>2. CASE task[h].key # t.key
    BY <1>1, <2>1, <2>2
  <2>3. CASE task[h].key = t.key
    BY <1>1, <2>1, <2>3
  <2>4. QED BY <2>2, <2>3
<1>2. task'[g] = t
  BY DEF Becomes
<1>3. ASSUME NEW k \in Keys, running'[k] # 0
      PROVE  task'[running'[k]].key = k
  <2>1. running'[k] = g \/ running'[k] = running[k]
    BY <1>3
  <2>2. CASE k = t.key /\ running'[k] = g
    BY <1>2, <2>2
  <2>3. CASE running'[k] = running[k]
    <3>1. task[running[k]].key = k /\ running[k] \in 1 .. generation
      BY <1>3, <2>3, KeyFacts DEF RunningKeys
    <3>2. QED BY <1>1, <1>2, <2>3, <3>1
  <2>4. QED BY <1>3, <2>1, <2>2, <2>3
<1>4. QED BY <1>1, <1>2, <1>3 DEF Shapes, RunningKeys, KeysNameOneTask, Live

\* The submission keeps its places: the maps stay as they are.
LEMMA KeyStepInPlace ==
  ASSUME KeyInv, NEW g \in 1 .. generation, NEW t \in Submission, Becomes(g, t), Shaped(t),
         t.key = task[g].key, t.slot <=> task[g].slot,
         t.where = "queued" <=> task[g].where = "queued",
         UNCHANGED <<generation, queue, running, inFlight>>
  PROVE  Shapes' /\ RunningKeys' /\ KeysNameOneTask'
<1>1. /\ task[g].where = "queued" <=> g \in queue
      /\ task[g].slot <=> running[task[g].key] = g
      /\ (task[g].where = "queued" \/ task[g].slot) <=> inFlight[task[g].key] = g
  BY KeyFacts
<1>2. /\ t.where = "queued" <=> g \in queue'
      /\ t.slot <=> running'[t.key] = g
      /\ t.where = "queued" \/ t.slot <=> inFlight'[t.key] = g
  BY <1>1
<1>3. Fits(g, t)
  BY <1>2 DEF Fits
<1>4. QED BY <1>3, KeyStepOfOne

\* The submission gives its slot back.
LEMMA KeyStepOut ==
  ASSUME KeyInv, NEW g \in 1 .. generation, NEW t \in Submission, Becomes(g, t), Shaped(t),
         t.key = task[g].key, task[g].slot, ~t.slot, t.where # "queued", g \notin queue,
         UNCHANGED <<generation, queue>>,
         running' = [running EXCEPT ![task[g].key] = 0],
         inFlight' = [inFlight EXCEPT ![task[g].key] = 0]
  PROVE  Shapes' /\ RunningKeys' /\ KeysNameOneTask'
<1>1. /\ running \in [Keys -> 0 .. generation] /\ inFlight \in [Keys -> 0 .. generation]
      /\ g # 0 /\ t.key \in Keys /\ inFlight[t.key] = g
  BY KeyFacts
<1>2. /\ running'[t.key] = 0 /\ inFlight'[t.key] = 0
      /\ \A k \in Keys \ {t.key} : running'[k] = running[k] /\ inFlight'[k] = inFlight[k]
  BY <1>1
<1>3. Fits(g, t)
  BY <1>1, <1>2 DEF Fits
<1>4. QED BY <1>3, KeyStepOfOne

LEMMA KeyStep ==
  ASSUME KeyInv, Next
  PROVE  Shapes' /\ RunningKeys' /\ KeysNameOneTask'
<1> USE DEF counts, idle
<1> DEFINE Kept == Shapes' /\ RunningKeys' /\ KeysNameOneTask'
<1>1. /\ TaskType /\ MapType /\ generation \in Nat
      /\ \A g \in 1 .. generation :
           /\ g # 0 /\ g \in Generation
           /\ task[g] \in Submission /\ task[g].key \in Keys /\ Shaped(task[g])
           /\ task[g].where = "queued" <=> g \in queue
           /\ task[g].slot <=> running[task[g].key] = g
           /\ (task[g].where = "queued" \/ task[g].slot) <=> inFlight[task[g].key] = g
      /\ queue \subseteq 1 .. generation /\ drain \subseteq queue
      /\ inFlight \in [Keys -> 0 .. generation] /\ running \in [Keys -> 0 .. generation]
      /\ RunningKeys
  BY KeyFacts
<1>2. ASSUME UNCHANGED <<generation, task, queue, inFlight, running>>
      PROVE  Kept
  BY <1>2 DEF KeyInv, Shapes, RunningKeys, KeysNameOneTask, Live
<1>3. ASSUME NEW k \in Keys, Run(k)
      PROVE  Kept
  <2> DEFINE n == generation + 1
  <2>1. /\ generation' = n /\ queue' = queue \cup {n} /\ running' = running
        /\ inFlight[k] = 0 /\ inFlight' = [inFlight EXCEPT ![k] = n]
        /\ n \in Generation
    BY <1>1, <1>3, StartupAssumption DEF Run, Generation
  <2>2. /\ task'[n] = [key |-> k, where |-> "queued", slot |-> FALSE, body |-> FALSE,
                       caller |-> "waiting"]
        /\ \A g \in Generation \ {n} : task'[g] = task[g]
    BY <1>1, <1>3, <2>1 DEF Run, TaskType
  <2>3. /\ n \notin 1 .. generation /\ n \notin 0 .. generation
        /\ \A g \in 1 .. n : g \in 1 .. generation \/ g = n
    BY <1>1
  <2> HIDE DEF n
  <2>4. Shaped(task'[n]) /\ task'[n].key = k /\ task'[n].where = "queued" /\ ~task'[n].slot
    BY <2>2 DEF Shaped
  <2>5. running[k] # n /\ inFlight'[k] = n /\ n \in queue'
    BY <1>1, <2>1, <2>3
  <2>6. ASSUME NEW g \in 1 .. generation
        PROVE  /\ task'[g] = task[g] /\ (g \in queue' <=> g \in queue)
               /\ inFlight'[task[g].key] = g <=> inFlight[task[g].key] = g
    <3>1. g # n /\ g \in Generation /\ task[g].key \in Keys /\ g # 0
      BY <1>1, <2>3
    <3>2. QED BY <1>1, <2>1, <2>2, <3>1
  <2>7. Shapes' /\ KeysNameOneTask'
    BY <1>1, <2>1, <2>3, <2>4, <2>5, <2>6 DEF Shapes, KeysNameOneTask, Live
  <2>8. RunningKeys'
    <3>1. \A l \in Keys : running[l] # 0 => running[l] \in 1 .. generation
      BY <1>1
    <3>2. QED BY <1>1, <2>1, <2>6, <3>1 DEF RunningKeys
  <2>9. QED BY <2>7, <2>8
<1>4. ASSUME NEW g \in drain, DrainStarts(g)
      PROVE  Kept
  <2>1. /\ g \in 1 .. generation /\ task[g].where = "queued"
        /\ UNCHANGED <<generation, inFlight>> /\ queue' = queue \ {g}
        /\ running' = [running EXCEPT ![task[g].key] = g]
    BY <1>1, <1>4 DEF DrainStarts
  <2>2. Becomes(g, Started(task[g])) /\ Shaped(Started(task[g])) /\ Started(task[g]) \in Submission
    BY <1>1, <1>4, <2>1, Becoming, BecomesShaped, BecomesSubmission
  <2> DEFINE t == Started(task[g])
  <2>3. t.key = task[g].key /\ t.where = "racing" /\ t.slot
    BY <1>1, <2>1, BecomesFields
  <2>4. Becomes(g, t) /\ Shaped(t) /\ t \in Submission
    BY <2>2
  <2> HIDE DEF t
  <2>5. /\ running'[t.key] = g /\ inFlight[t.key] = g /\ g # 0
        /\ \A k \in Keys \ {t.key} : running'[k] = running[k]
    BY <1>1, <2>1, <2>3
  <2>6. Fits(g, t)
    BY <2>1, <2>3, <2>4, <2>5 DEF Fits
  <2>7. QED BY <2>1, <2>6, KeyStepOfOne
<1>5. ASSUME NEW g \in Generation, BodyEnds(g)
      PROVE  Kept
  <2>1. g \in 1 .. generation /\ task[g].where = "racing" /\ UNCHANGED <<generation, queue>>
    BY <1>1, <1>5, Found DEF BodyEnds, Finish
  <2>2. Becomes(g, Ended(task[g])) /\ Shaped(Ended(task[g])) /\ Ended(task[g]) \in Submission
    BY <1>1, <1>5, <2>1, Becoming, BecomesShaped, BecomesSubmission
  <2>6. /\ Ended(task[g]).key = task[g].key /\ Ended(task[g]).where = "over"
        /\ ~Ended(task[g]).slot
    BY <1>1, <2>1, BecomesFields
  <2>3. CASE task[g].slot
    <3>1. task[g].caller = "waiting" /\ running[task[g].key] = g /\ inFlight[task[g].key] = g
      BY <1>1, <2>1, <2>3 DEF Shaped
    <3>2. /\ running' = [running EXCEPT ![task[g].key] = 0]
          /\ inFlight' = [inFlight EXCEPT ![task[g].key] = 0]
      BY <1>1, <1>5, <2>1, <2>3, <3>1 DEF BodyEnds, Finish, releaseInFlight
    <3>3. g \notin queue
      BY <1>1, <2>1
    <3>4. QED BY <2>1, <2>2, <2>3, <2>6, <3>2, <3>3, KeyStepOut
  <2>4. CASE ~task[g].slot
    <3>1. /\ task[g].caller # "waiting" /\ running[task[g].key] # g
          /\ inFlight[task[g].key] # g
      BY <1>1, <2>1, <2>4 DEF Shaped
    <3>2. UNCHANGED <<running, inFlight>>
      BY <1>5, <2>4, <3>1 DEF BodyEnds, Finish
    <3>3. QED BY <2>1, <2>2, <2>4, <2>6, <3>2, KeyStepInPlace
  <2>5. QED BY <2>3, <2>4
<1>6. ASSUME NEW g \in Generation, OrphanEnds(g)
      PROVE  Kept
  <2>1. g \in 1 .. generation /\ task[g].where \in {"settling", "over"}
        /\ UNCHANGED <<generation, queue, running, inFlight>>
    BY <1>1, <1>6, Found DEF OrphanEnds
  <2>2. Becomes(g, Orphaned(task[g])) /\ Shaped(Orphaned(task[g])) /\ Orphaned(task[g]) \in Submission
    BY <1>1, <1>6, <2>1, Becoming, BecomesShaped, BecomesSubmission
  <2> DEFINE t == Orphaned(task[g])
  <2>3. /\ t.key = task[g].key
        /\ t.slot <=> task[g].slot
        /\ t.where = "queued" <=> task[g].where = "queued"
    BY <1>1, <2>1, BecomesFields
  <2>4. Becomes(g, t) /\ Shaped(t) /\ t \in Submission
    BY <2>2
  <2> HIDE DEF t
  <2>5. QED BY <2>1, <2>3, <2>4, KeyStepInPlace
<1>7. ASSUME NEW g \in Generation, TimesOut(g)
      PROVE  Kept
  <2>1. g \in 1 .. generation /\ task[g].where = "racing"
        /\ UNCHANGED <<generation, queue, running, inFlight>>
    BY <1>1, <1>7, Found DEF TimesOut
  <2>2. Becomes(g, Late(task[g])) /\ Shaped(Late(task[g])) /\ Late(task[g]) \in Submission
    BY <1>1, <1>7, <2>1, Becoming, BecomesShaped, BecomesSubmission
  <2> DEFINE t == Late(task[g])
  <2>3. /\ t.key = task[g].key
        /\ t.slot <=> task[g].slot
        /\ t.where = "queued" <=> task[g].where = "queued"
    BY <1>1, <2>1, BecomesFields
  <2>4. Becomes(g, t) /\ Shaped(t) /\ t \in Submission
    BY <2>2
  <2> HIDE DEF t
  <2>5. QED BY <2>1, <2>3, <2>4, KeyStepInPlace
<1>8. ASSUME NEW g \in Generation, TimesOutCancelled(g)
      PROVE  Kept
  <2>1. /\ g \in 1 .. generation /\ task[g].where = "racing" /\ task[g].caller # "waiting"
        /\ UNCHANGED <<generation, queue, inFlight>>
    BY <1>1, <1>8, Found DEF TimesOutCancelled, Finish
  <2>2. /\ ~task[g].slot /\ running[task[g].key] # g /\ inFlight[task[g].key] # g
    BY <1>1, <2>1 DEF Shaped
  <2>3. UNCHANGED running
    BY <1>8, <2>2 DEF TimesOutCancelled, Finish
  <2>4. Becomes(g, LateCancelled(task[g])) /\ Shaped(LateCancelled(task[g]))
          /\ LateCancelled(task[g]) \in Submission
    BY <1>1, <1>8, <2>1, Becoming, BecomesShaped, BecomesSubmission
  <2>5. /\ LateCancelled(task[g]).key = task[g].key /\ LateCancelled(task[g]).where = "over"
        /\ LateCancelled(task[g]).slot <=> task[g].slot
    BY <1>1, <2>1, <2>2, BecomesFields
  <2>6. QED BY <2>1, <2>3, <2>4, <2>5, KeyStepInPlace
<1>9. ASSUME NEW g \in Generation, FallbackEnds(g)
      PROVE  Kept
  <2>1. /\ g \in 1 .. generation /\ task[g].caller = "fallback"
        /\ UNCHANGED <<generation, queue>>
    BY <1>1, <1>9, Found DEF FallbackEnds, Finish
  <2>2. Becomes(g, FellBack(task[g])) /\ Shaped(FellBack(task[g])) /\ FellBack(task[g]) \in Submission
    BY <1>1, <1>9, <2>1, Becoming, BecomesShaped, BecomesSubmission
  <2>3. task[g].where # "queued"
    BY <1>1, <2>1 DEF Shaped
  <2>4. CASE task[g].slot
    <3>1. task[g].where = "settling" /\ running[task[g].key] = g /\ inFlight[task[g].key] = g
      BY <1>1, <2>1, <2>3, <2>4 DEF Shaped, Submission
    <3>2. /\ running' = [running EXCEPT ![task[g].key] = 0]
          /\ inFlight' = [inFlight EXCEPT ![task[g].key] = 0]
      BY <1>1, <1>9, <2>1, <2>4, <3>1 DEF FallbackEnds, Finish, releaseInFlight
    <3>3. /\ FellBack(task[g]).key = task[g].key /\ ~FellBack(task[g]).slot
          /\ FellBack(task[g]).where = "over" /\ g \notin queue
      BY <1>1, <2>1, <3>1, BecomesFields
    <3>4. QED BY <2>1, <2>2, <2>4, <3>2, <3>3, KeyStepOut
  <2>5. CASE ~task[g].slot
    <3>1. running[task[g].key] # g /\ inFlight[task[g].key] # g
      BY <1>1, <2>1, <2>3, <2>5
    <3>2. UNCHANGED running
      BY <1>9, <2>5 DEF FallbackEnds, Finish
    <3>3. UNCHANGED inFlight
      <4>1. inFlight' = [inFlight EXCEPT ![task[g].key] = inFlight[task[g].key]]
        BY <1>9, <3>1 DEF FallbackEnds, releaseInFlight
      <4>2. QED BY <1>1, <4>1
    <3>4. /\ FellBack(task[g]).key = task[g].key
          /\ FellBack(task[g]).slot <=> task[g].slot
          /\ FellBack(task[g]).where = "queued" <=> task[g].where = "queued"
      BY <1>1, <2>1, <2>3, <2>5, BecomesFields
    <3>5. QED BY <2>1, <2>2, <3>2, <3>3, <3>4, KeyStepInPlace
  <2>6. QED BY <2>4, <2>5
<1>10. ASSUME NEW G \in SUBSET Holders, Cancel(G)
       PROVE  Kept
  <2> DEFINE R == {g \in G : task[g].slot}
             K == {task[g].key : g \in G}
  <2>1. G \subseteq 1 .. generation
    BY <1>1, HoldersType
  <2>2. /\ UNCHANGED generation /\ \A g \in Generation \ G : task'[g] = task[g]
        /\ \A g \in G : task[g] \in Submission /\ task'[g] = CancelledOut(task[g])
    BY <1>1, <1>10, <2>1, CancelTasks
  <2>3. /\ queue' = queue \ G
        /\ \A k \in Keys : inFlight'[k] = IF k \in K THEN 0 ELSE inFlight[k]
        /\ \A k \in Keys : running'[k] = IF \E g \in R : task[g].key = k THEN 0 ELSE running[k]
    BY <1>10 DEF Cancel
  <2>4. ASSUME NEW g \in G
        PROVE  inFlight[task[g].key] = g
    <3>1. CASE g \in queue
      BY <1>1, <2>1, <3>1
    <3>2. CASE \E k \in Keys : g = running[k] /\ g # 0
      BY <1>1, <2>1, <3>2 DEF RunningKeys
    <3>3. QED BY <1>10, <3>1, <3>2 DEF Holders
  <2>5. ASSUME NEW g \in G
        PROVE  /\ Shaped(task'[g]) /\ task'[g].key = task[g].key
               /\ task'[g].where # "queued" /\ ~task'[g].slot
               /\ g \notin queue' /\ running'[task[g].key] # g /\ inFlight'[task[g].key] # g
    <3>1. g \in 1 .. generation
      BY <2>1
    <3>2. Shaped(task'[g]) /\ task'[g].key = task[g].key /\ task'[g].where # "queued" /\ ~task'[g].slot
      <4>1. task[g] \in Submission /\ Shaped(task[g]) /\ task'[g] = CancelledOut(task[g])
        BY <1>1, <2>2, <3>1
      <4>2. Shaped(CancelledOut(task[g]))
        BY <4>1, BecomesShaped
      <4>3. /\ CancelledOut(task[g]).key = task[g].key /\ CancelledOut(task[g]).where # "queued"
            /\ ~CancelledOut(task[g]).slot
        BY <4>1, BecomesFields
      <4>4. QED BY <4>1, <4>2, <4>3, Zenon
    <3>3. task[g].key \in Keys /\ g # 0 /\ task[g].key \in K
      BY <1>1, <3>1
    <3>4. g \notin queue' /\ inFlight'[task[g].key] # g
      BY <2>3, <3>3
    <3>5. running'[task[g].key] # g
      BY <1>1, <2>3, <3>1, <3>3
    <3>6. QED BY <3>2, <3>4, <3>5
  <2>6. ASSUME NEW h \in 1 .. generation, h \notin G
        PROVE  /\ task'[h] = task[h] /\ (h \in queue' <=> h \in queue)
               /\ running'[task[h].key] = h <=> running[task[h].key] = h
               /\ inFlight'[task[h].key] = h <=> inFlight[task[h].key] = h
    <3>1. h \in Generation /\ task[h].key \in Keys /\ h # 0
      BY <1>1
    <3>2. task[h].key \in K => inFlight[task[h].key] # h
      BY <2>4, <2>6
    <3>3. (\E g \in R : task[g].key = task[h].key) => running[task[h].key] # h
      BY <1>1, <2>1, <2>4, <2>6
    <3>4. QED BY <2>2, <2>3, <2>6, <3>1, <3>2, <3>3
  <2> HIDE DEF R, K
  <2>7. Shapes' /\ KeysNameOneTask'
    BY <1>1, <2>2, <2>5, <2>6 DEF Shapes, KeysNameOneTask, Live
  <2>8. RunningKeys'
    <3>1. ASSUME NEW k \in Keys, running'[k] # 0
          PROVE  task'[running'[k]].key = k
      <4>1. running'[k] = running[k] /\ running[k] \in 1 .. generation /\ task[running[k]].key = k
        BY <1>1, <2>3, <3>1 DEF RunningKeys
      <4>2. QED BY <2>5, <2>6, <4>1
    <3>2. QED BY <3>1 DEF RunningKeys
  <2>9. QED BY <2>7, <2>8
<1> HIDE DEF Kept
<1>11. ASSUME cancelAllTasks \/ \E k \in Keys : cancelTask(k)
       PROVE  Kept
  BY <1>10, <1>11 DEF cancelAllTasks, cancelTask
<1>12. ASSUME NEW w, cancelWorkspaceTasks(w)
       PROVE  Kept
  BY <1>10, <1>12 DEF cancelWorkspaceTasks
<1>13. ASSUME IdleResumes \/ SliceEnds
       PROVE  Kept
  BY <1>2, <1>13 DEF IdleResumes, SliceEnds
<1>14. ASSUME NEW g \in drain, DrainSkips(g) \/ DrainYields(g)
       PROVE  Kept
  BY <1>2, <1>14 DEF DrainSkips, DrainYields
<1>15. Kept
  BY <1>3, <1>4, <1>5, <1>6, <1>7, <1>8, <1>9, <1>11, <1>12, <1>13, <1>14 DEF Next, Drains, Timer
<1>16. QED BY <1>15 DEF Kept

LEMMA KeyInvStep ==
  ASSUME KeyInv, [Next]_vars
  PROVE  KeyInv'
<1>1. CASE Next
  BY <1>1, KeyStep, TypeStep DEF KeyInv
<1>2. CASE UNCHANGED vars
  BY <1>2, Zenon DEF KeyInv, TypeOK, Shapes, RunningKeys, KeysNameOneTask, Live, vars, counts, idle
<1>3. QED BY <1>1, <1>2

\* The task that waits or has a slot under a key is the one new callers share and
\* a cancellation finds, whatever earlier tasks of the key still do.
THEOREM StartupKeysNameOneTask == Spec => []KeysNameOneTask
<1>1. KeyInv => KeysNameOneTask
  BY DEF KeyInv
<1>2. QED BY KeyInit, KeyInvStep, <1>1, PTL DEF Spec

-----------------------------------------------------------------------------
(* No wake-up is lost.                                                     *)

\* What drainQueue has passed over cannot start: it has freed no slot since.
PassedOver == ~resuming => \A g \in queue \ drain : ~canStart(task[g].key)

WakeInv == KeyInv /\ PassedOver

LEMMA WakeInit == Init => WakeInv
<1>1. Init => PassedOver
  BY DEF Init, PassedOver
<1>2. QED BY <1>1, KeyInit DEF WakeInv

\* A step that frees no slot and lets nothing into the queue unseen.
LEMMA PassedOverKept ==
  ASSUME WakeInv, UNCHANGED resuming, queue' \ drain' \subseteq queue \ drain,
         \A g \in queue : task'[g].key = task[g].key,
         \A p \in Phases : phaseCount'[p] >= phaseCount[p],
         \A c \in Commands : commandCount'[c] >= commandCount[c],
         CountType'
  PROVE  PassedOver'
<1>1. CountType /\ queue \subseteq 1 .. generation
  BY TypeParts, KeyFacts DEF WakeInv, KeyInv
<1>2. SUFFICES ASSUME ~resuming', NEW g \in queue' \ drain'
               PROVE  ~canStart(task[g].key)'
  BY DEF PassedOver
<1>3. g \in queue \ drain /\ task'[g].key = task[g].key /\ task[g].key \in Keys
  BY <1>1, <1>2, KeyFacts DEF WakeInv
<1>4. ~canStart(task[g].key)
  BY <1>2, <1>3 DEF WakeInv, PassedOver
<1> DEFINE k == task[g].key
<1>5. k \in Keys /\ task'[g].key = k
  BY <1>3
<1> HIDE DEF k
<1>6. /\ PhaseOf[k] \in Phases /\ CommandOf[k] \in Commands
      /\ PhaseLimit[PhaseOf[k]] \in Nat
      /\ CommandOf[k] \in DOMAIN CommandLimit => CommandLimit[CommandOf[k]] \in Nat
  BY <1>5, PhaseTypes, StartupAssumption
<1>7. /\ phaseCount[PhaseOf[k]] \in Nat /\ phaseCount'[PhaseOf[k]] \in Nat
      /\ commandCount[CommandOf[k]] \in Nat /\ commandCount'[CommandOf[k]] \in Nat
  BY <1>1, <1>6 DEF CountType
<1>8. ~canStart(k)
  BY <1>4 DEF k
<1>9. ~(/\ phaseCount'[PhaseOf[k]] < PhaseLimit[PhaseOf[k]]
        /\ CommandOf[k] \in DOMAIN CommandLimit =>
             commandCount'[CommandOf[k]] < CommandLimit[CommandOf[k]])
  <2>1. phaseCount'[PhaseOf[k]] >= phaseCount[PhaseOf[k]]
        /\ commandCount'[CommandOf[k]] >= commandCount[CommandOf[k]]
    BY <1>6
  <2>2. CASE ~(phaseCount[PhaseOf[k]] < PhaseLimit[PhaseOf[k]])
    BY <1>6, <1>7, <2>1, <2>2
  <2>3. CASE CommandOf[k] \in DOMAIN CommandLimit
               /\ ~(commandCount[CommandOf[k]] < CommandLimit[CommandOf[k]])
    BY <1>6, <1>7, <2>1, <2>3
  <2>4. QED BY <1>8, <2>2, <2>3 DEF canStart
<1>10. QED BY <1>5, <1>9 DEF canStart

\* A submission keeps its key.
LEMMA BecomesKeepsKeys ==
  ASSUME TaskType, NEW g \in 1 .. generation, NEW t, Becomes(g, t), t.key = task[g].key
  PROVE  \A h \in 1 .. generation : task'[h].key = task[h].key
<1>1. TAKE h \in 1 .. generation
<1>2. h \in Generation
  BY GenerationSet
<1>3. CASE h = g
  BY <1>3 DEF Becomes
<1>4. CASE h # g
  BY <1>2, <1>4 DEF Becomes
<1>5. QED BY <1>3, <1>4

LEMMA PassedOverStep ==
  ASSUME WakeInv, Next
  PROVE  PassedOver'
<1> USE DEF counts, idle
<1>1. /\ TaskType /\ MapType /\ CountType /\ CountType' /\ KeyInv
      /\ queue \subseteq 1 .. generation
  BY TypeParts, KeyFacts, CountTypeKept DEF WakeInv, KeyInv
<1>2. /\ \A p \in Phases : phaseCount[p] >= phaseCount[p]
      /\ \A c \in Commands : commandCount[c] >= commandCount[c]
  BY <1>1 DEF CountType
<1>3. ASSUME DrainNext
      PROVE  PassedOver'
  BY <1>3 DEF DrainNext, PassedOver
<1>4. ASSUME UNCHANGED <<resuming, queue, drain, counts>>, \A g \in queue : task'[g].key = task[g].key
      PROVE  PassedOver'
  BY <1>1, <1>2, <1>4, PassedOverKept
<1>5. ASSUME NEW g \in Generation,
             BodyEnds(g) \/ OrphanEnds(g) \/ TimesOut(g) \/ TimesOutCancelled(g) \/ FallbackEnds(g)
      PROVE  PassedOver'
  <2>1. g \in 1 .. generation /\ task[g] \in Submission
    BY <1>1, <1>5, Found
  <2>2. \A h \in 1 .. generation : task'[h].key = task[h].key
    <3> DEFINE t == task[g]
    <3>1. t \in Submission /\ t = task[g]
      BY <2>1
    <3> HIDE DEF t
    <3>2. /\ Ended(t).key = t.key /\ Orphaned(t).key = t.key /\ Late(t).key = t.key
          /\ LateCancelled(t).key = t.key /\ FellBack(t).key = t.key
      BY <3>1, BecomesFields
    <3>3. CASE BodyEnds(g)
      <4>1. Becomes(g, Ended(t))
        BY <1>1, <3>1, <3>3, Becoming
      <4>2. QED BY <1>1, <2>1, <3>1, <3>2, <4>1, BecomesKeepsKeys
    <3>4. CASE OrphanEnds(g)
      <4>1. Becomes(g, Orphaned(t))
        BY <1>1, <3>1, <3>4, Becoming
      <4>2. QED BY <1>1, <2>1, <3>1, <3>2, <4>1, BecomesKeepsKeys
    <3>5. CASE TimesOut(g)
      <4>1. Becomes(g, Late(t))
        BY <1>1, <3>1, <3>5, Becoming
      <4>2. QED BY <1>1, <2>1, <3>1, <3>2, <4>1, BecomesKeepsKeys
    <3>6. CASE TimesOutCancelled(g)
      <4>1. Becomes(g, LateCancelled(t))
        BY <1>1, <3>1, <3>6, Becoming
      <4>2. QED BY <1>1, <2>1, <3>1, <3>2, <4>1, BecomesKeepsKeys
    <3>7. CASE FallbackEnds(g)
      <4>1. Becomes(g, FellBack(t))
        BY <1>1, <3>1, <3>7, Becoming
      <4>2. QED BY <1>1, <2>1, <3>1, <3>2, <4>1, BecomesKeepsKeys
    <3>8. QED BY <1>5, <3>3, <3>4, <3>5, <3>6, <3>7
  <2>3. DrainNext \/ UNCHANGED <<resuming, queue, drain, counts>>
    BY <1>5 DEF BodyEnds, OrphanEnds, TimesOut, TimesOutCancelled, FallbackEnds, Finish
  <2>4. QED BY <1>1, <1>3, <1>4, <2>2, <2>3
<1>6. ASSUME NEW g \in drain, DrainStarts(g)
      PROVE  PassedOver'
  <2>1. g \in 1 .. generation /\ task[g] \in Submission /\ task[g].key \in Keys
    BY <1>1, KeyFacts
  <2>2. \A h \in 1 .. generation : task'[h].key = task[h].key
    <3> DEFINE t == task[g]
    <3>1. t \in Submission /\ t = task[g]
      BY <2>1
    <3> HIDE DEF t
    <3>2. Started(t).key = t.key
      BY <3>1, BecomesFields
    <3>3. g \in Generation
      BY <1>1, <2>1, GenerationSet
    <3>4. Becomes(g, Started(t))
      BY <1>1, <1>6, <3>1, <3>3, Becoming
    <3>5. QED BY <1>1, <2>1, <3>1, <3>2, <3>4, BecomesKeepsKeys
  <2>3. /\ \A p \in Phases : phaseCount'[p] >= phaseCount[p]
        /\ \A c \in Commands : commandCount'[c] >= commandCount[c]
    BY <1>1, <1>6, <2>1, PhaseTypes DEF DrainStarts, incrementRunning, CountType
  <2>4. queue' \ drain' \subseteq queue \ drain /\ UNCHANGED resuming
    BY <1>6 DEF DrainStarts
  <2>5. QED BY <1>1, <2>2, <2>3, <2>4, PassedOverKept
<1>7. ASSUME NEW g \in drain, DrainSkips(g)
      PROVE  PassedOver'
  BY <1>7 DEF DrainSkips, WakeInv, PassedOver, canStart
<1>8. ASSUME NEW g \in drain, DrainYields(g)
      PROVE  PassedOver'
  BY <1>8 DEF DrainYields, PassedOver
<1>9. ASSUME IdleResumes \/ \E k \in Keys : Run(k) \/ cancelTask(k)
      PROVE  PassedOver'
  BY <1>3, <1>9 DEF IdleResumes, Run, cancelTask
<1>10. ASSUME NEW w, cancelWorkspaceTasks(w)
       PROVE  PassedOver'
  BY <1>3, <1>10 DEF cancelWorkspaceTasks
<1>11. ASSUME cancelAllTasks
       PROVE  PassedOver'
  <2>1. queue' = {}
    <3>1. queue \subseteq Holders
      BY <1>1 DEF Holders
    <3>2. QED BY <1>11, <3>1 DEF cancelAllTasks, Cancel
  <2>2. QED BY <2>1 DEF PassedOver
<1>12. ASSUME SliceEnds
       PROVE  PassedOver'
  BY <1>4, <1>12 DEF SliceEnds
<1>13. QED BY <1>5, <1>6, <1>7, <1>8, <1>9, <1>10, <1>11, <1>12 DEF Next, Drains, Timer

\* A task that could start does not stay in the queue, unless drainQueue is under
\* way or is to be resumed: every step that frees a slot drains the queue.
THEOREM StartupLosesNoWakeUp == Spec => []StartableIsNotLeft
<1>1. ASSUME WakeInv, [Next]_vars
      PROVE  WakeInv'
  <2>1. CASE Next
    BY <1>1, <2>1, KeyInvStep, PassedOverStep DEF WakeInv
  <2>2. CASE UNCHANGED vars
    <3>1. PassedOver'
      BY <1>1, <2>2 DEF WakeInv, PassedOver, canStart, vars, counts, idle
    <3>2. QED BY <1>1, <3>1, KeyInvStep DEF WakeInv
  <2>3. QED BY <1>1, <2>1, <2>2
<1>2. WakeInv => StartableIsNotLeft
  BY DEF WakeInv, PassedOver, StartableIsNotLeft
<1>3. QED BY WakeInit, <1>1, <1>2, PTL DEF Spec

-----------------------------------------------------------------------------
(* The counters count the tasks that have a slot.                          *)

PhaseSlots(p) == {g \in 1 .. generation : task[g].slot /\ PhaseOf[task[g].key] = p}
CommandSlots(c) == {g \in 1 .. generation : task[g].slot /\ CommandOf[task[g].key] = c}

SlotInv == KeyInv /\ SlotsAreCounted

LEMMA SlotsFinite ==
  ASSUME TaskType
  PROVE  /\ \A p : IsFiniteSet(PhaseSlots(p))
         /\ \A c : IsFiniteSet(CommandSlots(c))
<1>1. generation \in Int /\ 1 \in Int
  BY DEF TaskType
<1>2. IsFiniteSet(1 .. generation)
  BY <1>1, FS_Interval
<1>3. ASSUME NEW p
      PROVE  IsFiniteSet(PhaseSlots(p)) /\ IsFiniteSet(CommandSlots(p))
  <2>1. PhaseSlots(p) \subseteq 1 .. generation /\ CommandSlots(p) \subseteq 1 .. generation
    BY DEF PhaseSlots, CommandSlots
  <2>2. QED BY <1>2, <2>1, FS_Subset
<1>4. QED BY <1>3

LEMMA SlotInit == Init => SlotInv
<1> SUFFICES ASSUME Init PROVE SlotInv
  OBVIOUS
<1>1. generation = 0 /\ 1 .. generation = {}
  BY DEF Init
<1>2. /\ \A p \in Phases : PhaseSlots(p) = {} /\ phaseCount[p] = 0
      /\ \A c \in Commands : CommandSlots(c) = {} /\ commandCount[c] = 0
  BY <1>1 DEF Init, PhaseSlots, CommandSlots
<1>3. \A p \in Phases : 0 <= PhaseLimit[p]
  BY StartupAssumption
<1>4. \A c \in DOMAIN CommandLimit : 0 <= CommandLimit[c]
  BY StartupAssumption
<1>5. SlotsAreCounted
  BY <1>2, <1>3, <1>4, FS_EmptySet DEF SlotsAreCounted, PhaseSlots, CommandSlots
<1>6. QED BY <1>5, KeyInit DEF SlotInv

\* A counter from which the size of a part is taken counts the rest.
LEMMA RestIsCounted ==
  ASSUME NEW S, IsFiniteSet(S), NEW T \in SUBSET S
  PROVE  /\ Minus(Cardinality(S), Cardinality(T)) = Cardinality(S \ T)
         /\ Cardinality(S \ T) <= Cardinality(S)
<1>1. Cardinality(S \ T) = Cardinality(S) - Cardinality(S \cap T) /\ S \cap T = T
  BY FS_Difference
<1>2. /\ Cardinality(S) \in Nat /\ Cardinality(T) \in Nat
      /\ Cardinality(T) <= Cardinality(S)
  BY FS_Subset, FS_CardinalityType
<1>3. \A m, n \in Nat : n <= m => Minus(m, n) = m - n /\ m - n <= m
  BY DEF Minus
<1>4. QED BY <1>1, <1>2, <1>3

\* The submissions of G give their slots back, the others keep what they have.
GiveBack(G) ==
  /\ UNCHANGED generation
  /\ \A h \in 1 .. generation :
       /\ task'[h].key = task[h].key
       /\ task'[h].slot <=> task[h].slot /\ h \notin G

LEMMA SlotsGivenBack ==
  ASSUME SlotInv, NEW G \in SUBSET (1 .. generation), \A g \in G : task[g].slot,
         GiveBack(G), decrementRunning(G)
  PROVE  SlotsAreCounted'
<1> DEFINE GP(p) == {g \in G : PhaseOf[task[g].key] = p}
           GC(c) == {g \in G : CommandOf[task[g].key] = c}
<1>1. TaskType /\ SlotsAreCounted
  BY KeyFacts DEF SlotInv
<1>2. ASSUME NEW p \in Phases
      PROVE  phaseCount'[p] = Cardinality(PhaseSlots(p)') /\ phaseCount'[p] <= PhaseLimit[p]
  <2>1. PhaseSlots(p)' = PhaseSlots(p) \ GP(p) /\ GP(p) \subseteq PhaseSlots(p)
    BY DEF PhaseSlots, GiveBack
  <2>2. phaseCount[p] = Cardinality(PhaseSlots(p)) /\ phaseCount[p] <= PhaseLimit[p]
    BY <1>1 DEF SlotsAreCounted, PhaseSlots
  <2>3. phaseCount'[p] = Minus(phaseCount[p], Cardinality(GP(p)))
    BY DEF decrementRunning
  <2> HIDE DEF GP
  <2>4. IsFiniteSet(PhaseSlots(p)) /\ Cardinality(PhaseSlots(p)) \in Nat
    BY <1>1, SlotsFinite, FS_CardinalityType
  <2>5. /\ phaseCount'[p] = Cardinality(PhaseSlots(p) \ GP(p))
        /\ Cardinality(PhaseSlots(p) \ GP(p)) <= Cardinality(PhaseSlots(p))
    BY <2>1, <2>2, <2>3, <2>4, RestIsCounted
  <2>6. Cardinality(PhaseSlots(p) \ GP(p)) \in Nat /\ PhaseLimit[p] \in Nat
    BY <2>4, FS_Difference, FS_CardinalityType, StartupAssumption
  <2>7. QED BY <2>1, <2>2, <2>4, <2>5, <2>6
<1>3. ASSUME NEW c \in Commands
      PROVE  /\ commandCount'[c] = Cardinality(CommandSlots(c)')
             /\ c \in DOMAIN CommandLimit => commandCount'[c] <= CommandLimit[c]
  <2>1. CommandSlots(c)' = CommandSlots(c) \ GC(c) /\ GC(c) \subseteq CommandSlots(c)
    BY DEF CommandSlots, GiveBack
  <2>2. /\ commandCount[c] = Cardinality(CommandSlots(c))
        /\ c \in DOMAIN CommandLimit => commandCount[c] <= CommandLimit[c]
    BY <1>1 DEF SlotsAreCounted, CommandSlots
  <2>3. commandCount'[c] = Minus(commandCount[c], Cardinality(GC(c)))
    BY DEF decrementRunning
  <2> HIDE DEF GC
  <2>4. IsFiniteSet(CommandSlots(c)) /\ Cardinality(CommandSlots(c)) \in Nat
    BY <1>1, SlotsFinite, FS_CardinalityType
  <2>5. /\ commandCount'[c] = Cardinality(CommandSlots(c) \ GC(c))
        /\ Cardinality(CommandSlots(c) \ GC(c)) <= Cardinality(CommandSlots(c))
    BY <2>1, <2>2, <2>3, <2>4, RestIsCounted
  <2>6. /\ Cardinality(CommandSlots(c) \ GC(c)) \in Nat
        /\ c \in DOMAIN CommandLimit => CommandLimit[c] \in Nat
    BY <2>4, FS_Difference, FS_CardinalityType, StartupAssumption
  <2>7. QED BY <2>1, <2>2, <2>4, <2>5, <2>6
<1>4. QED BY <1>2, <1>3 DEF SlotsAreCounted, PhaseSlots, CommandSlots

\* A step in which every slot stays where it is.
LEMMA SlotsKept ==
  ASSUME SlotInv, GiveBack({}), UNCHANGED counts
  PROVE  SlotsAreCounted'
<1>1. \A p : PhaseSlots(p)' = PhaseSlots(p)
  BY DEF PhaseSlots, GiveBack
<1>2. \A c : CommandSlots(c)' = CommandSlots(c)
  BY DEF CommandSlots, GiveBack
<1>3. phaseCount' = phaseCount /\ commandCount' = commandCount
  BY DEF counts
<1>4. QED BY <1>1, <1>2, <1>3 DEF SlotInv, SlotsAreCounted, PhaseSlots, CommandSlots

\* A task that may start takes one slot, of its phase and of its command.
LEMMA SlotTaken ==
  ASSUME SlotInv, NEW g \in 1 .. generation, ~task[g].slot,
         UNCHANGED generation,
         \A h \in 1 .. generation :
           /\ task'[h].key = task[h].key
           /\ task'[h].slot <=> task[h].slot \/ h = g,
         canStart(task[g].key), incrementRunning(task[g].key)
  PROVE  SlotsAreCounted'
<1> DEFINE k == task[g].key
<1>1. TaskType /\ CountType /\ SlotsAreCounted /\ k \in Keys
  BY KeyFacts, TypeParts DEF SlotInv, KeyInv
<1>2. PhaseOf[k] \in Phases /\ CommandOf[k] \in Commands
  BY <1>1, PhaseTypes
<1>3. ASSUME NEW p \in Phases
      PROVE  phaseCount'[p] = Cardinality(PhaseSlots(p)') /\ phaseCount'[p] <= PhaseLimit[p]
  <2>1. phaseCount[p] = Cardinality(PhaseSlots(p)) /\ phaseCount[p] <= PhaseLimit[p]
    BY <1>1 DEF SlotsAreCounted, PhaseSlots
  <2>2. /\ IsFiniteSet(PhaseSlots(p)) /\ phaseCount[p] \in Nat /\ PhaseLimit[p] \in Nat
        /\ g \notin PhaseSlots(p)
    BY <1>1, SlotsFinite, StartupAssumption DEF CountType, PhaseSlots
  <2>3. CASE p = PhaseOf[k]
    <3>1. PhaseSlots(p)' = PhaseSlots(p) \cup {g}
      BY <2>3 DEF PhaseSlots
    <3>2. phaseCount'[p] = phaseCount[p] + 1 /\ phaseCount[p] < PhaseLimit[p]
      BY <1>1, <2>3 DEF incrementRunning, canStart, CountType
    <3>3. Cardinality(PhaseSlots(p) \cup {g}) = Cardinality(PhaseSlots(p)) + 1
      BY <2>2, FS_AddElement
    <3>4. QED BY <2>1, <2>2, <3>1, <3>2, <3>3
  <2>4. CASE p # PhaseOf[k]
    <3>1. PhaseSlots(p)' = PhaseSlots(p)
      BY <2>4 DEF PhaseSlots
    <3>2. phaseCount'[p] = phaseCount[p]
      BY <1>1, <2>4 DEF incrementRunning, CountType
    <3>3. QED BY <2>1, <3>1, <3>2
  <2>5. QED BY <2>3, <2>4
<1>4. ASSUME NEW c \in Commands
      PROVE  /\ commandCount'[c] = Cardinality(CommandSlots(c)')
             /\ c \in DOMAIN CommandLimit => commandCount'[c] <= CommandLimit[c]
  <2>1. /\ commandCount[c] = Cardinality(CommandSlots(c))
        /\ c \in DOMAIN CommandLimit => commandCount[c] <= CommandLimit[c]
    BY <1>1 DEF SlotsAreCounted, CommandSlots
  <2>2. /\ IsFiniteSet(CommandSlots(c)) /\ commandCount[c] \in Nat
        /\ c \in DOMAIN CommandLimit => CommandLimit[c] \in Nat
        /\ g \notin CommandSlots(c)
    BY <1>1, SlotsFinite, StartupAssumption DEF CountType, CommandSlots
  <2>3. CASE c = CommandOf[k]
    <3>1. CommandSlots(c)' = CommandSlots(c) \cup {g}
      BY <2>3 DEF CommandSlots
    <3>2. /\ commandCount'[c] = commandCount[c] + 1
          /\ c \in DOMAIN CommandLimit => commandCount[c] < CommandLimit[c]
      BY <1>1, <2>3 DEF incrementRunning, canStart, CountType
    <3>3. Cardinality(CommandSlots(c) \cup {g}) = Cardinality(CommandSlots(c)) + 1
      BY <2>2, FS_AddElement
    <3>4. QED BY <2>1, <2>2, <3>1, <3>2, <3>3
  <2>4. CASE c # CommandOf[k]
    <3>1. CommandSlots(c)' = CommandSlots(c)
      BY <2>4 DEF CommandSlots
    <3>2. commandCount'[c] = commandCount[c]
      BY <1>1, <2>4 DEF incrementRunning, CountType
    <3>3. QED BY <2>1, <3>1, <3>2
  <2>5. QED BY <2>3, <2>4
<1>5. QED BY <1>3, <1>4 DEF SlotsAreCounted, PhaseSlots, CommandSlots

\* A submission is left with its key and its slot, or without the slot.
LEMMA BecomesGivesBack ==
  ASSUME TaskType, UNCHANGED generation, NEW g \in 1 .. generation, NEW t,
         Becomes(g, t), t.key = task[g].key
  PROVE  /\ (t.slot <=> task[g].slot) => GiveBack({})
         /\ ~t.slot => GiveBack({g})
<1>1. 1 .. generation \subseteq Generation
  BY GenerationSet
<1>2. \A h \in 1 .. generation : h # g => task'[h] = task[h]
  BY <1>1 DEF Becomes
<1>3. task'[g] = t
  BY DEF Becomes
<1>4. QED BY <1>2, <1>3 DEF GiveBack

\* The finally block gives one slot back, or has none to give back.
LEMMA FinishedOnce ==
  ASSUME SlotInv, NEW g \in 1 .. generation, Finish(g), NEW t,
         Becomes(g, t), t.key = task[g].key, ~t.slot
  PROVE  SlotsAreCounted'
<1>1. TaskType /\ UNCHANGED generation
  BY KeyFacts DEF SlotInv, Finish
<1>2. CASE task[g].slot
  <2>1. decrementRunning({g})
    BY <1>2 DEF Finish
  <2>2. GiveBack({g})
    BY <1>1, BecomesGivesBack
  <2>3. QED BY <1>2, <2>1, <2>2, SlotsGivenBack
<1>3. CASE ~task[g].slot
  <2>1. GiveBack({}) /\ UNCHANGED counts
    BY <1>1, <1>3, BecomesGivesBack DEF Finish
  <2>2. QED BY <2>1, SlotsKept
<1>4. QED BY <1>2, <1>3

LEMMA SlotStep ==
  ASSUME SlotInv, Next
  PROVE  SlotsAreCounted'
<1>1. /\ TaskType /\ MapType /\ KeyInv /\ generation \in Nat
      /\ queue \subseteq 1 .. generation /\ drain \subseteq queue
  BY KeyFacts DEF SlotInv
<1>2. ASSUME UNCHANGED <<generation, task, counts>>
      PROVE  SlotsAreCounted'
  BY <1>2, SlotsKept DEF GiveBack
<1>3. ASSUME NEW k \in Keys, Run(k)
      PROVE  SlotsAreCounted'
  <2> DEFINE n == generation + 1
  <2>1. /\ generation' = n /\ n \in Generation /\ UNCHANGED counts
        /\ n \notin 1 .. generation /\ 1 .. n = (1 .. generation) \cup {n}
    BY <1>1, <1>3, StartupAssumption DEF Run, Generation
  <2>2. ~task'[n].slot /\ \A g \in Generation \ {n} : task'[g] = task[g]
    BY <1>1, <1>3, <2>1 DEF Run, TaskType
  <2> HIDE DEF n
  <2>3. 1 .. generation \subseteq Generation \ {n}
    BY <1>1, <2>1, GenerationSet
  <2>4. \A p : PhaseSlots(p)' = PhaseSlots(p)
    BY <2>1, <2>2, <2>3 DEF PhaseSlots
  <2>5. \A c : CommandSlots(c)' = CommandSlots(c)
    BY <2>1, <2>2, <2>3 DEF CommandSlots
  <2>6. phaseCount' = phaseCount /\ commandCount' = commandCount
    BY <2>1 DEF counts
  <2>7. QED BY <2>4, <2>5, <2>6 DEF SlotInv, SlotsAreCounted, PhaseSlots, CommandSlots
<1>4. ASSUME NEW g \in drain, DrainStarts(g)
      PROVE  SlotsAreCounted'
  <2> DEFINE t == task[g]
  <2>1. /\ g \in 1 .. generation /\ g \in Generation /\ ~t.slot
        /\ t \in Submission /\ t = task[g]
    BY <1>1, KeyFacts DEF Shaped
  <2> HIDE DEF t
  <2>2. Becomes(g, Started(t)) /\ Started(t).key = t.key /\ Started(t).slot
    BY <1>1, <1>4, <2>1, Becoming, BecomesFields
  <2>3. /\ UNCHANGED generation /\ canStart(task[g].key) /\ incrementRunning(task[g].key)
    BY <1>4 DEF DrainStarts
  <2>4. \A h \in 1 .. generation :
          /\ task'[h].key = task[h].key
          /\ task'[h].slot <=> task[h].slot \/ h = g
    <3>1. 1 .. generation \subseteq Generation /\ task'[g] = Started(t)
      BY <1>1, <2>2, GenerationSet DEF Becomes
    <3>2. \A h \in 1 .. generation : h # g => task'[h] = task[h]
      BY <2>2, <3>1 DEF Becomes
    <3>3. QED BY <2>1, <2>2, <3>1, <3>2
  <2>5. QED BY <2>1, <2>3, <2>4, SlotTaken
<1>5. ASSUME NEW g \in Generation, BodyEnds(g)
      PROVE  SlotsAreCounted'
  <2> DEFINE t == task[g]
  <2>1. g \in 1 .. generation /\ t \in Submission /\ t = task[g]
    BY <1>1, <1>5, Found
  <2> HIDE DEF t
  <2>2. Becomes(g, Ended(t)) /\ Ended(t).key = t.key /\ ~Ended(t).slot
    BY <1>1, <1>5, <2>1, Becoming, BecomesFields
  <2>3. Finish(g)
    BY <1>5 DEF BodyEnds
  <2>4. QED BY <2>1, <2>2, <2>3, FinishedOnce
<1>6. ASSUME NEW g \in Generation, OrphanEnds(g)
      PROVE  SlotsAreCounted'
  <2> DEFINE t == task[g]
  <2>1. g \in 1 .. generation /\ t \in Submission /\ t = task[g]
        /\ UNCHANGED <<generation, counts>>
    BY <1>1, <1>6, Found DEF OrphanEnds
  <2> HIDE DEF t
  <2>2. Becomes(g, Orphaned(t)) /\ Orphaned(t).key = t.key /\ Orphaned(t).slot = t.slot
    BY <1>1, <1>6, <2>1, Becoming, BecomesFields
  <2>3. GiveBack({})
    BY <1>1, <2>1, <2>2, BecomesGivesBack
  <2>4. QED BY <2>1, <2>3, SlotsKept
<1>7. ASSUME NEW g \in Generation, TimesOut(g)
      PROVE  SlotsAreCounted'
  <2> DEFINE t == task[g]
  <2>1. g \in 1 .. generation /\ t \in Submission /\ t = task[g]
        /\ UNCHANGED <<generation, counts>>
    BY <1>1, <1>7, Found DEF TimesOut
  <2> HIDE DEF t
  <2>2. Becomes(g, Late(t)) /\ Late(t).key = t.key /\ Late(t).slot = t.slot
    BY <1>1, <1>7, <2>1, Becoming, BecomesFields
  <2>3. GiveBack({})
    BY <1>1, <2>1, <2>2, BecomesGivesBack
  <2>4. QED BY <2>1, <2>3, SlotsKept
<1>8. ASSUME NEW g \in Generation, TimesOutCancelled(g)
      PROVE  SlotsAreCounted'
  <2> DEFINE t == task[g]
  <2>1. g \in 1 .. generation /\ t \in Submission /\ t = task[g]
    BY <1>1, <1>8, Found
  <2> HIDE DEF t
  <2>2. Becomes(g, LateCancelled(t)) /\ LateCancelled(t).key = t.key /\ ~LateCancelled(t).slot
    BY <1>1, <1>8, <2>1, Becoming, BecomesFields
  <2>3. Finish(g)
    BY <1>8 DEF TimesOutCancelled
  <2>4. QED BY <2>1, <2>2, <2>3, FinishedOnce
<1>9. ASSUME NEW g \in Generation, FallbackEnds(g)
      PROVE  SlotsAreCounted'
  <2> DEFINE t == task[g]
  <2>1. g \in 1 .. generation /\ t \in Submission /\ t = task[g] /\ UNCHANGED generation
    BY <1>1, <1>9, Found
  <2> HIDE DEF t
  <2>2. /\ Becomes(g, FellBack(t)) /\ FellBack(t).key = t.key
        /\ FellBack(t).slot = IF t.where = "settling" THEN FALSE ELSE t.slot
    BY <1>1, <1>9, <2>1, Becoming, BecomesFields
  <2>3. CASE t.where = "settling"
    <3>1. Finish(g) /\ ~FellBack(t).slot
      BY <1>9, <2>1, <2>2, <2>3 DEF FallbackEnds
    <3>2. QED BY <2>1, <2>2, <3>1, FinishedOnce
  <2>4. CASE t.where # "settling"
    <3>1. UNCHANGED counts /\ FellBack(t).slot = t.slot
      BY <1>9, <2>1, <2>2, <2>4 DEF FallbackEnds, counts
    <3>2. GiveBack({})
      BY <1>1, <2>1, <2>2, <3>1, BecomesGivesBack
    <3>3. QED BY <3>1, <3>2, SlotsKept
  <2>5. QED BY <2>3, <2>4
<1>10. ASSUME NEW G \in SUBSET Holders, Cancel(G)
       PROVE  SlotsAreCounted'
  <2> DEFINE R == {g \in G : task[g].slot}
  <2>1. G \subseteq 1 .. generation
    BY <1>1, HoldersType
  <2>2. /\ UNCHANGED generation /\ \A g \in Generation \ G : task'[g] = task[g]
        /\ \A g \in G : task[g] \in Submission /\ task'[g] = CancelledOut(task[g])
    BY <1>1, <1>10, <2>1, CancelTasks
  <2>3. decrementRunning(R)
    BY <1>10 DEF Cancel
  <2>4. ASSUME NEW g \in G
        PROVE  task'[g].key = task[g].key /\ ~task'[g].slot
    <3>1. CancelledOut(task[g]).key = task[g].key /\ ~CancelledOut(task[g]).slot
      BY <2>2, BecomesFields
    <3>2. QED BY <2>2, <3>1, Zenon
  <2>5. \A h \in 1 .. generation : h \notin G => task'[h] = task[h]
    BY <1>1, <2>2, GenerationSet
  <2>6. GiveBack(R)
    BY <2>2, <2>4, <2>5 DEF GiveBack
  <2>7. R \in SUBSET (1 .. generation) /\ \A g \in R : task[g].slot
    BY <2>1
  <2> HIDE DEF R
  <2>8. QED BY <2>3, <2>6, <2>7, SlotsGivenBack
<1>11. ASSUME cancelAllTasks \/ \E k \in Keys : cancelTask(k)
       PROVE  SlotsAreCounted'
  BY <1>10, <1>11 DEF cancelAllTasks, cancelTask
<1>12. ASSUME NEW w, cancelWorkspaceTasks(w)
       PROVE  SlotsAreCounted'
  BY <1>10, <1>12 DEF cancelWorkspaceTasks
<1>13. ASSUME IdleResumes \/ SliceEnds \/ \E g \in drain : DrainSkips(g) \/ DrainYields(g)
       PROVE  SlotsAreCounted'
  BY <1>2, <1>13 DEF IdleResumes, SliceEnds, DrainSkips, DrainYields
<1>14. QED
  BY <1>3, <1>4, <1>5, <1>6, <1>7, <1>8, <1>9, <1>11, <1>12, <1>13 DEF Next, Drains, Timer

\* The counters are the numbers of tasks that have a slot, within the limits,
\* in whatever order cancellations, timeouts and bodies end: each gives a slot back
\* once.
THEOREM StartupCountsSlots == Spec => []SlotsAreCounted
<1>1. ASSUME SlotInv, [Next]_vars
      PROVE  SlotInv'
  <2>1. CASE Next
    BY <1>1, <2>1, KeyInvStep, SlotStep DEF SlotInv
  <2>2. CASE UNCHANGED vars
    <3>1. SlotsAreCounted'
      BY <1>1, <2>2, SlotsKept DEF GiveBack, vars, counts
    <3>2. QED BY <1>1, <3>1, KeyInvStep DEF SlotInv
  <2>3. QED BY <1>1, <2>1, <2>2
<1>2. SlotInv => SlotsAreCounted
  BY DEF SlotInv
<1>3. QED BY SlotInit, <1>1, <1>2, PTL DEF Spec

=============================================================================
