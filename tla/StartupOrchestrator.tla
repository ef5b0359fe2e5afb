------------------------ MODULE StartupOrchestrator ------------------------
(***************************************************************************)
(* The queue that spreads the work of a cold start over the event loop:    *)
(* startup-orchestration/utils/startupOrchestrator.ts.                     *)
(*                                                                         *)
(* A caller submits a task under a dedupe key and gets a promise.  Tasks   *)
(* wait in a queue, start in order of phase and priority under a limit per *)
(* phase and per heavy command, race against a timeout, and may be         *)
(* cancelled at any time; a task that was cancelled or timed out answers   *)
(* its caller with a fallback while its body, an IPC call, goes on.        *)
(*                                                                         *)
(* JavaScript runs to completion, so an action is what one turn of the     *)
(* event loop does, with the continuations it makes due.  drainQueue is    *)
(* split into one step per task that it looks at: while it is under way    *)
(* (drain # {}) nothing else happens.                                      *)
(*                                                                         *)
(* Simplifications.                                                        *)
(*  - A descriptor is given by its dedupe key.                             *)
(*  - A submission is known by its generation.  Clocks do not step back,   *)
(*    so that queuedAt orders submissions as their generations do.         *)
(*  - The trace, which no step reads, is left out, and so is what a caller   *)
(*    is answered: a result, an error, the value of the fallback.            *)
(***************************************************************************)
EXTENDS Naturals, FiniteSets

CONSTANTS
  Keys,            \* dedupe keys
  PhaseOf,         \* phase of the descriptor under a key
  PriorityOf,      \* its priority within the phase
  CommandOf,       \* its concurrency key
  ScopeOf,         \* its workspace, or "global"
  PhaseLimit,      \* phaseConcurrency
  CommandLimit,    \* heavyCommandConcurrency, for the commands that have one
  MaxRuns          \* bound: submissions

Phases == {"critical", "first-paint", "active-workspace", "idle-prewarm",
           "on-demand"}

phaseRank == [p \in Phases |->
  CASE p = "critical" -> 0
    [] p = "first-paint" -> 1
    [] p = "active-workspace" -> 2
    [] p = "idle-prewarm" -> 3
    [] p = "on-demand" -> 4]

ASSUME StartupAssumption ==
  /\ PhaseOf \in [Keys -> Phases]
  /\ PriorityOf \in [Keys -> Nat]
  /\ DOMAIN CommandOf = Keys
  /\ DOMAIN ScopeOf = Keys
  /\ PhaseLimit \in [Phases -> Nat \ {0}]
  /\ \A c \in DOMAIN CommandLimit : CommandLimit[c] \in Nat \ {0}
  /\ MaxRuns \in Nat
  /\ IsFiniteSet(Keys)

Generation == 1 .. MaxRuns
Commands == {CommandOf[k] : k \in Keys}

VARIABLES
  generation, \* submissions so far
  task,       \* what became of each submission
  queue,      \* the submissions that wait
  drain,      \* what drainQueue has still to look at, nothing when it is over
  inFlight,   \* inFlightByDedupeKey, 0 when absent
  running,    \* runningByDedupeKey, 0 when absent
  phaseCount, \* runningCountByPhase
  commandCount, \* runningCountByConcurrencyKey
  cancelled,  \* cancelledGenerations
  slice,      \* the idle slice: none yet, within its budget, over it
  resumed,    \* idleDrainResumedAfterYield
  resuming,   \* idleResumeScheduled
  withdrawn   \* history: the cancelled submissions whose bodies go on

vars == <<generation, task, queue, drain, inFlight, running, phaseCount,
          commandCount, cancelled, slice, resumed, resuming, withdrawn>>
idle == <<slice, resumed, resuming>>
counts == <<phaseCount, commandCount>>

\* A submission: its key; where startTask is with it; whether it has a slot
\* (it is in runningByDedupeKey and counted); whether its body is under way;
\* its caller's promise.
Submission == [
  key    : Keys,
  where  : {"queued", "racing", "settling", "over"},
  slot   : BOOLEAN,
  body   : BOOLEAN,
  caller : {"waiting", "fallback", "answered"}]
NoSubmission == [where |-> "none", slot |-> FALSE, body |-> FALSE,
                 caller |-> "none"]

Init ==
  /\ generation = 0
  /\ task = [g \in Generation |-> NoSubmission]
  /\ queue = {}
  /\ drain = {}
  /\ inFlight = [k \in Keys |-> 0]
  /\ running = [k \in Keys |-> 0]
  /\ phaseCount = [p \in Phases |-> 0]
  /\ commandCount = [c \in Commands |-> 0]
  /\ cancelled = {}
  /\ slice = "none"
  /\ resumed = FALSE
  /\ resuming = FALSE
  /\ withdrawn = {}

-----------------------------------------------------------------------------
Live(g) == task[g].where = "queued" \/ task[g].slot
Pending(g) == task[g].caller \in {"waiting", "fallback"}

\* The order in which drainQueue sorts the queue.
Before(g, h) ==
  LET k == task[g].key
      l == task[h].key
  IN \/ phaseRank[PhaseOf[k]] < phaseRank[PhaseOf[l]]
     \/ /\ PhaseOf[k] = PhaseOf[l]
        /\ \/ PriorityOf[k] > PriorityOf[l]
           \/ PriorityOf[k] = PriorityOf[l] /\ g < h

\* Math.max(0, count - n)
Minus(count, n) == IF n < count THEN count - n ELSE 0

canStart(k) ==
  /\ phaseCount[PhaseOf[k]] < PhaseLimit[PhaseOf[k]]
  /\ CommandOf[k] \in DOMAIN CommandLimit =>
       commandCount[CommandOf[k]] < CommandLimit[CommandOf[k]]

\* drainQueue begins with a copy of the queue.
DrainNext == drain' = queue'
NoDrain == drain' = {}

incrementRunning(k) ==
  /\ phaseCount' = [phaseCount EXCEPT ![PhaseOf[k]] = @ + 1]
  /\ commandCount' = [commandCount EXCEPT ![CommandOf[k]] = @ + 1]

\* decrementRunning for every submission of G
decrementRunning(G) ==
  /\ phaseCount' = [p \in Phases |->
       Minus(phaseCount[p], Cardinality({g \in G : PhaseOf[task[g].key] = p}))]
  /\ commandCount' = [c \in Commands |->
       Minus(commandCount[c], Cardinality({g \in G : CommandOf[task[g].key] = c}))]

\* Mutant: the key is deleted whosever promise it has.
releaseAnyway(g) == inFlight' = [inFlight EXCEPT ![task[g].key] = 0]

\* releaseInFlight: the promise of g is settled.
releaseInFlight(g) ==
  inFlight' = [inFlight EXCEPT ![task[g].key] = IF @ = g THEN 0 ELSE @]

\* Mutant: the slot is given back although a cancellation has done so.
FinishAnyway(g) ==
  /\ cancelled' = cancelled \ {g}
  /\ running' = [running EXCEPT ![task[g].key] = 0]
  /\ decrementRunning({g})
  /\ UNCHANGED <<generation, queue, idle>>
  /\ DrainNext

\* The finally block of startTask.
Finish(g) ==
  /\ cancelled' = cancelled \ {g}
  /\ UNCHANGED <<generation, queue, idle>>
  /\ \/ /\ task[g].slot
        /\ running' = [running EXCEPT ![task[g].key] = 0]
        /\ decrementRunning({g})
        /\ DrainNext
     \/ /\ ~task[g].slot
        /\ UNCHANGED <<running, counts, drain>>

-----------------------------------------------------------------------------
\* run: a key in flight gives the promise it has, which changes nothing.
Run(k) ==
  /\ drain = {}
  /\ inFlight[k] = 0
  /\ generation < MaxRuns
  /\ generation' = generation + 1
  /\ task' = [task EXCEPT ![generation'] =
       [key |-> k, where |-> "queued", slot |-> FALSE, body |-> FALSE,
        caller |-> "waiting"]]
  /\ queue' = queue \cup {generation'}
  /\ inFlight' = [inFlight EXCEPT ![k] = generation']
  /\ DrainNext
  /\ UNCHANGED <<running, counts, cancelled, idle, withdrawn>>

Looks(g) == g \in drain /\ \A h \in drain \ {g} : Before(g, h)

\* drainQueue passes over a task that may not start.
DrainSkips(g) ==
  /\ Looks(g)
  /\ ~canStart(task[g].key)
  /\ drain' = drain \ {g}
  /\ UNCHANGED <<generation, task, queue, inFlight, running, counts, cancelled,
                 idle, withdrawn>>

YieldsIdle(k) == PhaseOf[k] = "idle-prewarm" /\ ~resumed /\ slice = "over"

\* It leaves the rest for later when the idle slice is used up.
DrainYields(g) ==
  /\ Looks(g)
  /\ canStart(task[g].key)
  /\ YieldsIdle(task[g].key)
  /\ slice' = "within"
  /\ resuming' = TRUE
  /\ drain' = {}
  /\ UNCHANGED <<generation, task, queue, inFlight, running, counts, cancelled,
                 resumed, withdrawn>>

\* startTask up to its first await: the body is under way.
DrainStarts(g) ==
  LET k == task[g].key IN
  /\ Looks(g)
  /\ canStart(k)
  /\ ~YieldsIdle(k)
  /\ IF PhaseOf[k] = "idle-prewarm"
     THEN /\ resumed' = FALSE
          /\ slice' = "within"
     ELSE UNCHANGED <<resumed, slice>>
  /\ drain' = drain \ {g}
  /\ queue' = queue \ {g}
  /\ running' = [running EXCEPT ![k] = g]
  /\ incrementRunning(k)
  /\ task' = [task EXCEPT ![g].where = "racing", ![g].slot = TRUE,
                          ![g].body = TRUE]
  /\ UNCHANGED <<generation, inFlight, cancelled, resuming, withdrawn>>

-----------------------------------------------------------------------------
\* The body returns or throws before its timeout: its caller is told, unless it
\* was cancelled meanwhile.
BodyEnds(g) ==
  /\ drain = {}
  /\ task[g].where = "racing"
  /\ task' = [task EXCEPT
       ![g].where = "over", ![g].body = FALSE, ![g].slot = FALSE,
       ![g].caller = IF @ = "waiting" THEN "answered" ELSE @]
  /\ IF task[g].caller = "waiting" THEN releaseInFlight(g)
                                   ELSE UNCHANGED inFlight
  /\ withdrawn' = withdrawn \ {g}
  /\ Finish(g)

\* The body of a task that has timed out ends.  Nobody waits for it.
OrphanEnds(g) ==
  /\ drain = {}
  /\ task[g].body
  /\ task[g].where \in {"settling", "over"}
  /\ task' = [task EXCEPT ![g].body = FALSE]
  /\ withdrawn' = withdrawn \ {g}
  /\ UNCHANGED <<generation, queue, drain, inFlight, running, counts,
                 cancelled, idle>>

\* The timeout: startTask waits for the fallback and keeps its slot ...
TimesOut(g) ==
  /\ drain = {}
  /\ task[g].where = "racing"
  /\ task[g].caller = "waiting"
  /\ task' = [task EXCEPT ![g].where = "settling", ![g].caller = "fallback"]
  /\ UNCHANGED <<generation, queue, drain, inFlight, running, counts,
                 cancelled, idle, withdrawn>>

\* ... but it is over at once when a cancellation has asked for the fallback.
TimesOutCancelled(g) ==
  /\ drain = {}
  /\ task[g].where = "racing"
  /\ task[g].caller # "waiting"
  /\ task' = [task EXCEPT ![g].where = "over", ![g].slot = FALSE]
  /\ UNCHANGED <<inFlight, withdrawn>>
  /\ Finish(g)

\* The fallback gives a value or throws.
FallbackEnds(g) ==
  /\ drain = {}
  /\ task[g].caller = "fallback"
  /\ task' = [task EXCEPT
       ![g].caller = "answered",
       ![g].where = IF @ = "settling" THEN "over" ELSE @,
       ![g].slot = IF task[g].where = "settling" THEN FALSE ELSE @]
  /\ releaseInFlight(g)
  /\ UNCHANGED withdrawn
  /\ \/ task[g].where = "settling" /\ Finish(g)
     \/ /\ task[g].where # "settling"
        /\ UNCHANGED <<generation, queue, drain, running, counts, cancelled,
                       idle>>

-----------------------------------------------------------------------------
\* cancelQueuedTask and cancelRunningTask for the submissions of G
Cancel(G) ==
  LET R == {g \in G : task[g].slot}
      K == {task[g].key : g \in G}
  IN /\ queue' = queue \ G
     /\ inFlight' = [k \in Keys |-> IF k \in K THEN 0 ELSE inFlight[k]]
     /\ running' = [k \in Keys |->
          IF \E g \in R : task[g].key = k THEN 0 ELSE running[k]]
     /\ decrementRunning(R)
     /\ cancelled' = cancelled \cup R
     /\ withdrawn' = withdrawn \cup {g \in R : task[g].body}
     /\ task' = [g \in Generation |->
          IF g \notin G THEN task[g]
          ELSE [task[g] EXCEPT
                  !.slot = FALSE,
                  !.where = IF @ = "queued" THEN "over" ELSE @,
                  !.caller = IF @ = "waiting" THEN "fallback" ELSE @]]
     /\ UNCHANGED <<generation, idle>>

Holders == (queue \cup {running[k] : k \in Keys}) \ {0}

cancelTask(k) ==
  LET G == {g \in Holders : task[g].key = k} IN
  /\ drain = {}
  /\ G # {}
  /\ Cancel(G)
  /\ DrainNext

\* Mutant: nothing is started in the place of what was cancelled.
cancelWithoutDrain(w) ==
  /\ drain = {}
  /\ Cancel({g \in Holders : ScopeOf[task[g].key] = w})
  /\ NoDrain

cancelWorkspaceTasks(w) ==
  /\ drain = {}
  /\ Cancel({g \in Holders : ScopeOf[task[g].key] = w})
  /\ DrainNext

cancelAllTasks ==
  /\ drain = {}
  /\ Cancel(Holders)
  /\ NoDrain

-----------------------------------------------------------------------------
\* Mutant: the queue is left to the next event.
ResumesLater ==
  /\ drain = {}
  /\ resuming
  /\ resuming' = FALSE
  /\ resumed' = TRUE
  /\ UNCHANGED <<generation, task, queue, drain, inFlight, running, counts,
                 cancelled, slice, withdrawn>>

\* resumeIdleDrainLater, one millisecond later
IdleResumes ==
  /\ drain = {}
  /\ resuming
  /\ resuming' = FALSE
  /\ resumed' = TRUE
  /\ UNCHANGED queue
  /\ DrainNext
  /\ UNCHANGED <<generation, task, inFlight, running, counts, cancelled, slice,
                 withdrawn>>

\* The budget of the idle slice runs out.
SliceEnds ==
  /\ drain = {}
  /\ slice = "within"
  /\ slice' = "over"
  /\ UNCHANGED <<generation, task, queue, drain, inFlight, running, counts,
                 cancelled, resumed, resuming, withdrawn>>

Drains == \E g \in drain : DrainSkips(g) \/ DrainYields(g) \/ DrainStarts(g)

Timer(g) == TimesOut(g) \/ TimesOutCancelled(g)

Next ==
  \/ Drains
  \/ \E k \in Keys : Run(k) \/ cancelTask(k)
  \/ \E w \in {ScopeOf[k] : k \in Keys} \ {"global"} : cancelWorkspaceTasks(w)
  \/ cancelAllTasks
  \/ \E g \in Generation :
       \/ BodyEnds(g)
       \/ OrphanEnds(g)
       \/ Timer(g)
       \/ FallbackEnds(g)
  \/ IdleResumes
  \/ SliceEnds

Spec == Init /\ [][Next]_vars

\* Timers fire and fallbacks, which the tasks of the application make from
\* what they have at hand, end.  A body may hang for ever.  Fairness is strong
\* because drainQueue, one step of the event loop in the code, is several here,
\* during which a timer that is due waits.  Each submission has one timeout and
\* one fallback: fairness to all of them together is fairness to each.
Fairness ==
  /\ WF_vars(Drains)
  /\ SF_vars(IdleResumes)
  /\ SF_vars(\E g \in Generation : Timer(g) \/ FallbackEnds(g))

FairSpec == Spec /\ Fairness

-----------------------------------------------------------------------------
(* Properties.                                                             *)

\* Every variable has its type.
TypeOK ==
  /\ generation \in 0 .. MaxRuns
  /\ \A g \in Generation :
       task[g] \in (IF g <= generation THEN Submission ELSE {NoSubmission})
  /\ DOMAIN task = Generation
  /\ queue \subseteq 1 .. generation
  /\ drain \subseteq queue
  /\ inFlight \in [Keys -> 0 .. generation]
  /\ running \in [Keys -> 0 .. generation]
  /\ phaseCount \in [Phases -> Nat]
  /\ commandCount \in [Commands -> Nat]
  /\ cancelled \subseteq 1 .. generation
  /\ withdrawn \subseteq 1 .. generation
  /\ slice \in {"none", "within", "over"}
  /\ resumed \in BOOLEAN /\ resuming \in BOOLEAN

\* The counters count the tasks that have a slot, and no more of these than
\* the limits allow: a cancellation, a timeout and the end of the body each
\* give the slot back, in any order, and it is given back once.
SlotsAreCounted ==
  /\ \A p \in Phases :
       /\ phaseCount[p] =
            Cardinality({g \in 1 .. generation :
              task[g].slot /\ PhaseOf[task[g].key] = p})
       /\ phaseCount[p] <= PhaseLimit[p]
  /\ \A c \in Commands :
       /\ commandCount[c] =
            Cardinality({g \in 1 .. generation :
              task[g].slot /\ CommandOf[task[g].key] = c})
       /\ c \in DOMAIN CommandLimit => commandCount[c] <= CommandLimit[c]

\* A key names one task: the one that waits or has a slot is the one that new
\* callers share, and the one that a cancellation finds.  A task that was
\* cancelled, and whose body or fallback is still under way, does not take
\* its successor's place in the maps, nor remove it from them.
KeysNameOneTask ==
  \A g \in 1 .. generation :
    LET k == task[g].key IN
    /\ task[g].where = "queued" <=> g \in queue
    /\ task[g].slot <=> running[k] = g
    /\ Live(g) <=> inFlight[k] = g

\* No wake-up is lost: a task that could start does not stay in the queue,
\* unless drainQueue is under way or has a resumption scheduled.
StartableIsNotLeft ==
  drain = {} /\ ~resuming => \A g \in queue : ~canStart(task[g].key)

\* Every caller is answered: by the result, or by the fallback of a timeout or
\* a cancellation, also when the body never ends.
CallersAreAnswered ==
  \A g \in Generation : Pending(g) ~> ~Pending(g)

\* What the comment on cancelAllTasks says: the body of a task that was
\* cancelled finds itself stale for as long as it goes on.
OrphansAreStale ==
  withdrawn \subseteq cancelled

=============================================================================
