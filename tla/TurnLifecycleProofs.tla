------------------------ MODULE TurnLifecycleProofs ------------------------
(* Theorems about TurnLifecycle, for every set of attempts, bindings and    *)
(* threads, every engine and every bound. The first part holds with         *)
(* overlapping commands (Serial = FALSE) as well as without; the second is  *)
(* about what only commands that do not overlap can promise.                *)
EXTENDS TurnLifecycle, FiniteSetTheorems, TLAPS

-----------------------------------------------------------------------------
(* The inductive invariant.                                                *)

\* The steps of a dispatch before the engine may have the prompt.
BeforeSend == {"check", "register", "creating", "create", "sent", "send"}

\* What holds of a thread's state by the way commands go from step to step.
Shaped(s) ==
  /\ s \in ThreadState
  /\ s.io = "store" => s.plan \in Row
  /\ \/ s.binding = BindingOf[s.attempt]
     \/ s.step = "recovery" /\ s.why = "crash-window" /\ s.fact = NoFact
  /\ s.step \in BeforeSend => s.cmd = "dispatch"
  /\ s.step = "rebuild" => s.cmd = "rebuild"
  /\ s.fact = "turnRequested" => s.step = "begin"

\* What a thread relies on: its row exists, the end it is about to commit is
\* the engine's, and nobody else sends its prompt.
Grounded(s) ==
  /\ s.step # "begin" => row[s.binding] # NoRow
  /\ s.end.by = "runtime" =>
       Ended(s.attempt) /\ s.end.outcome = runtime[s.attempt]
  /\ s.fact = "turnCommitted" /\ s.end.outcome = "completed" =>
       Has(s.attempt, "turnAccepted")
  /\ s.cmd = "dispatch" => asked[s.attempt] = "dispatch"
  /\ s.step \in BeforeSend => runtime[s.attempt] = "none"

ThreadsShaped == \A t \in Thread : Running(t) => Shaped(thread[t])
ThreadsGrounded == \A t \in Thread : Running(t) => Grounded(thread[t])

Dispatches(t, a) ==
  Running(t) /\ thread[t].cmd = "dispatch" /\ thread[t].attempt = a

OneDispatcher ==
  \A a \in Attempt : \A t, u \in Thread :
    Dispatches(t, a) /\ Dispatches(u, a) => t = u

\* An attempt with a trace in the log or the coordinator has a binding row.
Started(a) == Requested(a) \/ log[a].has # {} \/ Registered(a)

AttemptsGrounded ==
  \A a \in Attempt :
    /\ Started(a) => row[BindingOf[a]] # NoRow
    /\ Settled(a) => Ended(a)
    /\ asked[a] # "nothing" => Requested(a)
    /\ asked[a] # "dispatch" => runtime[a] = "none"

TurnInv ==
  /\ TypeOK
  /\ ThreadsShaped
  /\ ThreadsGrounded
  /\ OneDispatcher
  /\ AttemptsGrounded
  /\ TerminalIsTrue

-----------------------------------------------------------------------------
(* Records: what is told apart, and what each move of a thread gives.      *)

LEMMA Sentinels ==
  /\ NoRow \notin Row
  /\ Idle \notin ThreadState
  /\ NoTerminal \notin Terminal
  /\ NoPending \notin Pending
BY LifecycleAssumption
   DEF NoRow, Row, State, Idle, ThreadState, Command, NoTerminal, Terminal,
       Author, Outcome, NoPending, Pending

LEMMA StartFields ==
  ASSUME NEW cmd \in Command, NEW step \in Step, NEW a \in Attempt,
         NEW b \in Binding
  PROVE  LET g == Start(cmd, step, a, b) IN
         /\ g \in ThreadState
         /\ g.cmd = cmd /\ g.step = step /\ g.io = "load" /\ g.attempt = a
         /\ g.binding = b /\ g.fact = NoFact
         /\ g.end = NoTerminal /\ g.why = "none"
BY DEF Start, ThreadState, FactType, Reason

LEMMA BindingType ==
  ASSUME NEW a \in Attempt
  PROVE  BindingOf[a] \in Binding
BY LifecycleAssumption

LEMMA GotoFields ==
  ASSUME NEW s \in ThreadState, NEW step \in Step
  PROVE  LET g == Goto(s, step) IN
         /\ g \in ThreadState
         /\ g.cmd = s.cmd /\ g.step = step /\ g.io = "load"
         /\ g.attempt = s.attempt /\ g.binding = s.binding
         /\ g.fact = NoFact /\ g.end = s.end /\ g.why = s.why
BY DEF Goto, ThreadState, FactType

LEMMA ToCommitFields ==
  ASSUME NEW s \in ThreadState, NEW outcome \in Outcome, NEW by \in Author
  PROVE  LET g == ToCommit(s, outcome, by) IN
         /\ g \in ThreadState
         /\ g.cmd = s.cmd /\ g.step = "commit" /\ g.io = "load"
         /\ g.attempt = s.attempt /\ g.binding = s.binding
         /\ g.fact = NoFact /\ g.end = [outcome |-> outcome, by |-> by]
         /\ g.why = s.why
<1>1. "commit" \in Step
  BY DEF Step
<1>2. [outcome |-> outcome, by |-> by] \in Terminal
  BY DEF Terminal
<1>3. Goto(s, "commit") \in ThreadState
  BY <1>1, GotoFields
<1>4. QED BY <1>1, <1>2, <1>3, GotoFields DEF ToCommit, ThreadState

LEMMA ToRecoveryFields ==
  ASSUME NEW s \in ThreadState, NEW why \in Reason
  PROVE  LET g == ToRecovery(s, why) IN
         /\ g \in ThreadState
         /\ g.cmd = s.cmd /\ g.step = "recovery" /\ g.io = "load"
         /\ g.attempt = s.attempt /\ g.binding = s.binding
         /\ g.fact = NoFact /\ g.end = s.end /\ g.why = why
<1>1. "recovery" \in Step
  BY DEF Step
<1>2. Goto(s, "recovery") \in ThreadState
  BY <1>1, GotoFields
<1>3. QED BY <1>1, <1>2, GotoFields DEF ToRecovery, ThreadState

LEMMA PlanFields ==
  ASSUME NEW s \in ThreadState, NEW new \in Row, NEW fact \in FactType
  PROVE  LET g == Plan(s, new, fact) IN
         /\ g \in ThreadState
         /\ g.cmd = s.cmd /\ g.step = s.step /\ g.io = "store"
         /\ g.attempt = s.attempt /\ g.binding = s.binding
         /\ g.plan = new /\ g.fact = fact /\ g.end = s.end /\ g.why = s.why
BY DEF Plan, ThreadState

-----------------------------------------------------------------------------
(* What a thread may become.                                               *)

Good(t, x) ==
  \/ x = Idle
  \/ /\ Shaped(x)
     /\ Grounded(x)
     /\ x.cmd = "dispatch" => Dispatches(t, x.attempt)

LEMMA RunningThread ==
  ASSUME TurnInv, NEW t \in Thread, Running(t)
  PROVE  /\ thread[t] \in ThreadState
         /\ Shaped(thread[t])
         /\ Grounded(thread[t])
         /\ thread[t].attempt \in Attempt
         /\ thread[t].binding \in Binding
<1>1. thread[t] \in ThreadState
  BY DEF TurnInv, TypeOK, Running
<1>2. QED
  BY <1>1 DEF TurnInv, ThreadsShaped, ThreadsGrounded, ThreadState

\* A thread at the start of begin_turn_core, or marking another binding that a
\* crash left in creation, has not settled on what it works on.
Unsettled(s) ==
  \/ s.step = "begin"
  \/ s.step = "recovery" /\ s.why = "crash-window"

\* x is a later step of the command s, for the same attempt and binding.
Follows(x, s) ==
  /\ x \in ThreadState
  /\ ~Unsettled(s)
  /\ x.cmd = s.cmd /\ x.attempt = s.attempt /\ x.binding = s.binding
  /\ x.step # "begin"
  /\ x.step \in BeforeSend => s.step \in BeforeSend
  /\ x.step = "rebuild" => s.cmd = "rebuild"
  /\ x.io = "store" => x.plan \in Row
  /\ x.fact # "turnRequested"
  /\ \/ x.end = s.end
     \/ x.end.by # "runtime"
     \/ Ended(x.attempt) /\ x.end.outcome = runtime[x.attempt]
  /\ x.fact = "turnCommitted" /\ x.end.outcome = "completed" =>
       Has(x.attempt, "turnAccepted")

LEMMA SameCommand ==
  ASSUME TurnInv, NEW t \in Thread, Running(t), NEW x, Follows(x, thread[t])
  PROVE  Good(t, x)
<1> DEFINE s == thread[t]
<1>1. Shaped(s) /\ Grounded(s) /\ Follows(x, s) /\ s \in ThreadState
  BY RunningThread
<1>2. Dispatches(t, x.attempt) <=> s.cmd = "dispatch" /\ s.attempt = x.attempt
  BY DEF Dispatches
<1> HIDE DEF s
<1>3. Shaped(x)
  BY <1>1 DEF Shaped, Follows, Unsettled
<1>4. Grounded(x)
  <2>1. row[x.binding] # NoRow
    BY <1>1 DEF Grounded, Follows, Unsettled
  <2>2. x.end.by = "runtime" =>
          Ended(x.attempt) /\ x.end.outcome = runtime[x.attempt]
    BY <1>1 DEF Grounded, Follows
  <2>3. x.fact = "turnCommitted" /\ x.end.outcome = "completed" =>
          Has(x.attempt, "turnAccepted")
    BY <1>1 DEF Follows
  <2>4. x.cmd = "dispatch" => asked[x.attempt] = "dispatch"
    BY <1>1 DEF Grounded, Follows
  <2>5. x.step \in BeforeSend => runtime[x.attempt] = "none"
    BY <1>1 DEF Grounded, Follows
  <2>6. QED BY <2>1, <2>2, <2>3, <2>4, <2>5 DEF Grounded
<1>5. x.cmd = "dispatch" => Dispatches(t, x.attempt)
  BY <1>1, <1>2 DEF Follows
<1>6. QED BY <1>3, <1>4, <1>5 DEF Good

\* The steps that only load the next one.
LEMMA GotoGood ==
  ASSUME TurnInv, NEW t \in Thread, Running(t), NEW step \in Step,
         ~Unsettled(thread[t]),
         step # "begin",
         step \in BeforeSend => thread[t].step \in BeforeSend,
         step = "rebuild" => thread[t].cmd = "rebuild"
  PROVE  Good(t, Goto(thread[t], step))
<1> DEFINE s == thread[t]
           g == Goto(s, step)
<1>1. s \in ThreadState
  BY RunningThread
<1>2. /\ g \in ThreadState
      /\ g.cmd = s.cmd /\ g.step = step /\ g.io = "load"
      /\ g.attempt = s.attempt /\ g.binding = s.binding
      /\ g.fact = "none" /\ g.end = s.end
  BY <1>1, GotoFields DEF NoFact
<1>3. /\ ~Unsettled(s)
      /\ step \in BeforeSend => s.step \in BeforeSend
      /\ step = "rebuild" => s.cmd = "rebuild"
  OBVIOUS
<1> HIDE DEF g, s
<1>4. Follows(g, s)
  BY <1>1, <1>2, <1>3 DEF Follows
<1>5. QED BY <1>4, SameCommand DEF g, s

LEMMA ToCommitGood ==
  ASSUME TurnInv, NEW t \in Thread, Running(t), ~Unsettled(thread[t]),
         NEW outcome \in Outcome, NEW by \in Author,
         by = "runtime" => /\ Ended(thread[t].attempt)
                           /\ outcome = runtime[thread[t].attempt]
  PROVE  Good(t, ToCommit(thread[t], outcome, by))
<1> DEFINE s == thread[t]
           g == ToCommit(s, outcome, by)
<1>1. s \in ThreadState
  BY RunningThread
<1>2. /\ g \in ThreadState
      /\ g.cmd = s.cmd /\ g.step = "commit" /\ g.io = "load"
      /\ g.attempt = s.attempt /\ g.binding = s.binding
      /\ g.fact = "none" /\ g.end = [outcome |-> outcome, by |-> by]
  BY <1>1, ToCommitFields DEF NoFact
<1> HIDE DEF g
<1>3. /\ "commit" \notin BeforeSend
      /\ g.end.by = by /\ g.end.outcome = outcome
  BY <1>2 DEF BeforeSend
<1>4. Follows(g, s)
  BY <1>1, <1>2, <1>3 DEF Follows
<1>5. QED BY <1>4, SameCommand DEF g

LEMMA ToRecoveryGood ==
  ASSUME TurnInv, NEW t \in Thread, Running(t), ~Unsettled(thread[t]),
         NEW why \in Reason
  PROVE  Good(t, ToRecovery(thread[t], why))
<1> DEFINE s == thread[t]
           g == ToRecovery(s, why)
<1>1. s \in ThreadState
  BY RunningThread
<1>2. /\ g \in ThreadState
      /\ g.cmd = s.cmd /\ g.step = "recovery" /\ g.io = "load"
      /\ g.attempt = s.attempt /\ g.binding = s.binding
      /\ g.fact = "none" /\ g.end = s.end
  BY <1>1, ToRecoveryFields DEF NoFact
<1> HIDE DEF g
<1>3. "recovery" \notin BeforeSend
  BY DEF BeforeSend
<1>4. Follows(g, s)
  BY <1>1, <1>2, <1>3 DEF Follows
<1>5. QED BY <1>4, SameCommand DEF g

\* A planned write, of any fact but the request.
LEMMA PlanGood ==
  ASSUME TurnInv, NEW t \in Thread, Running(t), ~Unsettled(thread[t]),
         NEW new \in Row, NEW fact \in FactType,
         fact # "turnRequested",
         fact = "turnCommitted" /\ thread[t].end.outcome = "completed"
           => Has(thread[t].attempt, "turnAccepted")
  PROVE  Good(t, Plan(thread[t], new, fact))
<1> DEFINE s == thread[t]
           g == Plan(s, new, fact)
<1>1. s \in ThreadState /\ Shaped(s)
  BY RunningThread
<1>2. /\ g \in ThreadState
      /\ g.cmd = s.cmd /\ g.step = s.step /\ g.io = "store"
      /\ g.attempt = s.attempt /\ g.binding = s.binding
      /\ g.plan = new /\ g.fact = fact /\ g.end = s.end
  BY <1>1, PlanFields
<1> HIDE DEF g
<1>3. /\ g.step = "rebuild" => s.cmd = "rebuild"
      /\ g.step # "begin"
  BY <1>1, <1>2 DEF Shaped, Unsettled
<1>4. Follows(g, s)
  BY <1>1, <1>2, <1>3 DEF Follows
<1>5. QED BY <1>4, SameCommand DEF g

LEMMA AfterCommitGood ==
  ASSUME TurnInv, NEW t \in Thread, Running(t), thread[t].step = "commit",
         NEW result
  PROVE  Good(t, AfterCommit(thread[t], result))
<1> DEFINE s == thread[t]
           r == [s EXCEPT !.good = (result = "ok")]
           x == AfterCommit(s, result)
           remove == Goto(r, "remove")
           clear == Goto(r, "clear")
           missing == ToRecovery(r, "native-missing")
           failed == ToRecovery(r, "commit-failed")
<1>1. s \in ThreadState /\ ~Unsettled(s)
  BY RunningThread DEF Unsettled
<1>2. /\ r \in ThreadState /\ r.cmd = s.cmd /\ r.attempt = s.attempt
      /\ r.binding = s.binding /\ r.end = s.end
  BY <1>1 DEF ThreadState
<1>3. x \in {remove, clear, missing, failed, Idle}
  BY DEF AfterCommit, CommitFailed
<1> HIDE DEF r, x, s
<1>4. /\ Follows(remove, s) /\ Follows(clear, s)
      /\ Follows(missing, s) /\ Follows(failed, s)
  <2>1. /\ {"remove", "clear"} \subseteq Step
        /\ {"native-missing", "commit-failed"} \subseteq Reason
        /\ {"remove", "clear", "recovery"} \cap BeforeSend = {}
    BY DEF Step, Reason, BeforeSend
  <2>2. ASSUME NEW g \in {remove, clear, missing, failed}
        PROVE  /\ g \in ThreadState /\ g.cmd = s.cmd
               /\ g.attempt = s.attempt /\ g.binding = s.binding
               /\ g.io = "load" /\ g.fact = "none" /\ g.end = s.end
               /\ g.step \in {"remove", "clear", "recovery"}
    <3>1. \A step \in {"remove", "clear"} :
            LET h == Goto(r, step) IN
            /\ h \in ThreadState /\ h.cmd = s.cmd
            /\ h.attempt = s.attempt /\ h.binding = s.binding
            /\ h.io = "load" /\ h.fact = "none" /\ h.end = s.end
            /\ h.step = step
      BY <1>2, <2>1, GotoFields DEF NoFact
    <3>2. \A why \in {"native-missing", "commit-failed"} :
            LET h == ToRecovery(r, why) IN
            /\ h \in ThreadState /\ h.cmd = s.cmd
            /\ h.attempt = s.attempt /\ h.binding = s.binding
            /\ h.io = "load" /\ h.fact = "none" /\ h.end = s.end
            /\ h.step = "recovery"
      BY <1>2, <2>1, ToRecoveryFields DEF NoFact
    <3>3. QED BY <3>1, <3>2
  <2> HIDE DEF remove, clear, missing, failed
  <2>3. ASSUME NEW g \in {remove, clear, missing, failed}
        PROVE  Follows(g, s)
    <3>1. /\ g \in ThreadState /\ g.cmd = s.cmd
          /\ g.attempt = s.attempt /\ g.binding = s.binding
          /\ g.io = "load" /\ g.fact = "none" /\ g.end = s.end
          /\ g.step \in {"remove", "clear", "recovery"}
      BY <2>2
    <3>2. QED BY <1>1, <2>1, <3>1 DEF Follows
  <2>4. QED BY <2>3
<1>5. QED
  <2>1. CASE x = Idle
    BY <2>1 DEF Good, x, s
  <2>2. CASE x # Idle
    <3>1. Follows(x, s)
      BY <1>3, <1>4, <2>2
    <3>2. QED BY <3>1, SameCommand DEF x, s
  <2>3. QED BY <2>1, <2>2

LEMMA AfterRemoveCases ==
  ASSUME NEW s \in ThreadState
  PROVE  \/ AfterRemove(s) = Idle
         \/ AfterRemove(s) = Goto(s, "clear")
         \/ AfterRemove(s) = ToRebuild(s) /\ s.cmd = "rebuild"
<1>1. s.good \in BOOLEAN
  BY DEF ThreadState
<1>2. CASE s.good
  BY <1>2 DEF AfterRemove
<1>3. CASE ~s.good
  BY <1>3 DEF AfterRemove
<1>4. QED BY <1>1, <1>2, <1>3

LEMMA AfterGood ==
  ASSUME TurnInv, NEW t \in Thread, Running(t), NEW result
  PROVE  Good(t, After(thread[t], result))
<1> DEFINE s == thread[t]
           x == After(s, result)
<1>1. s \in ThreadState
  BY RunningThread
<1>2. Good(t, Idle)
  BY DEF Good
<1>3. CASE s.step = "commit"
  BY <1>3, AfterCommitGood DEF After
<1>4. CASE s.step = "recovery"
  <2>1. "native-missing" # "crash-window" /\ "remove" \in Step
        /\ "remove" \notin BeforeSend
    BY DEF Step, BeforeSend
  <2>2. x = AfterRecovery(s)
    BY <1>4 DEF After
  <2>3. CASE s.why = "native-missing"
    <3>1. ~Unsettled(s)
      BY <1>4, <2>3 DEF Unsettled
    <3>2. x = Goto(s, "remove")
      BY <2>2, <2>3 DEF AfterRecovery
    <3>3. QED BY <2>1, <3>1, <3>2, GotoGood
  <2>4. CASE s.why # "native-missing"
    BY <1>2, <2>2, <2>4 DEF AfterRecovery
  <2>5. QED BY <2>3, <2>4
<1>5. CASE s.step \notin {"commit", "recovery"}
  <2> DEFINE Later == {"create", "sent", "send", "trust", "acceptTurn",
                       "drain", "remove", "clear", "rebuild"}
  <2>1. CASE s.step = "begin"
    BY <1>2, <2>1 DEF After
  <2>2. CASE s.step # "begin"
    <3>1. ~Unsettled(s)
      BY <1>5, <2>2 DEF Unsettled
    <3>2. Later \subseteq Step /\ "begin" \notin Later
          /\ "prepare" \in Author /\ "failed" \in Outcome
          /\ "ambiguous" \in Reason
      BY DEF Step, Author, Outcome, Reason
    <3>3. Good(t, ToCommit(s, "failed", "prepare"))
      BY <3>1, <3>2, ToCommitGood
    <3>4. Good(t, ToRecovery(s, "ambiguous"))
      BY <3>1, <3>2, ToRecoveryGood
    <3>5. CASE s.step \in {"creating", "create", "sent"}
      <4>1. s.step \in BeforeSend
        BY <3>5 DEF BeforeSend
      <4>2. \A step \in {"create", "sent", "send"} : Good(t, Goto(s, step))
        BY <3>1, <3>2, <4>1, GotoGood
      <4>3. x \in {Goto(s, "create"), Goto(s, "sent"), Goto(s, "send")}
        BY <3>5 DEF After
      <4>4. QED BY <4>2, <4>3
    <3>6. CASE s.step = "remove"
      <4>1. {"clear", "rebuild", "remove"} \cap BeforeSend = {}
        BY DEF BeforeSend
      <4>2. CASE x = ToRebuild(s) /\ s.cmd = "rebuild"
        <5> DEFINE g == Goto(s, "rebuild")
                   h == [g EXCEPT !.end = NoTerminal]
        <5>1. /\ g \in ThreadState
              /\ g.cmd = s.cmd /\ g.step = "rebuild" /\ g.io = "load"
              /\ g.attempt = s.attempt /\ g.binding = s.binding
              /\ g.fact = "none"
          <6>1. "rebuild" \in Step
            BY DEF Step
          <6> HIDE DEF s
          <6>2. QED BY <1>1, <6>1, GotoFields DEF NoFact
        <5> HIDE DEF g
        <5>2. /\ h \in ThreadState
              /\ h.cmd = s.cmd /\ h.step = "rebuild" /\ h.io = "load"
              /\ h.attempt = s.attempt /\ h.binding = s.binding
              /\ h.fact = "none" /\ h.end.by = "nobody"
          BY <5>1 DEF ThreadState, NoTerminal
        <5> HIDE DEF h, s
        <5>3. Follows(h, s)
          BY <3>1, <4>1, <4>2, <5>2 DEF Follows
        <5>4. QED BY <4>2, <5>3, SameCommand DEF h, g, s, ToRebuild
      <4>3. CASE x = Goto(s, "clear")
        BY <3>1, <3>2, <4>1, <4>3, GotoGood
      <4>4. \/ x = Idle
            \/ x = Goto(s, "clear")
            \/ x = ToRebuild(s) /\ s.cmd = "rebuild"
        <5>1. x = AfterRemove(s)
          BY <3>6 DEF After
        <5> HIDE DEF x, s
        <5>2. QED BY <1>1, <5>1, AfterRemoveCases
      <4>5. QED BY <1>2, <4>2, <4>3, <4>4
    <3>7. CASE s.step \notin {"creating", "create", "sent", "remove"}
      <4>1. {"trust", "acceptTurn", "drain", "remove"} \cap BeforeSend = {}
        BY DEF BeforeSend
      <4>2. \A step \in {"trust", "acceptTurn", "drain", "remove"} :
              Good(t, Goto(s, step))
        BY <3>1, <3>2, <4>1, GotoGood
      <4>3. x \in {Idle, ToCommit(s, "failed", "prepare"),
                   ToRecovery(s, "ambiguous"), Goto(s, "trust"),
                   Goto(s, "acceptTurn"), Goto(s, "drain"),
                   Goto(s, "remove")}
        BY <1>5, <2>2, <3>7 DEF After
      <4>4. QED BY <1>2, <3>3, <3>4, <4>2, <4>3
    <3>8. QED BY <3>5, <3>6, <3>7
  <2>3. QED BY <2>1, <2>2
<1>6. QED BY <1>3, <1>4, <1>5

-----------------------------------------------------------------------------
(* What a step may do without disturbing the threads that do not take it.  *)

Grows ==
  /\ \A b \in Binding : row[b] # NoRow => row'[b] # NoRow
  /\ \A a \in Attempt : Has(a, "turnAccepted") => Has(a, "turnAccepted")'
  /\ \A a \in Attempt : Ended(a) => Ended(a)' /\ runtime'[a] = runtime[a]
  /\ \A a \in Attempt : asked[a] = "dispatch" => asked'[a] = "dispatch"

LEMMA GroundedGrows ==
  ASSUME Grows, NEW s, s.attempt \in Attempt, s.binding \in Binding,
         Grounded(s),
         s.step \in BeforeSend => runtime'[s.attempt] = "none"
  PROVE  Grounded(s)'
<1>1. s.step # "begin" => row'[s.binding] # NoRow
  BY DEF Grounded, Grows
<1>2. s.end.by = "runtime" =>
        Ended(s.attempt)' /\ s.end.outcome = runtime'[s.attempt]
  BY DEF Grounded, Grows
<1>3. s.fact = "turnCommitted" /\ s.end.outcome = "completed" =>
        Has(s.attempt, "turnAccepted")'
  BY DEF Grounded, Grows
<1>4. s.cmd = "dispatch" => asked'[s.attempt] = "dispatch"
  BY DEF Grounded, Grows
<1>5. QED BY <1>1, <1>2, <1>3, <1>4 DEF Grounded

\* No thread is before the send of a prompt the engine has.
SendsAlone ==
  \A u \in Thread : Running(u) /\ thread[u].step \in BeforeSend =>
    runtime[thread[u].attempt] = "none"

LEMMA ThreadMoves ==
  ASSUME TurnInv, NEW t \in Thread, NEW x, Become(t, x), Good(t, x),
         Grows, SendsAlone', TypeOK', AttemptsGrounded', TerminalIsTrue'
  PROVE  TurnInv'
<1>1. /\ thread'[t] = x
      /\ \A u \in Thread : u # t => thread'[u] = thread[u]
  BY DEF Become, TurnInv, TypeOK
<1>2. ASSUME NEW u \in Thread, NEW s, thread'[u] = s, s # Idle
      PROVE  /\ Shaped(s) /\ Grounded(s)
             /\ s.cmd = "dispatch" => Dispatches(u, s.attempt)
  <2>1. CASE u = t
    BY <1>1, <1>2, <2>1 DEF Good
  <2>2. CASE u # t
    <3>1. thread[u] = s /\ Running(u)
      BY <1>1, <1>2, <2>2 DEF Running
    <3>2. QED BY <3>1, RunningThread DEF Dispatches
  <2>3. QED BY <2>1, <2>2
<1>3. ThreadsShaped'
  <2> SUFFICES ASSUME NEW u \in Thread, Running(u)' PROVE Shaped(thread[u])'
    BY DEF ThreadsShaped
  <2>1. Shaped(thread'[u])
    BY <1>2 DEF Running
  <2>2. QED BY <2>1
<1>4. ThreadsGrounded'
  <2> SUFFICES ASSUME NEW u \in Thread, Running(u)' PROVE Grounded(thread[u])'
    BY DEF ThreadsGrounded
  <2>1. PICK s : s = thread'[u]
    OBVIOUS
  <2>2. s # Idle
    BY <2>1 DEF Running
  <2>3. Shaped(s) /\ Grounded(s)
    BY <1>2, <2>1, <2>2
  <2>4. s.attempt \in Attempt /\ s.binding \in Binding
    BY <2>3 DEF Shaped, ThreadState
  <2>5. s.step \in BeforeSend => runtime'[s.attempt] = "none"
    BY <2>1, <2>2 DEF SendsAlone, Running
  <2>6. Grounded(s)'
    BY <2>3, <2>4, <2>5, GroundedGrows
  <2>7. QED BY <2>1, <2>6
<1>5. OneDispatcher'
  <2> SUFFICES ASSUME NEW a \in Attempt, NEW u \in Thread, NEW v \in Thread,
                      Dispatches(u, a)', Dispatches(v, a)'
               PROVE  u = v
    BY DEF OneDispatcher
  <2>1. Dispatches(u, a) /\ Dispatches(v, a)
    BY <1>2 DEF Dispatches, Running
  <2>2. QED BY <2>1 DEF TurnInv, OneDispatcher
<1>6. QED BY <1>3, <1>4, <1>5 DEF TurnInv

LEMMA GoodType ==
  ASSUME TurnInv, NEW t \in Thread, NEW x, Become(t, x), Good(t, x)
  PROVE  thread' \in [Thread -> ThreadState \cup {Idle}]
BY DEF TurnInv, TypeOK, Become, Good, Shaped

\* Steps that touch neither the store's facts and rows nor the engine.
LEMMA QuietStep ==
  ASSUME TurnInv, NEW t \in Thread, NEW x, Become(t, x), Good(t, x),
         UNCHANGED <<log, row, runtime, asked, crashes>>,
         gens' \in Nat, recoveries' \in 0..MaxRecovery,
         owner' \in [Attempt -> {"absent", "registered", "held", "observed",
                                 "settled"}],
         \A a \in Attempt :
           Registered(a)' => Registered(a) \/ row[BindingOf[a]] # NoRow,
         \A a \in Attempt : Settled(a)' => Ended(a)
  PROVE  TurnInv'
<1>1. TypeOK'
  <2>1. thread' \in [Thread -> ThreadState \cup {Idle}]
    BY GoodType
  <2>2. QED BY <2>1 DEF TurnInv, TypeOK
<1>2. Grows
  BY DEF Grows, Has, Ended
<1>3. SendsAlone'
  <2> SUFFICES ASSUME NEW u \in Thread, Running(u)',
                      thread'[u].step \in BeforeSend
               PROVE  runtime[thread'[u].attempt] = "none"
    BY DEF SendsAlone
  <2>1. CASE u = t
    BY <2>1 DEF Become, Good, Grounded, Running, TurnInv, TypeOK
  <2>2. CASE u # t
    <3>1. thread'[u] = thread[u] /\ Running(u)
      BY <2>2 DEF Become, Running, TurnInv, TypeOK
    <3>2. Grounded(thread[u])
      BY <3>1, RunningThread
    <3>3. QED BY <3>1, <3>2 DEF Grounded
  <2>3. QED BY <2>1, <2>2
<1>4. AttemptsGrounded'
  <2> SUFFICES ASSUME NEW a \in Attempt
               PROVE  (/\ Started(a) => row[BindingOf[a]] # NoRow
                       /\ Settled(a) => Ended(a)
                       /\ asked[a] # "nothing" => Requested(a)
                       /\ asked[a] # "dispatch" => runtime[a] = "none")'
    BY DEF AttemptsGrounded
  <2>1. /\ Started(a) => row[BindingOf[a]] # NoRow
        /\ asked[a] # "nothing" => Requested(a)
        /\ asked[a] # "dispatch" => runtime[a] = "none"
    BY DEF TurnInv, AttemptsGrounded
  <2>2. /\ Requested(a)' <=> Requested(a)
        /\ Ended(a)' <=> Ended(a)
    BY DEF Requested, Ended
  <2>3. Started(a)' => row[BindingOf[a]] # NoRow
    BY <2>1, <2>2 DEF Started
  <2>4. QED BY <2>1, <2>2, <2>3
<1>5. TerminalIsTrue'
  BY DEF TurnInv, TerminalIsTrue, Has
<1>6. QED BY <1>1, <1>2, <1>3, <1>4, <1>5, ThreadMoves

LEMMA OnlyStep ==
  ASSUME TurnInv, NEW t \in Thread, NEW x, Only(t, x), Good(t, x)
  PROVE  TurnInv'
<1>1. /\ Become(t, x)
      /\ UNCHANGED <<log, row, runtime, asked, crashes>>
      /\ UNCHANGED <<gens, owner, recoveries>>
  BY DEF Only, store
<1>2. gens' \in Nat /\ recoveries' \in 0..MaxRecovery
  BY <1>1 DEF TurnInv, TypeOK
<1>3. owner' \in [Attempt -> {"absent", "registered", "held", "observed",
                              "settled"}]
  BY <1>1 DEF TurnInv, TypeOK
<1>4. \A a \in Attempt :
        Registered(a)' => Registered(a) \/ row[BindingOf[a]] # NoRow
  BY <1>1 DEF Registered
<1>5. \A a \in Attempt : Settled(a)' => Ended(a)
  BY <1>1 DEF TurnInv, AttemptsGrounded, Settled
<1>6. QED BY <1>1, <1>2, <1>3, <1>4, <1>5, QuietStep

-----------------------------------------------------------------------------
(* The steps of the sender's commands.                                     *)

LEMMA AtStep ==
  ASSUME TurnInv, NEW t \in Thread, NEW step, At(t, step)
  PROVE  /\ Running(t) /\ thread[t].step = step
         /\ step # "begin" => row[thread[t].binding] \in Row
         /\ step \notin {"begin", "recovery"} =>
              /\ ~Unsettled(thread[t])
              /\ BindingOf[thread[t].attempt] = thread[t].binding
<1>1. Running(t) /\ thread[t].step = step
  BY DEF At
<1>2. Shaped(thread[t]) /\ Grounded(thread[t]) /\ thread[t].binding \in Binding
  BY <1>1, RunningThread
<1>3. step # "begin" => row[thread[t].binding] \in Row
  BY <1>1, <1>2 DEF Grounded, TurnInv, TypeOK
<1>4. QED BY <1>1, <1>2, <1>3 DEF Shaped, Unsettled

LEMMA FactsOf ==
  ASSUME TurnInv, NEW a \in Attempt
  PROVE  /\ log[a].gen \in Nat /\ log[a].after \in Nat
         /\ log[a].has \subseteq Milestone
         /\ log[a].terminal \in Terminal \cup {NoTerminal}
         /\ BindingOf[a] \in Binding
         /\ \A phase \in Phase : PendingOf(a, phase) \in Pending
BY LifecycleAssumption
   DEF TurnInv, TypeOK, Facts, PendingOf, Pending

LEMMA PrepareKeeps ==
  ASSUME TurnInv, NEW t \in Thread, PrepareDelivery(t)
  PROVE  TurnInv'
<1> DEFINE s == thread[t]
           new == [row[s.binding] EXCEPT
                     !.pending = PendingOf(s.attempt, "prepared")]
<1>1. At(t, "prepare")
  BY DEF PrepareDelivery
<1>2. /\ Running(t) /\ ~Unsettled(s) /\ row[s.binding] \in Row
      /\ s.attempt \in Attempt
  BY <1>1, AtStep, RunningThread
<1>3. CASE Only(t, After(s, "error"))
  BY <1>2, <1>3, AfterGood, OnlyStep
<1>4. CASE Only(t, Plan(s, new, "deliveryPrepared"))
  <2>1. PendingOf(s.attempt, "prepared") \in Pending
    BY <1>2, FactsOf DEF Phase
  <2>2. new \in Row
    BY <1>2, <2>1 DEF Row
  <2>3. "deliveryPrepared" \in FactType
    BY DEF FactType, Milestone
  <2>4. Good(t, Plan(s, new, "deliveryPrepared"))
    BY <1>2, <2>2, <2>3, PlanGood
  <2>5. QED BY <1>4, <2>4, OnlyStep
<1>5. QED BY <1>3, <1>4 DEF PrepareDelivery

LEMMA BeginKeeps ==
  ASSUME TurnInv, NEW t \in Thread, BeginTurn(t)
  PROVE  TurnInv'
<1> DEFINE s == thread[t]
<1>1. At(t, "begin") /\ Running(t) /\ s.step = "begin"
  BY AtStep DEF BeginTurn
<1>2. s \in ThreadState /\ Shaped(s) /\ Grounded(s)
      /\ s.attempt \in Attempt /\ s.binding = BindingOf[s.attempt]
      /\ s.binding \in Binding
  BY <1>1, RunningThread DEF Shaped
<1>3. s.cmd # "dispatch" \/ Dispatches(t, s.attempt)
  BY <1>1 DEF Dispatches
<1>4. ASSUME NEW c \in Binding, row[c] # NoRow,
             Only(t, ToRecovery([s EXCEPT !.binding = c], "crash-window"))
      PROVE  TurnInv'
  <2> DEFINE q == [s EXCEPT !.binding = c]
             x == ToRecovery(q, "crash-window")
  <2>1. "crash-window" \in Reason /\ "recovery" \notin BeforeSend
    BY DEF Reason, BeforeSend
  <2>2. /\ q \in ThreadState
        /\ q.cmd = s.cmd /\ q.attempt = s.attempt /\ q.end = s.end
        /\ q.binding = c
    BY <1>2 DEF ThreadState
  <2> HIDE DEF q
  <2>3. /\ x \in ThreadState /\ x.step = "recovery" /\ x.io = "load"
        /\ x.fact = "none" /\ x.why = "crash-window" /\ x.binding = c
        /\ x.cmd = s.cmd /\ x.attempt = s.attempt /\ x.end = s.end
    BY <2>1, <2>2, ToRecoveryFields DEF NoFact
  <2> HIDE DEF x, s
  <2>4. Shaped(x)
    BY <2>1, <2>3 DEF Shaped, NoFact
  <2>5. Grounded(x)
    BY <1>2, <1>4, <2>1, <2>3 DEF Grounded
  <2>6. Good(t, x)
    BY <1>3, <2>3, <2>4, <2>5 DEF Good
  <2>7. QED BY <1>4, <2>6, OnlyStep DEF x, q, s
<1>5. ASSUME NEW new \in Row,
             Become(t, Plan(s, new, "turnRequested")),
             gens' \in Nat,
             UNCHANGED <<log, row, owner, runtime, asked, recoveries, crashes>>
      PROVE  TurnInv'
  <2> DEFINE x == Plan(s, new, "turnRequested")
  <2>1. "turnRequested" \in FactType /\ "begin" \notin BeforeSend
    BY DEF FactType, BeforeSend
  <2>2. /\ x \in ThreadState /\ x.step = "begin" /\ x.io = "store"
        /\ x.fact = "turnRequested" /\ x.plan = new /\ x.binding = s.binding
        /\ x.cmd = s.cmd /\ x.attempt = s.attempt /\ x.end = s.end
    BY <1>1, <1>2, <2>1, PlanFields
  <2> HIDE DEF x, s
  <2>3. Shaped(x)
    BY <1>2, <2>1, <2>2 DEF Shaped
  <2>4. Grounded(x)
    BY <1>2, <2>1, <2>2 DEF Grounded
  <2>5. Good(t, x)
    BY <1>3, <2>2, <2>3, <2>4 DEF Good
  <2>6. recoveries' \in 0..MaxRecovery
        /\ owner' \in [Attempt -> {"absent", "registered", "held", "observed",
                                   "settled"}]
    BY <1>5 DEF TurnInv, TypeOK
  <2>7. /\ \A a \in Attempt :
             Registered(a)' => Registered(a) \/ row[BindingOf[a]] # NoRow
        /\ \A a \in Attempt : Settled(a)' => Ended(a)
    BY <1>5 DEF TurnInv, AttemptsGrounded, Registered, Settled
  <2>8. Become(t, x)
    BY <1>5 DEF x, s
  <2>9. QED BY <1>5, <2>5, <2>6, <2>7, <2>8, QuietStep
<1>6. ASSUME Only(t, Idle)
      PROVE  TurnInv'
  BY <1>6, OnlyStep DEF Good
<1> DEFINE open == {a \in Attempt : Unresolved(a)}
           Ends(c) == IF row[c].state = "creating"
                      THEN ToRecovery([s EXCEPT !.binding = c], "crash-window")
                      ELSE Idle
<1>7. CASE \E a \in open : Only(t, Ends(BindingOf[a]))
  <2>1. PICK a \in open : Only(t, Ends(BindingOf[a]))
    BY <1>7
  <2>2. BindingOf[a] \in Binding /\ row[BindingOf[a]] # NoRow
    BY FactsOf DEF TurnInv, AttemptsGrounded, Started, Unresolved
  <2>3. QED BY <1>4, <1>6, <2>1, <2>2
<1>8. CASE row[s.binding].state \in {"creating", "recovery-required"}
           /\ Only(t, Ends(s.binding))
  <2>1. row[s.binding] # NoRow
    BY <1>8 DEF NoRow
  <2>2. QED BY <1>2, <1>4, <1>6, <1>8, <2>1
<1> DEFINE fresh == [gen |-> gens + 1, state |-> "prepared",
                     why |-> "none", native |-> FALSE,
                     trust |-> "dirty", pending |-> NoPending,
                     accepted |-> 0, committed |-> 0]
           again == [row[s.binding] EXCEPT
                       !.state = IF row[s.binding].native THEN "ready"
                                 ELSE "prepared",
                       !.why = "none"]
<1>9. CASE /\ gens' = gens + 1
           /\ Become(t, Plan(s, fresh, "turnRequested"))
           /\ UNCHANGED <<log, row, owner, runtime, asked, recoveries, crashes>>
  <2>1. gens \in Nat
    BY DEF TurnInv, TypeOK
  <2>2. fresh \in Row /\ gens' \in Nat
    BY <1>9, <2>1 DEF Row, State, Reason
  <2>3. QED BY <1>5, <1>9, <2>2
<1>10. CASE /\ row[s.binding].state \in {"prepared", "ready"}
            /\ Only(t, Plan(s, again, "turnRequested"))
  <2>1. row[s.binding] \in Row
    BY <1>2, <1>10 DEF NoRow, TurnInv, TypeOK
  <2>2. again \in Row
    BY <2>1 DEF Row, State, Reason
  <2>3. gens' \in Nat
    BY <1>10 DEF Only, store, TurnInv, TypeOK
  <2>4. QED BY <1>5, <1>10, <2>2, <2>3 DEF Only, store
<1>11. QED BY <1>7, <1>8, <1>9, <1>10 DEF BeginTurn

-----------------------------------------------------------------------------
(* The steps of a dispatch.                                                *)

\* What the steps of a dispatch share: the thread is settled on its work,
\* and may go to recovery or fail the attempt as refused.
LEMMA DispatchStep ==
  ASSUME TurnInv, NEW t \in Thread, NEW step, At(t, step),
         step \notin {"begin", "recovery"}
  PROVE  LET s == thread[t] IN
         /\ Running(t) /\ ~Unsettled(s) /\ s.step = step
         /\ s \in ThreadState
         /\ row[s.binding] \in Row /\ s.binding \in Binding
         /\ s.attempt \in Attempt /\ s.binding = BindingOf[s.attempt]
         /\ \A why \in Reason : Good(t, ToRecovery(s, why))
         /\ \A by \in Author, outcome \in Outcome :
              by # "runtime" => Good(t, ToCommit(s, outcome, by))
         /\ Good(t, Idle)
<1>1. /\ Running(t) /\ ~Unsettled(thread[t]) /\ thread[t].step = step
      /\ row[thread[t].binding] \in Row
      /\ BindingOf[thread[t].attempt] = thread[t].binding
  BY AtStep
<1>2. thread[t] \in ThreadState /\ thread[t].attempt \in Attempt
      /\ thread[t].binding \in Binding
  BY <1>1, RunningThread
<1>3. \A why \in Reason : Good(t, ToRecovery(thread[t], why))
  BY <1>1, ToRecoveryGood
<1>4. \A by \in Author, outcome \in Outcome :
        by # "runtime" => Good(t, ToCommit(thread[t], outcome, by))
  BY <1>1, ToCommitGood
<1>5. Good(t, Idle)
  BY DEF Good
<1>6. QED BY <1>1, <1>2, <1>3, <1>4, <1>5

\* A step that changes what the coordinator knows of one attempt.
LEMMA OwnerStep ==
  ASSUME TurnInv, NEW t \in Thread, NEW x, Become(t, x), Good(t, x),
         NEW a \in Attempt,
         NEW v \in {"absent", "registered", "held", "observed", "settled"},
         owner' = [owner EXCEPT ![a] = v],
         v = "absent" \/ row[BindingOf[a]] # NoRow,
         v = "settled" => Ended(a),
         UNCHANGED <<store, runtime, asked, recoveries, crashes>>
  PROVE  TurnInv'
<1>1. gens' \in Nat /\ recoveries' \in 0..MaxRecovery
  BY DEF store, TurnInv, TypeOK
<1>2. /\ owner' \in [Attempt -> {"absent", "registered", "held", "observed",
                                 "settled"}]
      /\ \A c \in Attempt : c # a => owner'[c] = owner[c]
      /\ owner'[a] = v
  BY DEF TurnInv, TypeOK
<1>3. \A c \in Attempt :
        Registered(c)' => Registered(c) \/ row[BindingOf[c]] # NoRow
  BY <1>2 DEF Registered
<1>4. \A c \in Attempt : Settled(c)' => Ended(c)
  BY <1>2 DEF Settled, TurnInv, AttemptsGrounded
<1>5. UNCHANGED <<log, row, runtime, asked, crashes>>
  BY DEF store
<1>6. QED BY <1>1, <1>2, <1>3, <1>4, <1>5, QuietStep

LEMMA Words ==
  /\ {"ambiguous", "marked", "commit-failed", "native-missing"} \subseteq Reason
  /\ {"refused", "dispatch", "dispatchMissing", "user", "probe", "abandon",
      "runtime", "rebuild"} \subseteq Author
  /\ {"failed", "missing", "cancelled", "replaced"} \subseteq Outcome
  /\ {"deliveryAccepted", "turnAccepted", "turnCommitted", NoFact}
       \subseteq FactType
BY DEF Reason, Author, Outcome, FactType, Milestone

\* The end of an attempt that settled is one the engine gave it.
LEMMA EndedOutcome ==
  ASSUME TurnInv, NEW a \in Attempt, Ended(a)
  PROVE  runtime[a] \in Outcome
BY LifecycleAssumption DEF TurnInv, TypeOK, Ended, Outcome

LEMMA CheckKeeps ==
  ASSUME TurnInv, NEW t \in Thread, CheckDelivery(t)
  PROVE  TurnInv'
<1> DEFINE s == thread[t]
<1>1. At(t, "check")
  BY DEF CheckDelivery
<1>2. /\ Running(t) /\ ~Unsettled(s) /\ s.step = "check"
      /\ \A why \in Reason : Good(t, ToRecovery(s, why))
      /\ Good(t, ToCommit(s, "failed", "refused"))
  BY <1>1, DispatchStep, Words
<1>3. "register" \in Step /\ "check" \in BeforeSend
  BY DEF Step, BeforeSend
<1>4. Good(t, Goto(s, "register"))
  BY <1>2, <1>3, GotoGood
<1>5. Good(t, ToRecovery(s, "ambiguous"))
  BY <1>2, Words
<1>6. PICK x \in {ToCommit(s, "failed", "refused"), Goto(s, "register"),
                  ToRecovery(s, "ambiguous")} : Only(t, x)
  BY DEF CheckDelivery
<1>7. QED BY <1>2, <1>4, <1>5, <1>6, OnlyStep

LEMMA RegisterKeeps ==
  ASSUME TurnInv, NEW t \in Thread, RegisterAttempt(t)
  PROVE  TurnInv'
<1> DEFINE s == thread[t]
           a == s.attempt
<1>1. At(t, "register")
  BY DEF RegisterAttempt
<1>2. /\ Running(t) /\ ~Unsettled(s) /\ s.step = "register" /\ a \in Attempt
      /\ row[BindingOf[a]] \in Row
      /\ Good(t, ToCommit(s, "failed", "refused"))
  BY <1>1, DispatchStep, Words
<1>3. CASE Only(t, ToCommit(s, "failed", "refused"))
  BY <1>2, <1>3, OnlyStep
<1>4. CASE /\ owner' = [owner EXCEPT ![a] =
                          IF @ = "absent" THEN "registered" ELSE @]
           /\ Become(t, IF Settled(a) THEN ToCommit(s, runtime[a], "runtime")
                        ELSE Goto(s, "creating"))
           /\ UNCHANGED <<store, runtime, asked, recoveries, crashes>>
  <2>1. ASSUME Settled(a)
        PROVE  Good(t, ToCommit(s, runtime[a], "runtime"))
    <3>1. Ended(a)
      BY <1>2, <2>1 DEF TurnInv, AttemptsGrounded
    <3>2. QED BY <1>2, <3>1, EndedOutcome, ToCommitGood, Words
  <2>2. Good(t, Goto(s, "creating"))
    <3>1. "creating" \in Step /\ "register" \in BeforeSend
      BY DEF Step, BeforeSend
    <3>2. QED BY <1>2, <3>1, GotoGood
  <2>3. PICK x : Become(t, x) /\ Good(t, x)
    BY <1>4, <2>1, <2>2
  <2>4. PICK v : /\ owner' = [owner EXCEPT ![a] = v]
                 /\ v = owner[a] \/ v = "registered"
    BY <1>4
  <2>5. /\ v \in {"absent", "registered", "held", "observed", "settled"}
        /\ v = "settled" => Ended(a)
    BY <1>2, <2>4 DEF TurnInv, TypeOK, AttemptsGrounded, Settled
  <2>6. row[BindingOf[a]] # NoRow
    BY <1>2, Sentinels
  <2>7. QED BY <1>2, <1>4, <2>3, <2>4, <2>5, <2>6, OwnerStep
<1>5. QED BY <1>3, <1>4 DEF RegisterAttempt

LEMMA CreatingKeeps ==
  ASSUME TurnInv, NEW t \in Thread, MarkCreating(t)
  PROVE  TurnInv'
<1> DEFINE s == thread[t]
           new == [row[s.binding] EXCEPT !.gen = log[s.attempt].gen,
                                         !.state = "creating", !.why = "none"]
<1>1. At(t, "creating")
  BY DEF MarkCreating
<1>2. /\ Running(t) /\ ~Unsettled(s) /\ s.step = "creating"
      /\ s.attempt \in Attempt /\ row[s.binding] \in Row
      /\ Good(t, ToRecovery(s, "ambiguous"))
  BY <1>1, DispatchStep, Words
<1>3. Good(t, Goto(s, "create"))
  <2>1. "create" \in Step /\ "creating" \in BeforeSend
    BY DEF Step, BeforeSend
  <2>2. QED BY <1>2, <2>1, GotoGood
<1>4. Good(t, Plan(s, new, NoFact))
  <2>1. new \in Row
    BY <1>2, FactsOf DEF Row, State, Reason
  <2>2. NoFact # "turnRequested" /\ NoFact # "turnCommitted"
    BY DEF NoFact
  <2>3. QED BY <1>2, <2>1, <2>2, PlanGood, Words
<1>5. PICK x \in {ToRecovery(s, "ambiguous"), Goto(s, "create"),
                  Plan(s, new, NoFact)} : Only(t, x)
  BY DEF MarkCreating
<1>6. QED BY <1>2, <1>3, <1>4, <1>5, OnlyStep

LEMMA MaterializeKeeps ==
  ASSUME TurnInv, NEW t \in Thread, MaterializeBinding(t)
  PROVE  TurnInv'
<1> DEFINE s == thread[t]
           new == [row[s.binding] EXCEPT
                     !.gen = log[s.attempt].gen,
                     !.native = TRUE,
                     !.state = IF s.binding \in EarlyIdentity THEN "ready"
                               ELSE "creating",
                     !.why = "none"]
<1>1. At(t, "create")
  BY DEF MaterializeBinding
<1>2. /\ Running(t) /\ ~Unsettled(s)
      /\ s.attempt \in Attempt /\ row[s.binding] \in Row
      /\ Good(t, ToRecovery(s, "ambiguous"))
  BY <1>1, DispatchStep, Words
<1>3. Good(t, Plan(s, new, NoFact))
  <2>1. new \in Row
    BY <1>2, FactsOf DEF Row, State, Reason
  <2>2. NoFact # "turnRequested" /\ NoFact # "turnCommitted"
    BY DEF NoFact
  <2>3. QED BY <1>2, <2>1, <2>2, PlanGood, Words
<1>4. PICK x \in {ToRecovery(s, "ambiguous"), Plan(s, new, NoFact)} : Only(t, x)
  BY DEF MaterializeBinding
<1>5. QED BY <1>2, <1>3, <1>4, OnlyStep

LEMMA MarkSentKeeps ==
  ASSUME TurnInv, NEW t \in Thread, MarkSent(t)
  PROVE  TurnInv'
<1> DEFINE s == thread[t]
<1>1. At(t, "sent")
  BY DEF MarkSent
<1>2. /\ Running(t) /\ ~Unsettled(s)
      /\ s.attempt \in Attempt /\ row[s.binding] \in Row
      /\ Good(t, ToCommit(s, "failed", "dispatch"))
  BY <1>1, DispatchStep, Words
<1>3. Good(t, Plan(s, SentRow(s), NoFact))
  <2>1. PendingOf(s.attempt, "sent") \in Pending
    BY <1>2, FactsOf DEF Phase
  <2>2. SentRow(s) \in Row
    BY <1>2, <2>1 DEF SentRow, Row
  <2>3. NoFact # "turnRequested" /\ NoFact # "turnCommitted"
    BY DEF NoFact
  <2>4. QED BY <1>2, <2>2, <2>3, PlanGood, Words
<1>4. PICK x \in {ToCommit(s, "failed", "dispatch"),
                  Plan(s, SentRow(s), NoFact)} : Only(t, x)
  BY DEF MarkSent
<1>5. QED BY <1>2, <1>3, <1>4, OnlyStep

LEMMA BindKeeps ==
  ASSUME TurnInv, NEW t \in Thread, BindRuntimeTurn(t)
  PROVE  TurnInv'
<1> DEFINE s == thread[t]
<1>1. At(t, "bind")
  BY DEF BindRuntimeTurn
<1>2. /\ Running(t) /\ ~Unsettled(s) /\ s.attempt \in Attempt
      /\ row[BindingOf[s.attempt]] # NoRow
      /\ Good(t, ToRecovery(s, "ambiguous"))
  BY <1>1, DispatchStep, Words, Sentinels
<1>3. CASE Only(t, ToRecovery(s, "ambiguous"))
  BY <1>2, <1>3, OnlyStep
<1>4. CASE /\ owner' = [owner EXCEPT ![s.attempt] = "held"]
           /\ Become(t, Goto(s, IF s.binding \in EarlyIdentity
                                THEN "acceptDelivery" ELSE "ack"))
           /\ UNCHANGED <<store, runtime, asked, recoveries, crashes>>
  <2>1. /\ {"acceptDelivery", "ack"} \subseteq Step
        /\ {"acceptDelivery", "ack"} \cap BeforeSend = {}
    BY DEF Step, BeforeSend
  <2>2. Good(t, Goto(s, "acceptDelivery")) /\ Good(t, Goto(s, "ack"))
    BY <1>2, <2>1, GotoGood
  <2>3. PICK x : Become(t, x) /\ Good(t, x)
    BY <1>4, <2>2
  <2>4. QED BY <1>2, <1>4, <2>3, OwnerStep
<1>5. QED BY <1>3, <1>4 DEF BindRuntimeTurn

LEMMA AckKeeps ==
  ASSUME TurnInv, NEW t \in Thread, AwaitContextAck(t)
  PROVE  TurnInv'
<1> DEFINE s == thread[t]
           a == s.attempt
<1>1. At(t, "ack")
  BY DEF AwaitContextAck
<1>2. /\ Running(t) /\ ~Unsettled(s) /\ a \in Attempt
      /\ row[BindingOf[a]] # NoRow
      /\ Good(t, ToRecovery(s, "ambiguous"))
  BY <1>1, DispatchStep, Words, Sentinels
<1>3. CASE Only(t, ToRecovery(s, "ambiguous"))
  BY <1>2, <1>3, OnlyStep
<1>4. CASE Only(t, Goto(s, "acceptDelivery"))
  <2>1. "acceptDelivery" \in Step /\ "acceptDelivery" \notin BeforeSend
    BY DEF Step, BeforeSend
  <2>2. QED BY <1>2, <1>4, <2>1, GotoGood, OnlyStep
<1>5. CASE /\ Ended(a)
           /\ owner' = [owner EXCEPT ![a] = "settled"]
           /\ Become(t, ToCommit(s, runtime[a], "runtime"))
           /\ UNCHANGED <<store, runtime, asked, recoveries, crashes>>
  <2>1. Good(t, ToCommit(s, runtime[a], "runtime"))
    BY <1>2, <1>5, EndedOutcome, ToCommitGood, Words
  <2>2. PICK x : Become(t, x) /\ Good(t, x)
    BY <1>5, <2>1
  <2>3. QED BY <1>2, <1>5, <2>2, OwnerStep
<1>6. QED BY <1>3, <1>4, <1>5 DEF AwaitContextAck

LEMMA AcceptDeliveryKeeps ==
  ASSUME TurnInv, NEW t \in Thread, AcceptDelivery(t)
  PROVE  TurnInv'
<1> DEFINE s == thread[t]
           new == [row[s.binding] EXCEPT
                     !.native = TRUE,
                     !.pending = PendingOf(s.attempt, "accepted"),
                     !.accepted = log[s.attempt].after]
<1>1. At(t, "acceptDelivery")
  BY DEF AcceptDelivery
<1>2. /\ Running(t) /\ ~Unsettled(s)
      /\ s.attempt \in Attempt /\ row[s.binding] \in Row
      /\ Good(t, ToRecovery(s, "ambiguous"))
  BY <1>1, DispatchStep, Words
<1>3. Good(t, Plan(s, new, "deliveryAccepted"))
  <2>1. PendingOf(s.attempt, "accepted") \in Pending
    BY <1>2, FactsOf DEF Phase
  <2>2. new \in Row
    BY <1>2, <2>1, FactsOf DEF Row
  <2>3. QED BY <1>2, <2>2, PlanGood, Words
<1>4. PICK x \in {ToRecovery(s, "ambiguous"),
                  Plan(s, new, "deliveryAccepted")} : Only(t, x)
  BY DEF AcceptDelivery
<1>5. QED BY <1>2, <1>3, <1>4, OnlyStep

LEMMA TrustKeeps ==
  ASSUME TurnInv, NEW t \in Thread, SetTrust(t)
  PROVE  TurnInv'
<1> DEFINE s == thread[t]
           new == [row[s.binding] EXCEPT !.trust = "trusted", !.why = "none"]
<1>1. At(t, "trust")
  BY DEF SetTrust
<1>2. /\ Running(t) /\ ~Unsettled(s) /\ row[s.binding] \in Row
  BY <1>1, DispatchStep
<1>3. Good(t, Goto(s, "acceptTurn"))
  <2>1. "acceptTurn" \in Step /\ "acceptTurn" \notin BeforeSend
    BY DEF Step, BeforeSend
  <2>2. QED BY <1>2, <2>1, GotoGood
<1>4. Good(t, Plan(s, new, NoFact))
  <2>1. new \in Row
    BY <1>2 DEF Row, Reason
  <2>2. NoFact # "turnRequested" /\ NoFact # "turnCommitted"
    BY DEF NoFact
  <2>3. QED BY <1>2, <2>1, <2>2, PlanGood, Words
<1>5. PICK x \in {Goto(s, "acceptTurn"), Plan(s, new, NoFact)} : Only(t, x)
  BY DEF SetTrust
<1>6. QED BY <1>3, <1>4, <1>5, OnlyStep

LEMMA AcceptTurnKeeps ==
  ASSUME TurnInv, NEW t \in Thread, AcceptTurn(t)
  PROVE  TurnInv'
<1> DEFINE s == thread[t]
<1>1. At(t, "acceptTurn")
  BY DEF AcceptTurn
<1>2. /\ Running(t) /\ ~Unsettled(s)
      /\ s.attempt \in Attempt /\ row[s.binding] \in Row
      /\ Good(t, ToRecovery(s, "ambiguous"))
  BY <1>1, DispatchStep, Words
<1>3. Good(t, Plan(s, AcceptedRow(s), "turnAccepted"))
  <2>1. AcceptedRow(s) \in Row
    BY <1>2, FactsOf DEF AcceptedRow, Row, State, Reason
  <2>2. QED BY <1>2, <2>1, PlanGood, Words
<1>4. PICK x \in {ToRecovery(s, "ambiguous"),
                  Plan(s, AcceptedRow(s), "turnAccepted")} : Only(t, x)
  BY DEF AcceptTurn
<1>5. QED BY <1>2, <1>3, <1>4, OnlyStep

LEMMA ReleaseKeeps ==
  ASSUME TurnInv, NEW t \in Thread, ReleaseEvents(t)
  PROVE  TurnInv'
<1> DEFINE s == thread[t]
           a == s.attempt
<1>1. At(t, "drain")
  BY DEF ReleaseEvents
<1>2. /\ Running(t) /\ ~Unsettled(s) /\ a \in Attempt
      /\ row[BindingOf[a]] # NoRow /\ Good(t, Idle)
  BY <1>1, DispatchStep, Sentinels
<1>3. CASE owner[a] # "held"
  BY <1>2, <1>3, OnlyStep DEF ReleaseEvents
<1>4. CASE owner[a] = "held"
  <2>1. Good(t, CommitHeldEnd(s))
    <3>1. CASE Ended(a)
      BY <1>2, <3>1, EndedOutcome, ToCommitGood, Words DEF CommitHeldEnd
    <3>2. CASE ~Ended(a)
      BY <1>2, <3>2 DEF CommitHeldEnd
    <3>3. QED BY <3>1, <3>2
  <2>2. PICK x : Become(t, x) /\ Good(t, x)
    BY <1>4, <2>1 DEF ReleaseEvents
  <2>3. CASE Ended(a)
    <3>1. owner' = [owner EXCEPT ![a] = "settled"]
      BY <1>4, <2>3 DEF ReleaseEvents
    <3>2. QED BY <1>2, <1>4, <2>2, <2>3, <3>1, OwnerStep DEF ReleaseEvents
  <2>4. CASE ~Ended(a)
    <3>1. owner' = [owner EXCEPT ![a] = "observed"]
      BY <1>4, <2>4 DEF ReleaseEvents
    <3>2. QED BY <1>2, <1>4, <2>2, <3>1, OwnerStep DEF ReleaseEvents
  <2>5. QED BY <2>3, <2>4
<1>5. QED BY <1>3, <1>4

\* The engine has the prompt from here on; it had not before.
LEMMA SendKeeps ==
  ASSUME TurnInv, NEW t \in Thread, Send(t)
  PROVE  TurnInv'
<1> DEFINE s == thread[t]
           a == s.attempt
<1>1. At(t, "send")
  BY DEF Send
<1>2. /\ Running(t) /\ ~Unsettled(s) /\ s.step = "send" /\ a \in Attempt
      /\ \A why \in Reason : Good(t, ToRecovery(s, why))
      /\ Good(t, ToCommit(s, "failed", "dispatch"))
      /\ Good(t, ToCommit(s, "missing", "dispatchMissing"))
  BY <1>1, DispatchStep, Words
<1>3. Good(t, ToRecovery(s, "ambiguous"))
  BY <1>2, Words
<1>4. ASSUME NEW x \in {ToCommit(s, "failed", "dispatch"),
                        ToCommit(s, "missing", "dispatchMissing"),
                        ToRecovery(s, "ambiguous")},
             Only(t, x)
      PROVE  TurnInv'
  BY <1>2, <1>3, <1>4, OnlyStep
<1>5. ASSUME runtime' = [runtime EXCEPT ![a] = "running"],
             \/ Become(t, Goto(s, "bind"))
             \/ Become(t, ToRecovery(s, "ambiguous")),
             UNCHANGED <<store, owner, asked, recoveries, crashes>>
      PROVE  TurnInv'
  <2>1. s.step \in BeforeSend /\ "send" \in BeforeSend
    BY <1>2 DEF BeforeSend
  <2>2. /\ runtime[a] = "none" /\ s.cmd = "dispatch" /\ asked[a] = "dispatch"
        /\ Dispatches(t, a)
    BY <1>2, <2>1, RunningThread DEF Shaped, Grounded, Dispatches
  <2> DEFINE x1 == Goto(s, "bind")
             x2 == ToRecovery(s, "ambiguous")
  <2>3. /\ Good(t, x1) /\ x1.step \notin BeforeSend
        /\ Good(t, x2) /\ x2.step \notin BeforeSend
    <3>1. "bind" \in Step /\ "bind" \notin BeforeSend
          /\ "recovery" \notin BeforeSend
      BY DEF Step, BeforeSend
    <3>2. x1.step = "bind" /\ x2.step = "recovery"
      BY <1>2, <3>1, RunningThread, GotoFields, ToRecoveryFields, Words
    <3>3. QED BY <1>2, <1>3, <3>1, <3>2, GotoGood
  <2> HIDE DEF x1, x2
  <2>4. PICK x : Become(t, x) /\ Good(t, x) /\ x.step \notin BeforeSend
    BY <1>5, <2>3 DEF x1, x2
  <2>5. /\ runtime'[a] = "running"
        /\ \A c \in Attempt : c # a => runtime'[c] = runtime[c]
        /\ runtime' \in [Attempt -> {"none", "running"} \cup RuntimeOutcome]
    BY <1>2, <1>5 DEF TurnInv, TypeOK
  <2>6. TypeOK'
    <3>1. thread' \in [Thread -> ThreadState \cup {Idle}]
      BY <2>4, GoodType
    <3>2. QED BY <1>5, <2>5, <3>1 DEF TurnInv, TypeOK, store
  <2>7. Grows
    BY <1>5, <2>2, <2>5 DEF Grows, Has, Ended, store
  <2>8. SendsAlone'
    <3> SUFFICES ASSUME NEW u \in Thread, Running(u)',
                        thread'[u].step \in BeforeSend
                 PROVE  runtime'[thread'[u].attempt] = "none"
      BY DEF SendsAlone
    <3>1. u # t
      BY <2>4 DEF Become, TurnInv, TypeOK
    <3>2. thread'[u] = thread[u] /\ Running(u)
      BY <2>4, <3>1 DEF Become, Running, TurnInv, TypeOK
    <3>3. /\ thread[u].cmd = "dispatch" /\ thread[u].attempt \in Attempt
          /\ runtime[thread[u].attempt] = "none"
      BY <3>2, RunningThread DEF Shaped, Grounded
    <3>4. thread[u].attempt # a
      BY <2>2, <3>1, <3>2, <3>3 DEF Dispatches, TurnInv, OneDispatcher
    <3>5. QED BY <2>5, <3>2, <3>3, <3>4
  <2>9. AttemptsGrounded'
    <3>1. \A c \in Attempt : /\ Started(c)' <=> Started(c)
                             /\ Settled(c)' <=> Settled(c)
                             /\ Requested(c)' <=> Requested(c)
                             /\ Ended(c) => Ended(c)'
      BY <1>5, <2>7 DEF Started, Settled, Requested, Registered, Grows, store
    <3>2. asked' = asked /\ row' = row
      BY <1>5 DEF store
    <3>3. \A c \in Attempt : asked[c] # "dispatch" => runtime'[c] = "none"
      BY <2>2, <2>5 DEF TurnInv, AttemptsGrounded
    <3>4. QED BY <3>1, <3>2, <3>3 DEF TurnInv, AttemptsGrounded
  <2>10. TerminalIsTrue'
    <3>1. log' = log
      BY <1>5 DEF store
    <3>2. log[a].terminal.by # "runtime" \/ log[a].terminal.outcome = "none"
      BY <1>2, <2>2 DEF TurnInv, TerminalIsTrue
    <3>3. log[a].terminal.by # "runtime"
      BY <1>2, <3>2, FactsOf DEF Terminal, Outcome, NoTerminal
    <3>4. QED BY <2>5, <3>1, <3>3 DEF TurnInv, TerminalIsTrue, Has
  <2>11. QED
    BY <2>4, <2>6, <2>7, <2>8, <2>9, <2>10, ThreadMoves
<1>6. QED BY <1>4, <1>5 DEF Send

-----------------------------------------------------------------------------
(* Settlement and recovery.                                                *)

LEMMA TerminalRowType ==
  ASSUME TurnInv, NEW s \in ThreadState, row[s.binding] \in Row
  PROVE  TerminalRow(s) \in Row
<1> DEFINE r == row[s.binding]
           a == s.attempt
           named == \/ s.end.by = "runtime"
                    \/ s.end.by = "dispatch" /\ s.binding \in EarlyIdentity
                    \/ Has(a, "turnAccepted")
           identity == named \/ r.state = "ready"
           n == identity /\ (named \/ r.native)
           c == IF r.pending = PendingOf(a, "accepted") THEN log[a].after
                ELSE r.committed
           st == IF identity THEN "ready" ELSE "prepared"
           tr == IF s.end.outcome = "completed" THEN "trusted" ELSE "dirty"
<1>1. a \in Attempt
  BY DEF ThreadState
<1>2. log[a].gen \in Nat /\ log[a].after \in Nat
  BY <1>1, FactsOf
<1>3. /\ n \in BOOLEAN /\ c \in Nat
      /\ st \in State /\ tr \in {"trusted", "dirty"}
  BY <1>2 DEF Row, State
<1>4. TerminalRow(s) =
        [r EXCEPT !.gen = log[a].gen, !.state = st, !.why = "none",
                  !.native = n, !.trust = tr, !.committed = c,
                  !.pending = NoPending]
  BY DEF TerminalRow, Consumed
<1> HIDE DEF n, c, st, tr
<1>5. QED BY <1>2, <1>3, <1>4 DEF Row, Reason

LEMMA CommitKeeps ==
  ASSUME TurnInv, NEW t \in Thread, CommitTurn(t)
  PROVE  TurnInv'
<1> DEFINE s == thread[t]
           x == Plan(s, TerminalRow(s), "turnCommitted")
<1>1. At(t, "commit")
  BY DEF CommitTurn
<1>2. /\ Running(t) /\ ~Unsettled(s) /\ s \in ThreadState
      /\ s.attempt \in Attempt /\ row[s.binding] \in Row
  BY <1>1, DispatchStep
<1>3. ASSUME NEW result, Only(t, After(s, result))
      PROVE  TurnInv'
  BY <1>2, <1>3, AfterGood, OnlyStep
<1>4. CASE Only(t, x) /\ ~Early(s)
  <2>1. TerminalRow(s) \in Row
    BY <1>2, TerminalRowType
  <2>2. s.end.outcome = "completed" => Has(s.attempt, "turnAccepted")
    BY <1>4 DEF Early
  <2>3. Good(t, x)
    BY <1>2, <2>1, <2>2, PlanGood, Words
  <2>4. QED BY <1>4, <2>3, OnlyStep
<1> HIDE DEF x
<1>5. (Only(t, x) /\ ~Early(s)) \/ \E result : Only(t, After(s, result))
  BY DEF CommitTurn, x
<1>6. QED BY <1>3, <1>4, <1>5

LEMMA MarkRecoveryKeeps ==
  ASSUME TurnInv, NEW t \in Thread, MarkRecovery(t)
  PROVE  TurnInv'
<1> DEFINE s == thread[t]
           x == Plan(s, RecoveryRow(s), NoFact)
<1>1. /\ At(t, "recovery") /\ Only(t, x)
  BY DEF MarkRecovery
<1>2. /\ Running(t) /\ s.step = "recovery" /\ row[s.binding] \in Row
      /\ s \in ThreadState /\ Shaped(s) /\ Grounded(s)
      /\ s.attempt \in Attempt
  BY <1>1, AtStep, RunningThread
<1>3. RecoveryRow(s) \in Row
  <2>1. s.why \in Reason
    BY <1>2 DEF ThreadState
  <2>2. QED BY <1>2, <2>1 DEF RecoveryRow, Row, State
<1>4. /\ x \in ThreadState /\ x.cmd = s.cmd /\ x.step = s.step
      /\ x.io = "store" /\ x.attempt = s.attempt /\ x.binding = s.binding
      /\ x.plan = RecoveryRow(s) /\ x.fact = NoFact /\ x.end = s.end
      /\ x.why = s.why
  <2>1. NoFact \in FactType
    BY Words
  <2> HIDE DEF s
  <2>2. QED BY <1>2, <1>3, <2>1, PlanFields
<1>5. s.cmd = "dispatch" => Dispatches(t, s.attempt)
  BY <1>2 DEF Dispatches
<1>6. Good(t, x)
  <2> HIDE DEF s, x
  <2>1. Shaped(x)
    BY <1>2, <1>3, <1>4 DEF Shaped, NoFact
  <2>2. Grounded(x)
    BY <1>2, <1>4 DEF Grounded, NoFact
  <2>3. QED BY <1>4, <1>5, <2>1, <2>2 DEF Good
<1>7. QED BY <1>1, <1>6, OnlyStep

LEMMA RemoveKeeps ==
  ASSUME TurnInv, NEW t \in Thread, RemoveAttempt(t)
  PROVE  TurnInv'
<1> DEFINE s == thread[t]
<1>1. CASE At(t, "remove")
  <2>1. Running(t) /\ s.step = "remove" /\ s.attempt \in Attempt
    BY <1>1, DispatchStep
  <2>2. Good(t, After(s, "ok"))
    BY <2>1, AfterGood
  <2>3. Become(t, After(s, "ok"))
    BY <2>1 DEF RemoveAttempt
  <2>4. QED BY <2>1, <2>2, <2>3, OwnerStep DEF RemoveAttempt
<1>2. CASE At(t, "forget")
  <2>1. /\ Running(t) /\ s.step = "forget" /\ s.attempt \in Attempt
        /\ ~Unsettled(s) /\ Good(t, ToCommit(s, "cancelled", "abandon"))
    BY <1>2, DispatchStep, Words
  <2>2. Good(t, Goto(s, "commit"))
    <3>1. "commit" \in Step /\ "commit" \notin BeforeSend
      BY DEF Step, BeforeSend
    <3>2. QED BY <2>1, <3>1, GotoGood
  <2>3. PICK x : Become(t, x) /\ Good(t, x)
    BY <2>1, <2>2 DEF RemoveAttempt
  <2>4. QED BY <2>1, <2>3, OwnerStep DEF RemoveAttempt
<1>3. QED BY <1>1, <1>2 DEF RemoveAttempt

LEMMA EvidenceKeeps ==
  ASSUME TurnInv, NEW t \in Thread, ReadEvidence(t)
  PROVE  TurnInv'
<1> DEFINE s == thread[t]
           a == s.attempt
           seen == [outcome |-> runtime[a], by |-> "runtime"]
           g == Goto(s, "forget")
           h == [g EXCEPT !.end = seen]
<1>1. At(t, "evidence")
  BY DEF ReadEvidence
<1>2. /\ Running(t) /\ ~Unsettled(s) /\ s \in ThreadState /\ a \in Attempt
  BY <1>1, DispatchStep
<1>3. "forget" \in Step /\ "forget" \notin BeforeSend
  BY DEF Step, BeforeSend
<1>4. CASE Only(t, g)
  BY <1>2, <1>3, <1>4, GotoGood, OnlyStep
<1>5. CASE Settled(a) /\ Only(t, h)
  <2>1. Ended(a)
    BY <1>2, <1>5 DEF TurnInv, AttemptsGrounded
  <2>2. seen \in Terminal
    BY <1>2, <2>1, EndedOutcome, Words DEF Terminal
  <2>3. /\ g \in ThreadState /\ g.step = "forget" /\ g.io = "load"
        /\ g.cmd = s.cmd /\ g.attempt = a /\ g.binding = s.binding
        /\ g.fact = "none"
    BY <1>2, <1>3, GotoFields DEF NoFact
  <2> HIDE DEF g
  <2>4. /\ h \in ThreadState /\ h.step = "forget" /\ h.io = "load"
        /\ h.cmd = s.cmd /\ h.attempt = a /\ h.binding = s.binding
        /\ h.fact = "none" /\ h.end = seen
    BY <2>2, <2>3 DEF ThreadState
  <2>5. Ended(h.attempt) /\ h.end.outcome = runtime[h.attempt]
    BY <2>1, <2>4
  <2> HIDE DEF h, s
  <2>6. Follows(h, s)
    BY <1>2, <1>3, <2>4, <2>5 DEF Follows
  <2>7. QED BY <1>2, <1>5, <2>6, SameCommand, OnlyStep DEF s, h, g
<1>6. QED BY <1>4, <1>5 DEF ReadEvidence

LEMMA ClearKeeps ==
  ASSUME TurnInv, NEW t \in Thread, ClearRecovery(t)
  PROVE  TurnInv'
<1> DEFINE s == thread[t]
           r == row[s.binding]
           new == [r EXCEPT !.state = IF r.native THEN "ready" ELSE "prepared",
                            !.why = "none", !.trust = "dirty"]
<1>1. At(t, "clear")
  BY DEF ClearRecovery
<1>2. Running(t) /\ ~Unsettled(s) /\ r \in Row
  BY <1>1, DispatchStep
<1>3. Good(t, After(s, "ok"))
  BY <1>2, AfterGood
<1>4. Good(t, Plan(s, new, NoFact))
  <2>1. new \in Row
    BY <1>2 DEF Row, State, Reason
  <2>2. NoFact # "turnRequested" /\ NoFact # "turnCommitted"
    BY DEF NoFact
  <2>3. QED BY <1>2, <2>1, <2>2, PlanGood, Words
<1>5. PICK x \in {After(s, "ok"), Plan(s, new, NoFact)} : Only(t, x)
  BY DEF ClearRecovery
<1>6. QED BY <1>3, <1>4, <1>5, OnlyStep

LEMMA RebuildKeeps ==
  ASSUME TurnInv, NEW t \in Thread, RebuildBinding(t)
  PROVE  TurnInv'
<1> DEFINE s == thread[t]
           b == s.binding
           new == [gen |-> gens + 1, state |-> "prepared", why |-> "none",
                   native |-> FALSE, trust |-> "dirty", pending |-> NoPending,
                   accepted |-> 0, committed |-> 0]
           replaced == [outcome |-> "replaced", by |-> "rebuild"]
<1>1. At(t, "rebuild")
  BY DEF RebuildBinding
<1>2. /\ Running(t) /\ ~Unsettled(s) /\ s.step = "rebuild"
      /\ s \in ThreadState /\ row[b] # NoRow /\ b \in Binding
      /\ Shaped(s) /\ Good(t, Idle)
  BY <1>1, DispatchStep, RunningThread, Sentinels
<1>3. CASE \E a \in UnresolvedOn(b) : Only(t, Idle)
  BY <1>2, <1>3, OnlyStep
<1>4. ASSUME gens' = gens + 1, NEW x, Become(t, x), Good(t, x),
             UNCHANGED <<log, row, owner, runtime, asked, recoveries, crashes>>
      PROVE  TurnInv'
  <2>1. gens' \in Nat /\ recoveries' \in 0..MaxRecovery
        /\ owner' \in [Attempt -> {"absent", "registered", "held", "observed",
                                   "settled"}]
    BY <1>4 DEF TurnInv, TypeOK
  <2>2. /\ \A a \in Attempt :
             Registered(a)' => Registered(a) \/ row[BindingOf[a]] # NoRow
        /\ \A a \in Attempt : Settled(a)' => Ended(a)
    BY <1>4 DEF TurnInv, AttemptsGrounded, Registered, Settled
  <2>3. QED BY <1>4, <2>1, <2>2, QuietStep
<1>5. new \in Row
  BY DEF Row, State, Reason, TurnInv, TypeOK
<1>6. CASE /\ gens' = gens + 1
           /\ Become(t, Plan(s, new, NoFact))
           /\ UNCHANGED <<log, row, owner, runtime, asked, recoveries, crashes>>
  <2>1. NoFact # "turnRequested" /\ NoFact # "turnCommitted"
    BY DEF NoFact
  <2>2. Good(t, Plan(s, new, NoFact))
    BY <1>2, <1>5, <2>1, PlanGood, Words
  <2>3. QED BY <1>4, <1>6, <2>2
<1>7. ASSUME NEW a \in UnresolvedOn(b),
             gens' = gens + 1,
             Become(t, [Plan(s, new, "turnCommitted") EXCEPT
                          !.attempt = a, !.end = replaced]),
             UNCHANGED <<log, row, owner, runtime, asked, recoveries, crashes>>
      PROVE  TurnInv'
  <2> DEFINE g == Plan(s, new, "turnCommitted")
             h == [g EXCEPT !.attempt = a, !.end = replaced]
  <2>1. a \in Attempt /\ BindingOf[a] = b
    BY DEF UnresolvedOn
  <2>2. s.cmd = "rebuild" /\ "rebuild" \notin BeforeSend
        /\ replaced \in Terminal
    BY <1>2, Words DEF Shaped, BeforeSend, Terminal
  <2>3. /\ g \in ThreadState /\ g.cmd = s.cmd /\ g.step = s.step
        /\ g.io = "store" /\ g.binding = b /\ g.plan = new
        /\ g.fact = "turnCommitted"
    BY <1>2, <1>5, PlanFields, Words
  <2> HIDE DEF g, new
  <2>4. /\ h \in ThreadState /\ h.cmd = "rebuild" /\ h.step = "rebuild"
        /\ h.io = "store" /\ h.binding = BindingOf[h.attempt] /\ h.plan \in Row
        /\ h.fact = "turnCommitted" /\ h.end.by = "rebuild"
        /\ h.end.outcome = "replaced" /\ row[h.binding] # NoRow
    BY <1>2, <1>5, <2>1, <2>2, <2>3 DEF ThreadState
  <2> HIDE DEF h
  <2>5. Shaped(h)
    BY <2>2, <2>4 DEF Shaped
  <2>6. Grounded(h)
    BY <2>2, <2>4 DEF Grounded
  <2>7. Good(t, h)
    BY <2>4, <2>5, <2>6 DEF Good
  <2>8. QED BY <1>4, <1>7, <2>7 DEF h, g, new
<1>8. QED BY <1>3, <1>6, <1>7 DEF RebuildBinding

-----------------------------------------------------------------------------
(* Commands that start.                                                    *)

LEMMA FreshGood ==
  ASSUME TurnInv, NEW t \in Thread, NEW a \in Attempt,
         row[BindingOf[a]] # NoRow, NEW x \in ThreadState,
         x.cmd # "dispatch", x.attempt = a, x.binding = BindingOf[a],
         x.io = "load", x.fact = "none", x.step \notin BeforeSend,
         x.step = "rebuild" => x.cmd = "rebuild",
         x.end.by = "runtime" => Ended(a) /\ x.end.outcome = runtime[a]
  PROVE  Good(t, x)
<1>1. Shaped(x)
  BY DEF Shaped
<1>2. Grounded(x)
  BY DEF Grounded
<1>3. QED BY <1>1, <1>2 DEF Good

\* The commit of a settlement by a command that starts with it.
LEMMA FreshCommit ==
  ASSUME TurnInv, NEW t \in Thread, NEW a \in Attempt,
         row[BindingOf[a]] # NoRow, NEW cmd \in Command, cmd # "dispatch",
         NEW by \in Author, NEW outcome \in Outcome,
         by = "runtime" => Ended(a) /\ outcome = runtime[a]
  PROVE  Good(t, ToCommit(Start(cmd, "commit", a, BindingOf[a]), outcome, by))
<1> DEFINE q == Start(cmd, "commit", a, BindingOf[a])
           x == ToCommit(q, outcome, by)
<1>1. "commit" \in Step /\ "commit" \notin BeforeSend
  BY DEF Step, BeforeSend
<1>2. /\ q \in ThreadState /\ q.cmd = cmd /\ q.attempt = a
      /\ q.binding = BindingOf[a]
  BY <1>1, StartFields, BindingType
<1> HIDE DEF q
<1>3. /\ x \in ThreadState /\ x.cmd = cmd /\ x.attempt = a
      /\ x.binding = BindingOf[a] /\ x.step = "commit" /\ x.io = "load"
      /\ x.fact = "none" /\ x.end = [outcome |-> outcome, by |-> by]
  BY <1>2, ToCommitFields DEF NoFact
<1>4. x.end.by = by /\ x.end.outcome = outcome
  BY <1>3
<1> HIDE DEF x
<1>5. Good(t, x)
  BY <1>1, <1>3, <1>4, FreshGood
<1>6. QED BY <1>5 DEF x, q

LEMMA SettledRow ==
  ASSUME TurnInv, NEW a \in Attempt
  PROVE  /\ Registered(a) => row[BindingOf[a]] # NoRow
         /\ Requested(a) => row[BindingOf[a]] # NoRow
         /\ Settled(a) => /\ Ended(a)
                          /\ runtime[a] \in Outcome
                          /\ row[BindingOf[a]] # NoRow
<1>1. Settled(a) => Registered(a)
  BY DEF Settled, Registered
<1>2. QED
  BY <1>1, EndedOutcome DEF TurnInv, AttemptsGrounded, Started

LEMMA ObserveKeeps ==
  ASSUME TurnInv, NEW t \in Thread, NEW a \in Attempt,
         ObserveEnd(t, a) \/ AwaitTerminal(t, a)
  PROVE  TurnInv'
<1> DEFINE x == ToCommit(Start("observe", "commit", a, BindingOf[a]),
                         runtime[a], "runtime")
<1>1. "observe" \in Command /\ "runtime" \in Author
  BY DEF Command, Author
<1>2. Registered(a) /\ Ended(a)
  BY SettledRow DEF ObserveEnd, AwaitTerminal, Settled, Registered
<1>3. Good(t, x)
  BY <1>1, <1>2, SettledRow, EndedOutcome, FreshCommit
<1>4. CASE ObserveEnd(t, a)
  BY <1>2, <1>3, <1>4, SettledRow, OwnerStep DEF ObserveEnd
<1>5. CASE AwaitTerminal(t, a)
  BY <1>3, <1>5, OnlyStep DEF AwaitTerminal, Only
<1>6. QED BY <1>4, <1>5

LEMMA IssueBeginKeeps ==
  ASSUME TurnInv, NEW t \in Thread, NEW a \in Attempt, IssueBegin(t, a)
  PROVE  TurnInv'
<1> DEFINE x == Start("begin", "begin", a, BindingOf[a])
<1>1. "begin" \in Command /\ "begin" \in Step /\ "begin" \notin BeforeSend
  BY DEF Command, Step, BeforeSend
<1>2. /\ x \in ThreadState /\ x.cmd = "begin" /\ x.attempt = a
      /\ x.binding = BindingOf[a] /\ x.step = "begin" /\ x.io = "load"
      /\ x.fact = "none" /\ x.end.by = "nobody"
  BY <1>1, StartFields, BindingType DEF NoFact, NoTerminal
<1> HIDE DEF x
<1>3. Good(t, x)
  BY <1>1, <1>2 DEF Good, Shaped, Grounded
<1>4. Only(t, x)
  BY DEF IssueBegin, Issue, Only, x
<1>5. QED BY <1>3, <1>4, OnlyStep

\* prepare and dispatch: nobody else works on the attempt for the sender, and
\* it was never dispatched before.
LEMMA IssueNextKeeps ==
  ASSUME TurnInv, NEW t \in Thread, NEW a \in Attempt,
         IssuePrepare(t, a) \/ IssueDispatch(t, a)
  PROVE  TurnInv'
<1>1. PICK cmd \in {"prepare", "dispatch"}, step \in {"prepare", "check"} :
        /\ Become(t, Start(cmd, step, a, BindingOf[a]))
        /\ asked' = [asked EXCEPT ![a] = cmd]
        /\ step \in BeforeSend => cmd = "dispatch"
  BY DEF IssuePrepare, IssueDispatch, IssueNext, Issue, BeforeSend
<1>2. /\ ~Busy(a)
      /\ asked[a] # "dispatch" /\ Requested(a)
      /\ UNCHANGED <<store, owner, runtime, recoveries, crashes>>
  BY DEF IssuePrepare, IssueDispatch, IssueNext, TurnInv, AttemptsGrounded
<1>3. runtime[a] = "none" /\ row[BindingOf[a]] # NoRow
  BY <1>2, SettledRow DEF TurnInv, AttemptsGrounded
<1> DEFINE x == Start(cmd, step, a, BindingOf[a])
<1>4. /\ x \in ThreadState /\ x.cmd = cmd /\ x.attempt = a
      /\ x.binding = BindingOf[a] /\ x.step = step /\ x.io = "load"
      /\ x.fact = "none" /\ x.end.by = "nobody"
  <2>1. cmd \in Command /\ step \in Step
    BY DEF Command, Step
  <2>2. QED BY <2>1, StartFields, BindingType DEF NoFact, NoTerminal
<1> HIDE DEF x
<1>5. /\ thread'[t] = x
      /\ \A u \in Thread : u # t => thread'[u] = thread[u]
      /\ thread' \in [Thread -> ThreadState \cup {Idle}]
  BY <1>1, <1>4 DEF Become, TurnInv, TypeOK, x
<1>6. /\ asked' \in [Attempt -> {"nothing", "prepare", "dispatch"}]
      /\ asked'[a] = cmd
      /\ \A c \in Attempt : c # a => asked'[c] = asked[c]
  BY <1>1 DEF TurnInv, TypeOK
<1>7. TypeOK'
  BY <1>2, <1>5, <1>6 DEF TurnInv, TypeOK, store
<1>8. Shaped(x) /\ (Grounded(x))'
  <2>1. Shaped(x)
    BY <1>1, <1>4 DEF Shaped
  <2>2. (Grounded(x))'
    BY <1>2, <1>3, <1>4, <1>6 DEF Grounded, store
  <2>3. QED BY <2>1, <2>2
<1>9. ThreadsShaped'
  <2> SUFFICES ASSUME NEW u \in Thread, Running(u)' PROVE Shaped(thread[u])'
    BY DEF ThreadsShaped
  <2>1. CASE u = t
    BY <1>5, <1>8, <2>1
  <2>2. CASE u # t
    BY <1>5, <2>2, RunningThread DEF Running
  <2>3. QED BY <2>1, <2>2
<1>10. ThreadsGrounded'
  <2> SUFFICES ASSUME NEW u \in Thread, Running(u)' PROVE Grounded(thread[u])'
    BY DEF ThreadsGrounded
  <2>1. CASE u = t
    BY <1>5, <1>8, <2>1
  <2>2. CASE u # t
    <3>1. thread'[u] = thread[u] /\ Running(u)
      BY <1>5, <2>2 DEF Running
    <3>2. PICK s : s = thread[u]
      OBVIOUS
    <3>3. /\ Grounded(s) /\ s.attempt \in Attempt /\ s.binding \in Binding
      BY <3>1, <3>2, RunningThread
    <3>4. Grows
      BY <1>2, <1>6 DEF Grows, Has, Ended, store
    <3>5. s.step \in BeforeSend => runtime'[s.attempt] = "none"
      BY <1>2, <3>3 DEF Grounded
    <3>6. Grounded(s)'
      BY <3>3, <3>4, <3>5, GroundedGrows
    <3>7. QED BY <3>1, <3>2, <3>6
  <2>3. QED BY <2>1, <2>2
<1>11. OneDispatcher'
  <2>1. \A u \in Thread : ~Dispatches(u, a)
    BY <1>2 DEF Busy, Dispatches
  <2>2. \A u \in Thread, c \in Attempt :
          Dispatches(u, c)' => (u = t /\ c = a) \/ Dispatches(u, c)
    <3> SUFFICES ASSUME NEW u \in Thread, NEW c \in Attempt,
                        Dispatches(u, c)', ~(u = t /\ c = a)
                 PROVE  Dispatches(u, c)
      OBVIOUS
    <3>1. u # t
      BY <1>4, <1>5 DEF Dispatches
    <3>2. QED BY <1>5, <3>1 DEF Dispatches, Running
  <2>3. ASSUME NEW c \in Attempt, NEW u \in Thread, NEW v \in Thread,
               Dispatches(u, c)', Dispatches(v, c)'
        PROVE  u = v
    <3>1. CASE c = a
      BY <2>1, <2>2, <2>3, <3>1
    <3>2. CASE c # a
      <4>1. Dispatches(u, c) /\ Dispatches(v, c)
        BY <2>2, <2>3, <3>2
      <4>2. QED BY <4>1 DEF TurnInv, OneDispatcher
    <3>3. QED BY <3>1, <3>2
  <2>4. QED BY <2>3 DEF OneDispatcher
<1>12. AttemptsGrounded'
  <2>1. log' = log /\ row' = row /\ owner' = owner /\ runtime' = runtime
    BY <1>2 DEF store
  <2>2. \A c \in Attempt : /\ Started(c)' <=> Started(c)
                           /\ Settled(c)' <=> Settled(c)
                           /\ Requested(c)' <=> Requested(c)
                           /\ Ended(c)' <=> Ended(c)
    BY <2>1 DEF Started, Settled, Requested, Registered, Ended
  <2>3. \A c \in Attempt : /\ asked'[c] # "nothing" => Requested(c)
                           /\ asked'[c] # "dispatch" => runtime[c] = "none"
    BY <1>2, <1>3, <1>6 DEF TurnInv, AttemptsGrounded
  <2>4. QED BY <2>1, <2>2, <2>3 DEF TurnInv, AttemptsGrounded
<1>13. TerminalIsTrue'
  BY <1>2 DEF TurnInv, TerminalIsTrue, Has, store
<1>14. QED
  BY <1>7, <1>9, <1>10, <1>11, <1>12, <1>13 DEF TurnInv

\* The recovery commands: each is counted, and starts with a commit, a mark,
\* a rebuild or a look at the evidence.
LEMMA RecoverKeeps ==
  ASSUME TurnInv, NEW t \in Thread, NEW a \in Attempt, NEW cmd,
         Recover(t, a, cmd), NEW x, Become(t, x), Good(t, x)
  PROVE  TurnInv'
<1>1. recoveries' \in 0..MaxRecovery
  <2>1. /\ recoveries' = recoveries + 1 /\ recoveries < MaxRecovery
        /\ recoveries \in 0..MaxRecovery /\ MaxRecovery \in Nat
    BY LifecycleAssumption DEF Recover, TurnInv, TypeOK
  <2>2. QED BY <2>1
<1>2. /\ UNCHANGED <<log, row, runtime, asked, crashes>>
      /\ UNCHANGED <<gens, owner>>
  BY DEF Recover, store
<1>3. /\ gens' \in Nat
      /\ owner' \in [Attempt -> {"absent", "registered", "held", "observed",
                                 "settled"}]
  BY <1>2 DEF TurnInv, TypeOK
<1>4. /\ \A c \in Attempt :
           Registered(c)' => Registered(c) \/ row[BindingOf[c]] # NoRow
      /\ \A c \in Attempt : Settled(c)' => Ended(c)
  BY <1>2 DEF TurnInv, AttemptsGrounded, Registered, Settled
<1>5. QED BY <1>1, <1>2, <1>3, <1>4, QuietStep

LEMMA RecoveryStarts ==
  ASSUME TurnInv, NEW t \in Thread, NEW a \in Attempt,
         row[BindingOf[a]] # NoRow, NEW cmd \in RecoveryCommand
  PROVE  /\ \A by \in Author, outcome \in Outcome :
              (by = "runtime" => Ended(a) /\ outcome = runtime[a])
                => Good(t, ToCommit(Begun(cmd, a), outcome, by))
         /\ Good(t, ToRecovery(Begun(cmd, a), "marked"))
         /\ Good(t, Goto(Begun(cmd, a), "evidence"))
         /\ cmd = "rebuild" => Good(t, Goto(Begun(cmd, a), "rebuild"))
<1> DEFINE q == Start(cmd, "commit", a, BindingOf[a])
<1>1. q = Begun(cmd, a)
  BY DEF Begun
<1>2. cmd \in Command /\ cmd # "dispatch"
  BY LifecycleAssumption DEF Command
<1>3. \A by \in Author, outcome \in Outcome :
        (by = "runtime" => Ended(a) /\ outcome = runtime[a])
          => Good(t, ToCommit(q, outcome, by))
  BY <1>2, FreshCommit
<1>4. /\ q \in ThreadState /\ q.cmd = cmd /\ q.attempt = a
      /\ q.binding = BindingOf[a] /\ q.end.by = "nobody"
  <2>1. "commit" \in Step
    BY DEF Step
  <2>2. QED BY <1>2, <2>1, StartFields, BindingType DEF NoTerminal
<1> HIDE DEF q
<1>5. /\ {"evidence", "rebuild"} \subseteq Step /\ "marked" \in Reason
      /\ {"evidence", "rebuild", "recovery"} \cap BeforeSend = {}
  BY DEF Step, Reason, BeforeSend
<1>6. Good(t, ToRecovery(q, "marked"))
  <2> DEFINE x == ToRecovery(q, "marked")
  <2>1. /\ x \in ThreadState /\ x.cmd = cmd /\ x.attempt = a
        /\ x.binding = BindingOf[a] /\ x.step = "recovery" /\ x.io = "load"
        /\ x.fact = "none" /\ x.end.by = "nobody"
    BY <1>4, <1>5, ToRecoveryFields DEF NoFact
  <2> HIDE DEF x
  <2>2. Good(t, x)
    BY <1>2, <1>5, <2>1, FreshGood
  <2>3. QED BY <2>2 DEF x
<1>7. ASSUME NEW step \in {"evidence", "rebuild"},
             step = "rebuild" => cmd = "rebuild"
      PROVE  Good(t, Goto(q, step))
  <2> DEFINE x == Goto(q, step)
  <2>1. /\ x \in ThreadState /\ x.cmd = cmd /\ x.attempt = a
        /\ x.binding = BindingOf[a] /\ x.step = step /\ x.io = "load"
        /\ x.fact = "none" /\ x.end.by = "nobody"
    BY <1>4, <1>5, GotoFields DEF NoFact
  <2> HIDE DEF x
  <2>2. Good(t, x)
    BY <1>2, <1>5, <1>7, <2>1, FreshGood
  <2>3. QED BY <2>2 DEF x
<1>8. QED BY <1>1, <1>3, <1>6, <1>7

LEMMA IssueRecoveryKeeps ==
  ASSUME TurnInv, NEW t \in Thread, NEW a \in Attempt, IssueRecovery(t, a)
  PROVE  TurnInv'
<1>1. PICK cmd : Recover(t, a, cmd)
  BY DEF IssueRecovery, CancelAttempt, MarkRecoveryCommand, RecoverAttempt,
         RebuildCommand, AbandonCommand
<1>2. row[BindingOf[a]] # NoRow
  BY <1>1, SettledRow DEF Recover
<1> DEFINE Settlement(c) == ToCommit(Begun(c, a), runtime[a], "runtime")
<1>3. ASSUME NEW c \in RecoveryCommand
      PROVE  /\ \A by \in Author \ {"runtime"}, outcome \in Outcome :
                  Good(t, ToCommit(Begun(c, a), outcome, by))
             /\ Settled(a) => Good(t, Settlement(c))
             /\ Good(t, ToRecovery(Begun(c, a), "marked"))
             /\ Good(t, Goto(Begun(c, a), "evidence"))
             /\ c = "rebuild" => Good(t, Goto(Begun(c, a), "rebuild"))
  BY <1>2, SettledRow, RecoveryStarts, Words
<1> HIDE DEF Settlement
<1>4. CASE CancelAttempt(t, a)
  <2>1. Recover(t, a, "cancel")
        /\ Become(t, ToCommit(Begun("cancel", a), "cancelled", "user"))
    BY <1>4 DEF CancelAttempt
  <2>2. "cancel" \in RecoveryCommand
    BY <2>1 DEF Recover
  <2>3. QED BY <1>3, <2>1, <2>2, RecoverKeeps, Words
<1>5. CASE MarkRecoveryCommand(t, a)
  <2>1. /\ Recover(t, a, "markRecovery")
        /\ \/ Settled(a) /\ Become(t, Settlement("markRecovery"))
           \/ Become(t, ToRecovery(Begun("markRecovery", a), "marked"))
    BY <1>5 DEF MarkRecoveryCommand, Settlement
  <2>2. "markRecovery" \in RecoveryCommand
    BY <2>1 DEF Recover
  <2>3. PICK x : Become(t, x) /\ Good(t, x)
    BY <1>3, <2>1, <2>2
  <2>4. QED BY <2>1, <2>3, RecoverKeeps
<1>6. CASE RecoverAttempt(t, a)
  <2>1. /\ Recover(t, a, "recover")
        /\ \/ Settled(a) /\ Become(t, Settlement("recover"))
           \/ Become(t, ToCommit(Begun("recover", a), "cancelled", "probe"))
    BY <1>6 DEF RecoverAttempt, Settlement
  <2>2. "recover" \in RecoveryCommand
    BY <2>1 DEF Recover
  <2>3. Good(t, ToCommit(Begun("recover", a), "cancelled", "probe"))
    BY <1>3, <2>2, Words
  <2>4. PICK x : Become(t, x) /\ Good(t, x)
    BY <1>3, <2>1, <2>2, <2>3
  <2>5. QED BY <2>1, <2>4, RecoverKeeps
<1>7. CASE RebuildCommand(t, a)
  <2>1. /\ Recover(t, a, "rebuild")
        /\ \/ Settled(a) /\ Become(t, Settlement("rebuild"))
           \/ Become(t, Goto(Begun("rebuild", a), "rebuild"))
    BY <1>7 DEF RebuildCommand, Settlement
  <2>2. "rebuild" \in RecoveryCommand
    BY <2>1 DEF Recover
  <2>3. PICK x : Become(t, x) /\ Good(t, x)
    BY <1>3, <2>1, <2>2
  <2>4. QED BY <2>1, <2>3, RecoverKeeps
<1>8. CASE AbandonCommand(t, a)
  <2>1. /\ Recover(t, a, "abandon")
        /\ Become(t, Goto(Begun("abandon", a), "evidence"))
    BY <1>8 DEF AbandonCommand
  <2>2. "abandon" \in RecoveryCommand
    BY <2>1 DEF Recover
  <2>3. QED BY <1>3, <2>1, <2>2, RecoverKeeps
<1>9. QED BY <1>4, <1>5, <1>6, <1>7, <1>8 DEF IssueRecovery

-----------------------------------------------------------------------------
(* The engine, the crash, and the calls to the writer actor.               *)

LEMMA EndKeeps ==
  ASSUME TurnInv, NEW a \in Attempt, NEW outcome \in RuntimeOutcome,
         EndTurn(a, outcome)
  PROVE  TurnInv'
<1>1. /\ runtime[a] = "running"
      /\ runtime'[a] = outcome
      /\ \A c \in Attempt : c # a => runtime'[c] = runtime[c]
      /\ runtime' \in [Attempt -> {"none", "running"} \cup RuntimeOutcome]
      /\ log' = log /\ row' = row /\ owner' = owner /\ asked' = asked
      /\ thread' = thread
  BY DEF EndTurn, TurnInv, TypeOK, store
<1>2. outcome \notin {"none", "running"}
  BY LifecycleAssumption
<1>3. TypeOK'
  BY <1>1 DEF EndTurn, TurnInv, TypeOK, store
<1>4. /\ Grows
      /\ \A c \in Attempt : runtime[c] = "none" => runtime'[c] = "none"
  BY <1>1 DEF Grows, Has, Ended
<1>5. ThreadsShaped' /\ OneDispatcher'
  <2>1. ThreadsShaped'
    BY <1>1 DEF TurnInv, ThreadsShaped, Running
  <2>2. \A u \in Thread, c \in Attempt : Dispatches(u, c)' <=> Dispatches(u, c)
    BY <1>1 DEF Dispatches, Running
  <2>3. QED BY <2>1, <2>2 DEF TurnInv, OneDispatcher
<1>6. ThreadsGrounded'
  <2> SUFFICES ASSUME NEW u \in Thread, Running(u)' PROVE Grounded(thread[u])'
    BY DEF ThreadsGrounded
  <2>1. PICK s : s = thread[u]
    OBVIOUS
  <2>2. Running(u)
    BY <1>1 DEF Running
  <2>3. Grounded(s) /\ s.attempt \in Attempt /\ s.binding \in Binding
    BY <2>1, <2>2, RunningThread
  <2>4. s.step \in BeforeSend => runtime'[s.attempt] = "none"
    BY <1>4, <2>3 DEF Grounded
  <2>5. Grounded(s)'
    BY <1>4, <2>3, <2>4, GroundedGrows
  <2>6. QED BY <1>1, <2>1, <2>5
<1>7. AttemptsGrounded'
  <2>1. \A c \in Attempt : /\ Started(c)' <=> Started(c)
                           /\ Settled(c)' <=> Settled(c)
                           /\ Requested(c)' <=> Requested(c)
                           /\ Ended(c) => Ended(c)'
    BY <1>1, <1>4 DEF Started, Settled, Requested, Registered, Grows
  <2>2. QED BY <1>1, <1>4, <2>1 DEF TurnInv, AttemptsGrounded
<1>8. TerminalIsTrue'
  <2>1. log[a].terminal.by # "runtime"
    <3>1. log[a].terminal.by = "runtime" => log[a].terminal.outcome = "running"
      BY <1>1 DEF TurnInv, TerminalIsTrue
    <3>2. QED BY <3>1, FactsOf DEF Terminal, Outcome, NoTerminal
  <2>2. QED BY <1>1, <2>1 DEF TurnInv, TerminalIsTrue, Has
<1>9. QED
  BY <1>3, <1>5, <1>6, <1>7, <1>8 DEF TurnInv

LEMMA CrashKeeps ==
  ASSUME TurnInv, Crash
  PROVE  TurnInv'
<1>1. /\ log' = log /\ row' = row /\ runtime' = runtime /\ gens' = gens
      /\ recoveries' = recoveries
      /\ thread' = [t \in Thread |-> Idle]
      /\ owner' = [a \in Attempt |-> "absent"]
      /\ asked' = [a \in Attempt |->
                     IF Requested(a) THEN "dispatch" ELSE "nothing"]
  BY DEF Crash, store
<1>2. crashes' \in 0..MaxCrash
  BY LifecycleAssumption DEF Crash, TurnInv, TypeOK
<1>3. TypeOK'
  BY <1>1, <1>2 DEF TurnInv, TypeOK
<1>4. \A t \in Thread : ~Running(t)'
  BY <1>1 DEF Running
<1>5. ThreadsShaped' /\ ThreadsGrounded' /\ OneDispatcher'
  BY <1>4 DEF ThreadsShaped, ThreadsGrounded, OneDispatcher, Dispatches
<1>6. AttemptsGrounded'
  <2>1. \A a \in Attempt : /\ ~Registered(a)' /\ ~Settled(a)'
                           /\ Requested(a)' <=> Requested(a)
    BY <1>1 DEF Registered, Settled, Requested
  <2>2. \A a \in Attempt : Started(a)' => Started(a)
    BY <1>1, <2>1 DEF Started
  <2>3. \A a \in Attempt : asked'[a] # "nothing" => Requested(a)
    BY <1>1
  <2>4. \A a \in Attempt : asked'[a] # "dispatch" => runtime'[a] = "none"
    <3> SUFFICES ASSUME NEW a \in Attempt, asked'[a] # "dispatch"
                 PROVE  runtime'[a] = "none"
      OBVIOUS
    <3>1. ~Requested(a)
      BY <1>1
    <3>2. asked[a] # "dispatch"
      BY <3>1 DEF TurnInv, AttemptsGrounded
    <3>3. QED BY <1>1, <3>2 DEF TurnInv, AttemptsGrounded
  <2>5. QED
    BY <1>1, <2>1, <2>2, <2>3, <2>4 DEF TurnInv, AttemptsGrounded
<1>7. TerminalIsTrue'
  BY <1>1 DEF TurnInv, TerminalIsTrue, Has
<1>8. QED BY <1>3, <1>5, <1>6, <1>7 DEF TurnInv

\* A write: the row becomes what was planned, and facts are only added.
LEMMA WriteKeeps ==
  ASSUME TurnInv, NEW t \in Thread, Storing(t),
         Become(t, After(thread[t], "ok")),
         row' = [row EXCEPT ![thread[t].binding] = thread[t].plan],
         log' \in [Attempt -> Facts],
         UNCHANGED <<gens, owner, runtime, asked, recoveries, crashes>>,
         \A a \in Attempt : Requested(a) => Requested(a)',
         \A a \in Attempt : log[a].has \subseteq log'[a].has,
         \A a \in Attempt :
           \/ BindingOf[a] = thread[t].binding
           \/ (Requested(a)' => Requested(a)) /\ log'[a].has = log[a].has,
         TerminalIsTrue'
  PROVE  TurnInv'
<1> DEFINE s == thread[t]
           b == s.binding
           x == After(s, "ok")
<1>1. /\ Running(t) /\ Shaped(s) /\ b \in Binding /\ s.plan \in Row
      /\ s.plan # NoRow
  BY RunningThread, Sentinels DEF Storing, Shaped
<1>2. Good(t, x)
  BY <1>1, AfterGood
<1>3. /\ row' \in [Binding -> Row \cup {NoRow}] /\ row'[b] # NoRow
      /\ \A c \in Binding : row[c] # NoRow => row'[c] # NoRow
  BY <1>1 DEF TurnInv, TypeOK
<1> HIDE DEF x
<1>4. Become(t, x)
  BY DEF x
<1>5. TypeOK'
  <2>1. thread' \in [Thread -> ThreadState \cup {Idle}]
    BY <1>2, <1>4, GoodType
  <2>2. QED BY <1>3, <2>1 DEF TurnInv, TypeOK
<1>6. Grows
  BY <1>3 DEF Grows, Has, Ended
<1>7. SendsAlone'
  <2> SUFFICES ASSUME NEW u \in Thread, Running(u)',
                      thread'[u].step \in BeforeSend
               PROVE  runtime[thread'[u].attempt] = "none"
    BY DEF SendsAlone
  <2>1. CASE u = t
    BY <1>2, <1>4, <2>1 DEF Become, Good, Grounded, Running, TurnInv, TypeOK
  <2>2. CASE u # t
    <3>1. thread'[u] = thread[u] /\ Running(u)
      BY <1>4, <2>2 DEF Become, Running, TurnInv, TypeOK
    <3>2. Grounded(thread[u])
      BY <3>1, RunningThread
    <3>3. QED BY <3>1, <3>2 DEF Grounded
  <2>3. QED BY <2>1, <2>2
<1>8. AttemptsGrounded'
  <2>1. \A a \in Attempt : /\ Settled(a)' <=> Settled(a)
                           /\ Registered(a)' <=> Registered(a)
                           /\ Ended(a)' <=> Ended(a)
    BY DEF Settled, Registered, Ended
  <2>2. ASSUME NEW a \in Attempt, Started(a)'
        PROVE  row'[BindingOf[a]] # NoRow
    <3>1. CASE BindingOf[a] = b
      BY <1>3, <3>1
    <3>2. CASE BindingOf[a] # b
      <4>1. Started(a)
        BY <2>1, <2>2, <3>2 DEF Started
      <4>2. row[BindingOf[a]] # NoRow
        BY <4>1 DEF TurnInv, AttemptsGrounded
      <4>3. QED BY <1>3, <4>2, BindingType
    <3>3. QED BY <3>1, <3>2
  <2>3. QED BY <2>1, <2>2 DEF TurnInv, AttemptsGrounded
<1>9. QED BY <1>2, <1>4, <1>5, <1>6, <1>7, <1>8, ThreadMoves

LEMMA UpsertKeeps ==
  ASSUME TurnInv, NEW t \in Thread, Upsert(t)
  PROVE  TurnInv'
<1>1. /\ log' = log /\ Storing(t) /\ Become(t, After(thread[t], "ok"))
      /\ row' = [row EXCEPT ![thread[t].binding] = thread[t].plan]
      /\ UNCHANGED <<gens, owner, runtime, asked, recoveries, crashes>>
  BY DEF Upsert
<1>2. /\ log' \in [Attempt -> Facts]
      /\ \A a \in Attempt : Requested(a)' <=> Requested(a)
      /\ \A a \in Attempt : log'[a].has = log[a].has
  BY <1>1 DEF TurnInv, TypeOK, Requested
<1>3. TerminalIsTrue'
  BY <1>1 DEF TurnInv, TerminalIsTrue, Has
<1>4. QED BY <1>1, <1>2, <1>3, WriteKeeps

\* What the fact a thread appends makes of the facts of its attempt.
LEMMA WithFactIs ==
  ASSUME TurnInv, NEW t \in Thread, Running(t), thread[t].io = "store",
         thread[t].fact # NoFact
  PROVE  LET s == thread[t]
             f == log[s.attempt]
             g == WithFact(s)
         IN
         /\ g \in Facts
         /\ f.has \subseteq g.has
         /\ s.fact # "turnRequested" => g.gen = f.gen
         /\ s.fact = "turnCommitted" => g.terminal = s.end
         /\ s.fact # "turnCommitted" => g.terminal = f.terminal
<1> DEFINE s == thread[t]
           f == log[s.attempt]
           g == WithFact(s)
           n == Cardinality({a \in Attempt : Requested(a)})
<1>1. s \in ThreadState /\ Shaped(s) /\ s.attempt \in Attempt
  BY RunningThread
<1>2. /\ f \in Facts /\ s.plan.gen \in Nat /\ n \in Nat
      /\ s.end \in Terminal \cup {NoTerminal} /\ s.fact \in FactType
  <2>1. IsFiniteSet({a \in Attempt : Requested(a)})
    BY LifecycleAssumption, FS_Subset
  <2>2. n \in Nat
    BY <2>1, FS_CardinalityType
  <2>3. s.plan \in Row
    BY <1>1 DEF Shaped
  <2>4. s.plan.gen \in Nat
    BY <2>3 DEF Row
  <2>5. QED BY <1>1, <2>2, <2>4 DEF TurnInv, TypeOK, ThreadState
<1> HIDE DEF n
<1>3. CASE s.fact = "turnRequested"
  <2>1. g = [f EXCEPT !.gen = s.plan.gen, !.after = n]
    BY <1>3 DEF WithFact, n
  <2> HIDE DEF g, f
  <2>2. QED BY <1>2, <1>3, <2>1 DEF Facts, g, f
<1>4. CASE s.fact = "turnCommitted"
  <2>1. g = [f EXCEPT !.terminal = s.end]
    BY <1>4 DEF WithFact
  <2> HIDE DEF g, f
  <2>2. QED BY <1>2, <1>4, <2>1 DEF Facts, g, f
<1>5. CASE s.fact \notin {"turnRequested", "turnCommitted"}
  <2>1. g = [f EXCEPT !.has = @ \cup {s.fact}]
    BY <1>5 DEF WithFact
  <2>2. s.fact \in Milestone
    BY <1>2, <1>5 DEF FactType
  <2> HIDE DEF g, f
  <2>3. QED BY <1>2, <1>5, <2>1, <2>2 DEF Facts, g, f
<1>6. QED BY <1>3, <1>4, <1>5

LEMMA AppendKeeps ==
  ASSUME TurnInv, NEW t \in Thread, Append(t)
  PROVE  TurnInv'
<1> DEFINE s == thread[t]
           a == s.attempt
           f == log[a]
           g == WithFact(s)
<1>1. /\ Storing(t) /\ Running(t) /\ s.io = "store" /\ s.fact # NoFact
      /\ Become(t, After(s, "ok"))
      /\ row' = [row EXCEPT ![s.binding] = s.plan]
      /\ log' = [log EXCEPT ![a] = g]
      /\ UNCHANGED <<gens, owner, runtime, asked, recoveries, crashes>>
  BY DEF Append, Storing
<1>2. /\ s \in ThreadState /\ Shaped(s) /\ Grounded(s) /\ a \in Attempt
      /\ BindingOf[a] = s.binding
  BY <1>1, RunningThread DEF Shaped
<1>3. /\ g \in Facts
      /\ f.has \subseteq g.has
      /\ s.fact # "turnRequested" => g.gen = f.gen
      /\ s.fact = "turnCommitted" => g.terminal = s.end
      /\ s.fact # "turnCommitted" => g.terminal = f.terminal
  BY <1>1, WithFactIs
<1> HIDE DEF g
<1>4. /\ log' \in [Attempt -> Facts]
      /\ log'[a] = g
      /\ \A c \in Attempt : c # a => log'[c] = log[c]
  BY <1>1, <1>2, <1>3 DEF TurnInv, TypeOK
<1>5. \A c \in Attempt : Requested(c) => Requested(c)'
  <2>1. s.fact = "turnRequested" => ~Requested(a)
    BY DEF Append, Recorded
  <2>2. QED BY <1>3, <1>4, <2>1 DEF Requested
<1>6. \A c \in Attempt : log[c].has \subseteq log'[c].has
  BY <1>3, <1>4
<1>7. \A c \in Attempt :
        \/ BindingOf[c] = s.binding
        \/ (Requested(c)' => Requested(c)) /\ log'[c].has = log[c].has
  BY <1>2, <1>4 DEF Requested
<1>8. TerminalIsTrue'
  <2> SUFFICES ASSUME NEW c \in Attempt, log'[c].terminal.by = "runtime"
               PROVE  /\ log'[c].terminal.outcome = runtime[c]
                      /\ runtime[c] = "completed" => Has(c, "turnAccepted")'
    BY <1>1 DEF TerminalIsTrue
  <2>1. Has(c, "turnAccepted") => Has(c, "turnAccepted")'
    BY <1>6 DEF Has
  <2>2. CASE c = a /\ s.fact = "turnCommitted"
    <3>1. log'[c].terminal = s.end
      BY <1>3, <1>4, <2>2
    <3>2. s.end.by = "runtime" /\ s.end.outcome = runtime[a]
      BY <1>2, <2>2, <3>1 DEF Grounded
    <3>3. s.end.outcome = "completed" => Has(a, "turnAccepted")
      BY <1>2, <2>2 DEF Grounded
    <3>4. QED BY <2>1, <2>2, <3>1, <3>2, <3>3
  <2>3. CASE ~(c = a /\ s.fact = "turnCommitted")
    <3>1. log'[c].terminal = log[c].terminal
      BY <1>3, <1>4, <2>3
    <3>2. QED BY <2>1, <3>1 DEF TurnInv, TerminalIsTrue
  <2>4. QED BY <2>2, <2>3
<1>9. QED BY <1>1, <1>4, <1>5, <1>6, <1>7, <1>8, WriteKeeps

LEMMA AnswerKeeps ==
  ASSUME TurnInv, NEW t \in Thread, Replay(t) \/ Refuse(t)
  PROVE  TurnInv'
<1>1. Running(t)
  BY DEF Replay, Refuse, Storing
<1>2. PICK result \in {"ok", "error"} : Only(t, After(thread[t], result))
  BY DEF Replay, Refuse, Only
<1>3. QED BY <1>1, <1>2, AfterGood, OnlyStep

-----------------------------------------------------------------------------
(* The theorems.                                                           *)

LEMMA TurnInvInit ==
  ASSUME Init
  PROVE  TurnInv
<1>1. TypeOK
  <2>1. NoFacts \in Facts
    BY DEF NoFacts, Facts, Milestone
  <2>2. QED BY <2>1, LifecycleAssumption DEF Init, TypeOK
<1>2. \A t \in Thread : ~Running(t)
  BY DEF Init, Running
<1>3. ThreadsShaped /\ ThreadsGrounded /\ OneDispatcher
  BY <1>2 DEF ThreadsShaped, ThreadsGrounded, OneDispatcher, Dispatches
<1>4. AttemptsGrounded
  BY DEF Init, AttemptsGrounded, Started, Requested, Registered, Settled,
         NoFacts
<1>5. TerminalIsTrue
  BY DEF Init, TerminalIsTrue, NoFacts, NoTerminal
<1>6. QED BY <1>1, <1>3, <1>4, <1>5 DEF TurnInv

LEMMA TurnInvNext ==
  ASSUME TurnInv, [Next]_vars
  PROVE  TurnInv'
<1>1. ASSUME NEW t \in Thread, Call(t)
      PROVE  TurnInv'
  BY <1>1, UpsertKeeps, AppendKeeps, AnswerKeeps DEF Call
<1>2. ASSUME NEW t \in Thread, Proceed(t)
      PROVE  TurnInv'
  BY <1>2, BeginKeeps, PrepareKeeps, CheckKeeps, RegisterKeeps, CreatingKeeps,
     MaterializeKeeps, MarkSentKeeps, SendKeeps, BindKeeps, AckKeeps,
     AcceptDeliveryKeeps, TrustKeeps, AcceptTurnKeeps, ReleaseKeeps,
     CommitKeeps, MarkRecoveryKeeps, RemoveKeeps, RebuildKeeps, EvidenceKeeps,
     ClearKeeps
     DEF Proceed
<1>3. ASSUME NEW t \in Thread, NEW a \in Attempt,
             \/ IssueSend(t, a) \/ IssueRecovery(t, a)
             \/ ObserveEnd(t, a) \/ AwaitTerminal(t, a)
      PROVE  TurnInv'
  BY <1>3, IssueBeginKeeps, IssueNextKeeps, IssueRecoveryKeeps, ObserveKeeps
     DEF IssueSend
<1>4. CASE \E a \in Attempt, outcome \in RuntimeOutcome : EndTurn(a, outcome)
  BY <1>4, EndKeeps
<1>5. CASE Crash
  BY <1>5, CrashKeeps
<1>6. CASE UNCHANGED vars
  BY <1>6 DEF vars, TurnInv, TypeOK, ThreadsShaped, ThreadsGrounded,
              OneDispatcher, AttemptsGrounded, TerminalIsTrue, Running,
              Shaped, Grounded, Dispatches, Started, Registered, Settled,
              Requested, Ended, Has
<1>7. QED BY <1>1, <1>2, <1>3, <1>4, <1>5, <1>6 DEF Next

\* The invariant holds in every state the commands reach.
LEMMA TurnInvAlways == Spec => []TurnInv
<1>1. Init => TurnInv
  BY TurnInvInit
<1>2. TurnInv /\ [Next]_vars => TurnInv'
  BY TurnInvNext
<1>3. QED BY <1>1, <1>2, PTL DEF Spec

\* Every variable keeps its type: in particular no command loads a row that
\* was never written, or commits a settlement without an outcome.
THEOREM TurnTypeCorrect == Spec => []TypeOK
<1>1. TurnInv => TypeOK
  BY DEF TurnInv
<1>2. QED BY <1>1, TurnInvAlways, PTL

\* A terminal committed from a settlement is how the engine ended the turn, and
\* a completed turn was accepted, whatever commands overlap and wherever the
\* program crashes.
THEOREM TurnTerminalIsTrue == Spec => []TerminalIsTrue
<1>1. TurnInv => TerminalIsTrue
  BY DEF TurnInv
<1>2. QED BY <1>1, TurnInvAlways, PTL

LEMMA OnlyAppendWritesLog ==
  ASSUME [Next]_vars
  PROVE  log' = log \/ \E t \in Thread : Append(t)
<1>1. ASSUME NEW t \in Thread, Call(t) \/ Proceed(t), ~Append(t)
      PROVE  log' = log
  BY <1>1
     DEF Call, Proceed, Upsert, Replay, Refuse, BeginTurn, PrepareDelivery,
         CheckDelivery, RegisterAttempt, MarkCreating, MaterializeBinding,
         MarkSent, Send, BindRuntimeTurn, AwaitContextAck, AcceptDelivery,
         SetTrust, AcceptTurn, ReleaseEvents, CommitTurn, MarkRecovery,
         RemoveAttempt, RebuildBinding, ReadEvidence, ClearRecovery, Only, store
<1>2. ASSUME NEW t \in Thread, NEW a \in Attempt,
             \/ IssueSend(t, a) \/ IssueRecovery(t, a)
             \/ ObserveEnd(t, a) \/ AwaitTerminal(t, a)
      PROVE  log' = log
  BY <1>2
     DEF IssueSend, IssueBegin, IssuePrepare, IssueDispatch, IssueNext,
         IssueRecovery, CancelAttempt, MarkRecoveryCommand, RecoverAttempt,
         RebuildCommand, AbandonCommand, Recover, ObserveEnd, AwaitTerminal,
         store
<1>3. ASSUME NEW a \in Attempt, NEW outcome, EndTurn(a, outcome)
      PROVE  log' = log
  BY <1>3 DEF EndTurn, store
<1>4. Crash => log' = log
  BY DEF Crash, store
<1>5. QED BY <1>1, <1>2, <1>3, <1>4 DEF Next, vars

\* What one append does to the facts of an attempt.
LEMMA AppendIs ==
  ASSUME TurnInv, NEW t \in Thread, Append(t)
  PROVE  \E a \in Attempt :
         /\ \A c \in Attempt : c # a => log'[c] = log[c]
         /\ Committed(a) => log'[a].terminal = log[a].terminal
         /\ Unresolved(a)' /\ ~Unresolved(a) =>
              \A c \in Attempt : ~Unresolved(c)
<1> DEFINE s == thread[t]
<1>1. PICK a \in Attempt : a = s.attempt
  BY RunningThread DEF Append, Storing
<1>2. PICK g : g = WithFact(s)
  OBVIOUS
<1>3. /\ Running(t) /\ s.io = "store" /\ s.fact # NoFact
      /\ log' = [log EXCEPT ![a] = g]
  BY <1>1, <1>2 DEF Append, Storing
<1>4. /\ s.fact # "turnRequested" => g.gen = log[a].gen
      /\ s.fact = "turnCommitted" => ~Committed(a)
      /\ s.fact # "turnCommitted" => g.terminal = log[a].terminal
  BY <1>1, <1>2, <1>3, WithFactIs DEF Append, Recorded
<1>5. /\ log'[a] = g
      /\ \A c \in Attempt : c # a => log'[c] = log[c]
  BY <1>3 DEF TurnInv, TypeOK
<1>6. Committed(a) => log'[a].terminal = log[a].terminal
  BY <1>4, <1>5
<1>7. Unresolved(a)' /\ ~Unresolved(a) => \A c \in Attempt : ~Unresolved(c)
  <2> SUFFICES ASSUME Unresolved(a)', ~Unresolved(a)
               PROVE  \A c \in Attempt : ~Unresolved(c)
    OBVIOUS
  <2>1. g.gen # 0 /\ g.terminal = NoTerminal
    BY <1>5 DEF Unresolved, Requested, Committed
  <2>2. ~Committed(a)
    BY <1>4, <2>1 DEF Committed
  <2>3. log[a].gen = 0
    BY <2>2 DEF Unresolved, Requested
  <2>4. s.fact = "turnRequested"
    BY <1>4, <2>1, <2>3
  <2>5. QED BY <2>4 DEF Append, Admitted
<1>8. QED BY <1>5, <1>6, <1>7

\* A session has at most one unresolved attempt, whatever commands overlap:
\* two calls of begin_turn_core that both found the session idle are told apart
\* by the transaction that appends the request.
THEOREM TurnOneUnresolved == Spec => []OneUnresolved
<1>1. Init => OneUnresolved
  BY DEF Init, OneUnresolved, Unresolved, Requested, NoFacts
<1>2. TurnInv /\ OneUnresolved /\ [Next]_vars => OneUnresolved'
  <2> SUFFICES ASSUME TurnInv, OneUnresolved, [Next]_vars
               PROVE  OneUnresolved'
    OBVIOUS
  <2>1. CASE log' = log
    BY <2>1 DEF OneUnresolved, Unresolved, Requested, Committed
  <2>2. ASSUME NEW t \in Thread, Append(t)
        PROVE  OneUnresolved'
    <3>1. PICK a \in Attempt :
            /\ \A c \in Attempt : c # a => log'[c] = log[c]
            /\ Unresolved(a)' /\ ~Unresolved(a) =>
                 \A c \in Attempt : ~Unresolved(c)
      BY <2>2, AppendIs
    <3>2. \A c \in Attempt : c # a => (Unresolved(c)' <=> Unresolved(c))
      BY <3>1 DEF Unresolved, Requested, Committed
    <3>3. QED BY <3>1, <3>2 DEF OneUnresolved
  <2>3. QED BY <2>1, <2>2, OnlyAppendWritesLog
<1>3. QED BY <1>1, <1>2, TurnInvAlways, PTL DEF Spec

\* What an attempt was committed as never changes, whoever commits it again.
THEOREM TurnTerminalIsFinal == Spec => TerminalIsFinal
<1> DEFINE Final == \A a \in Attempt :
                      Committed(a) => log'[a].terminal = log[a].terminal
<1>1. TurnInv /\ [Next]_vars => [Final]_log
  <2> SUFFICES ASSUME TurnInv, [Next]_vars, log' # log
               PROVE  Final
    OBVIOUS
  <2>1. PICK t \in Thread : Append(t)
    BY OnlyAppendWritesLog
  <2>2. PICK a \in Attempt :
          /\ \A c \in Attempt : c # a => log'[c] = log[c]
          /\ Committed(a) => log'[a].terminal = log[a].terminal
    BY <2>1, AppendIs
  <2>3. QED BY <2>2
<1>2. QED BY <1>1, TurnInvAlways, PTL DEF Spec, TerminalIsFinal

-----------------------------------------------------------------------------
(* Without overlap: between its load and its store a thread is the only     *)
(* one that writes, so that its plan is still about the row it replaces.    *)

\* The ends of a dispatch that failed before the engine had the prompt.
NotSent == {"refused", "dispatch", "dispatchMissing"}

\* The steps from which the coordinator will forget the attempt.
Closing(s) ==
  \/ s.step \in {"remove", "clear"}
  \/ s.step = "recovery" /\ s.why = "native-missing"

\* The fact a thread is about to append goes with its step.
Fitting(s) ==
  /\ s.io = "load" => s.fact = NoFact
  /\ s.fact = "turnCommitted" => s.step \in {"commit", "rebuild"}
  /\ s.fact = "deliveryPrepared" => s.step = "prepare"
  /\ s.step = "commit" /\ s.io = "store" => s.fact = "turnCommitted"
  /\ s.step = "rebuild" => s.end = NoTerminal \/ s.fact = "turnCommitted"
  /\ s.step \in {"evidence", "forget"} => s.cmd = "abandon"
  /\ s.step = "sent" => s.fact = NoFact

\* A dispatch has a delivery, which is marked before its prompt is sent; the
\* failure of one keeps the engine without the prompt; and an attempt is
\* forgotten only when its end is committed, or nothing was sent.
Careful(s) ==
  /\ s.cmd = "dispatch" => Has(s.attempt, "deliveryPrepared")
  /\ s.step = "send" => ~PendingIs(s.attempt, "prepared")
  /\ s.end.by \in NotSent => /\ s.cmd = "dispatch"
                             /\ s.step \notin BeforeSend
                             /\ runtime[s.attempt] = "none"
  /\ Closing(s) => Committed(s.attempt) \/ s.end.by \in NotSent

Fresh(g) == \A a \in Attempt : log[a].gen # g

\* Nothing unresolved is left behind by a new generation of the binding.
Renews(s) ==
  \/ UnresolvedOn(s.binding) = {}
  \/ /\ s.fact = "turnCommitted" /\ s.end # NoTerminal
     /\ UnresolvedOn(s.binding) = {s.attempt}

\* A plan keeps the generation of the row or begins one that no attempt has,
\* and calls a delivery prepared only where the row does or prepare does.
Planned(s) ==
  LET r == row[s.binding] IN
  /\ \/ r # NoRow /\ s.plan.gen = r.gen
     \/ Renews(s) /\ Fresh(s.plan.gen)
  /\ \A a \in Attempt :
       s.plan.pending = PendingOf(a, "prepared") =>
         \/ r # NoRow /\ r.pending = s.plan.pending
         \/ s.fact = "deliveryPrepared" /\ s.attempt = a
  /\ s.step = "sent" => s.plan.pending = PendingOf(s.attempt, "sent")

Sound(s) ==
  /\ Fitting(s)
  /\ Careful(s)
  /\ s.io = "store" => Planned(s)

OneStorer == \A t, u \in Thread : Storing(t) /\ Storing(u) => t = u

\* A generation is in use only if it was drawn.
Drawn ==
  /\ \A a \in Attempt : log[a].gen <= gens
  /\ \A b \in Binding : row[b] # NoRow => row[b].gen <= gens
  /\ \A t \in Thread : Storing(t) => thread[t].plan.gen <= gens

UnresolvedIsCurrent == \A a \in Attempt : Unresolved(a) => Current(a)

SentWasPrepared ==
  \A a \in Attempt : runtime[a] # "none" => Has(a, "deliveryPrepared")

ThreadsSound == \A t \in Thread : Running(t) => Sound(thread[t])

SerialInv ==
  /\ OneStorer
  /\ Drawn
  /\ UnresolvedIsCurrent
  /\ SentWasPrepared
  /\ PreparedMeansUnsent
  /\ ThreadsSound

-----------------------------------------------------------------------------
(* Without overlap, and with no recovery command but cancel and mark.       *)

Count == Cardinality({a \in Attempt : Requested(a)})

\* The cursors of a row are not beyond what was requested, nor beyond the
\* place of the attempt that is unresolved.
Upto(r) ==
  /\ r.accepted <= Count /\ r.committed <= Count
  /\ \A a \in Attempt :
       Unresolved(a) => /\ r.accepted <= log[a].after
                        /\ r.committed <= log[a].after

\* A delivery is prepared once, while its attempt is unresolved; an attempt is
\* committed only after that.
Timely(s) ==
  /\ s.cmd \notin {"recover", "rebuild", "abandon"}
  /\ s.step = "prepare" => /\ s.cmd = "prepare"
                           /\ asked[s.attempt] = "prepare"
                           /\ Unresolved(s.attempt)
                           /\ ~Has(s.attempt, "deliveryPrepared")
  /\ s.step = "commit" => \/ asked[s.attempt] = "dispatch"
                          \/ Has(s.attempt, "deliveryPrepared")
                          \/ s.cmd = "prepare" /\ asked[s.attempt] # "nothing"

\* A pending delivery is of an unresolved attempt of the binding.
Belongs(p, b) == BindingOf[p.attempt] = b /\ Unresolved(p.attempt)

\* A plan takes no cursor back, and a commit leaves no delivery.
Forward(s) ==
  LET r == row[s.binding]
      p == s.plan.pending
  IN
  /\ Upto(s.plan)
  /\ r # NoRow => /\ s.plan.accepted >= r.accepted
                  /\ s.plan.committed >= r.committed
  /\ p # NoPending =>
       /\ Belongs(p, s.binding)
       /\ s.fact # "turnCommitted"
       /\ \/ Has(p.attempt, "deliveryPrepared")
          \/ s.fact = "deliveryPrepared" /\ p.attempt = s.attempt

Onward(s) == Timely(s) /\ (s.io = "store" => Forward(s))

OnePreparer ==
  \A t, u \in Thread :
    /\ Running(t) /\ Running(u)
    /\ thread[t].cmd = "prepare" /\ thread[u].cmd = "prepare"
    /\ thread[t].attempt = thread[u].attempt
    => t = u

FactsInOrder ==
  \A a \in Attempt :
    /\ asked[a] = "nothing" => ~Committed(a) /\ ~Has(a, "deliveryPrepared")
    /\ Committed(a) \/ Has(a, "deliveryPrepared") => Requested(a)
    /\ log[a].after <= Count
    /\ Unresolved(a) => \A c \in Attempt : log[c].after <= log[a].after

RowsInOrder ==
  \A b \in Binding :
    row[b] # NoRow =>
      /\ Upto(row[b])
      /\ row[b].pending # NoPending =>
           /\ Belongs(row[b].pending, b)
           /\ Has(row[b].pending.attempt, "deliveryPrepared")

ThreadsOnward == \A t \in Thread : Running(t) => Onward(thread[t])

\* Of the recovery commands, those that never replace an attempt or a binding.
MildRecovery == RecoveryCommand \subseteq {"cancel", "markRecovery"}

CursorInv ==
  /\ MildRecovery
  /\ OnePreparer
  /\ FactsInOrder
  /\ RowsInOrder
  /\ ThreadsOnward

-----------------------------------------------------------------------------
(* What a thread goes on with.                                             *)

\* x goes on from s at the load of a step, for the same attempt.
Loads(x, s) ==
  /\ x \in ThreadState
  /\ x.io = "load" /\ x.fact = NoFact
  /\ x.cmd = s.cmd /\ x.attempt = s.attempt

LEMMA LoadGoto ==
  ASSUME NEW s \in ThreadState, NEW step \in Step
  PROVE  LET x == Goto(s, step) IN
         Loads(x, s) /\ x.step = step /\ x.end = s.end /\ x.why = s.why
BY GotoFields DEF Loads

LEMMA LoadCommit ==
  ASSUME NEW s \in ThreadState, NEW outcome \in Outcome, NEW by \in Author
  PROVE  LET x == ToCommit(s, outcome, by) IN
         Loads(x, s) /\ x.step = "commit" /\ x.end.by = by
<1> DEFINE x == ToCommit(s, outcome, by)
<1>1. /\ x \in ThreadState /\ x.io = "load" /\ x.fact = NoFact
      /\ x.cmd = s.cmd /\ x.attempt = s.attempt /\ x.step = "commit"
      /\ x.end = [outcome |-> outcome, by |-> by]
  BY ToCommitFields
<1> HIDE DEF x
<1>2. QED BY <1>1 DEF Loads, x

LEMMA LoadRecovery ==
  ASSUME NEW s \in ThreadState, NEW why \in Reason
  PROVE  LET x == ToRecovery(s, why) IN
         Loads(x, s) /\ x.step = "recovery" /\ x.end = s.end /\ x.why = why
BY ToRecoveryFields DEF Loads

\* The step after a call returned, with the same end or an earlier failure.
Returns(x, s) ==
  /\ Loads(x, s)
  /\ x.step \notin {"prepare", "begin", "evidence", "forget"}
  /\ x.step = "send" => s.step = "sent"
  /\ x.step = "commit" => s.step = "prepare"
  /\ x.step = "rebuild" => x.end = NoTerminal
  /\ x.step \in BeforeSend => s.step \in BeforeSend
  /\ x.end = s.end \/ (x.end.by \notin NotSent /\ ~Closing(x))

\* What lets the coordinator forget the attempt after a result.
Clears(s, result) ==
  \/ Closing(s)
  \/ s.end.by \in NotSent
  \/ s.step \in {"commit", "rebuild"} /\ result = "ok" /\ s.end # NoTerminal
  \/ s.step = "commit" /\ result = "stale" /\ s.end.by = "runtime"

LEMMA GotoReturns ==
  ASSUME NEW s \in ThreadState,
         NEW step \in {"create", "sent", "send", "trust", "acceptTurn", "drain",
                       "remove", "clear"},
         step = "send" => s.step = "sent",
         step \in BeforeSend => s.step \in BeforeSend
  PROVE  Returns(Goto(s, step), s)
<1> DEFINE x == Goto(s, step)
<1>1. step \in Step
  BY DEF Step
<1>2. Loads(x, s) /\ x.step = step /\ x.end = s.end
  BY <1>1, LoadGoto
<1> HIDE DEF x
<1>3. QED BY <1>2 DEF Returns, x

LEMMA RecoveryReturns ==
  ASSUME NEW s \in ThreadState, NEW why \in Reason
  PROVE  Returns(ToRecovery(s, why), s)
<1> DEFINE x == ToRecovery(s, why)
<1>1. Loads(x, s) /\ x.step = "recovery" /\ x.end = s.end
  BY LoadRecovery
<1> HIDE DEF x
<1>2. QED BY <1>1 DEF Returns, BeforeSend, x

LEMMA AfterCommitReturns ==
  ASSUME NEW s \in ThreadState, s.step = "commit",
         NEW result \in {"ok", "error", "stale"}
  PROVE  LET x == AfterCommit(s, result) IN
         x = Idle \/ (Returns(x, s) /\ (Closing(x) => Clears(s, result)))
<1> DEFINE r == [s EXCEPT !.good = (result = "ok")]
           x == AfterCommit(s, result)
           remove == Goto(r, "remove")
           clear == Goto(r, "clear")
           missing == ToRecovery(r, "native-missing")
           failed == ToRecovery(r, "commit-failed")
<1>1. /\ r \in ThreadState /\ r.cmd = s.cmd /\ r.attempt = s.attempt
      /\ r.step = s.step /\ r.end = s.end /\ r.good = (result = "ok")
  BY DEF ThreadState
<1>2. \/ x \in {failed, Idle}
      \/ /\ x \in {remove, clear, missing}
         /\ s.end.by # "nobody"
         /\ \/ s.end.by \in NotSent
            \/ result = "ok"
            \/ result = "stale" /\ s.end.by = "runtime"
  <2>1. CASE s.end.by = "runtime"
    BY <2>1 DEF AfterCommit, CommitFailed
  <2>2. CASE s.end.by \in NotSent
    BY <2>2 DEF AfterCommit, CommitFailed, NotSent
  <2>3. CASE s.end.by = "probe"
    BY <1>1, <2>3 DEF AfterCommit, CommitFailed
  <2>4. CASE s.end.by = "abandon"
    BY <1>1, <2>4 DEF AfterCommit, CommitFailed
  <2>5. CASE s.end.by \notin {"runtime", "probe", "abandon"} \cup NotSent
    BY <2>5 DEF AfterCommit, CommitFailed, NotSent
  <2>6. QED BY <2>1, <2>2, <2>3, <2>4, <2>5
<1> HIDE DEF x
<1>3. /\ Returns(remove, r) /\ Returns(clear, r)
      /\ Returns(missing, r) /\ Returns(failed, r)
  <2>1. {"native-missing", "commit-failed"} \subseteq Reason
    BY DEF Reason
  <2>2. {"remove", "clear"} \cap BeforeSend = {}
    BY DEF BeforeSend
  <2> HIDE DEF r
  <2>3. QED BY <1>1, <2>1, <2>2, GotoReturns, RecoveryReturns
<1>4. ASSUME NEW y, Returns(y, r)
      PROVE  Returns(y, s)
  <2> HIDE DEF r
  <2>1. QED BY <1>1, <1>4 DEF Returns, Loads
<1>5. ~Closing(failed)
  <2>1. "commit-failed" \in Reason
    BY DEF Reason
  <2> HIDE DEF r
  <2>2. failed.step = "recovery" /\ failed.why = "commit-failed"
    BY <1>1, <2>1, LoadRecovery
  <2>3. QED BY <2>2 DEF Closing
<1>6. \/ x \in {failed, Idle}
      \/ x \in {remove, clear, missing} /\ Clears(s, result)
  <2>1. s.end.by # "nobody" => s.end # NoTerminal
    BY DEF NoTerminal
  <2> HIDE DEF remove, clear, missing, failed
  <2>2. QED BY <1>2, <2>1 DEF Clears
<1> HIDE DEF remove, clear, missing, failed, r
<1>7. \A y \in {remove, clear, missing, failed} : Returns(y, s)
  BY <1>3, <1>4
<1>8. QED BY <1>5, <1>6, <1>7 DEF x

LEMMA AfterReturns ==
  ASSUME NEW s \in ThreadState, NEW result \in {"ok", "error", "stale"}
  PROVE  LET x == After(s, result) IN
         x = Idle \/ (Returns(x, s) /\ (Closing(x) => Clears(s, result)))
<1> DEFINE x == After(s, result)
           OK(y) == y = Idle
                      \/ (Returns(y, s) /\ (Closing(y) => Clears(s, result)))
<1>1. CASE s.step = "commit"
  <2>1. x = AfterCommit(s, result)
    BY <1>1 DEF After
  <2>2. QED BY <1>1, <2>1, AfterCommitReturns
<1>2. CASE s.step = "recovery"
  <2>1. x = Idle \/ (s.why = "native-missing" /\ x = Goto(s, "remove"))
    BY <1>2 DEF After, AfterRecovery
  <2>2. "remove" \notin BeforeSend
    BY DEF BeforeSend
  <2>3. s.why = "native-missing" => Clears(s, result)
    BY <1>2 DEF Clears, Closing
  <2>4. Returns(Goto(s, "remove"), s)
    BY <2>2, GotoReturns
  <2>5. QED BY <2>1, <2>3, <2>4
<1>3. CASE s.step = "remove"
  <2>1. Clears(s, result)
    BY <1>3 DEF Clears, Closing
  <2>2. \/ x = Idle \/ x = Goto(s, "clear")
        \/ x = ToRebuild(s) /\ s.cmd = "rebuild"
    <3>1. x = AfterRemove(s)
      BY <1>3 DEF After
    <3>2. QED BY <3>1, AfterRemoveCases
  <2>3. Returns(Goto(s, "clear"), s)
    BY GotoReturns DEF BeforeSend
  <2>4. Returns(ToRebuild(s), s)
    <3> DEFINE g == Goto(s, "rebuild")
               h == [g EXCEPT !.end = NoTerminal]
    <3>1. "rebuild" \in Step /\ "rebuild" \notin BeforeSend
      BY DEF Step, BeforeSend
    <3>2. Loads(g, s) /\ g.step = "rebuild"
      BY <3>1, LoadGoto
    <3> HIDE DEF g
    <3>3. Loads(h, s) /\ h.step = "rebuild" /\ h.end = NoTerminal
      BY <3>2 DEF Loads, ThreadState
    <3> HIDE DEF h
    <3>4. h.end.by \notin NotSent /\ ~Closing(h)
      BY <3>3 DEF NotSent, NoTerminal, Closing
    <3>5. Returns(h, s)
      BY <3>1, <3>3, <3>4 DEF Returns
    <3>6. QED BY <3>5 DEF h, g, ToRebuild
  <2>5. QED BY <2>1, <2>2, <2>3, <2>4
<1>4. CASE s.step = "prepare"
  <2>1. x \in {Idle, ToCommit(s, "failed", "prepare")}
    BY <1>4 DEF After
  <2>2. "failed" \in Outcome /\ "prepare" \in Author
    BY DEF Outcome, Author
  <2> DEFINE y == ToCommit(s, "failed", "prepare")
  <2>3. Loads(y, s) /\ y.step = "commit" /\ y.end.by = "prepare"
    BY <2>2, LoadCommit
  <2> HIDE DEF y
  <2>4. Returns(y, s) /\ ~Closing(y)
    BY <1>4, <2>3 DEF Returns, Closing, NotSent, BeforeSend
  <2>5. QED BY <2>1, <2>4 DEF y
<1>5. CASE s.step \notin {"commit", "recovery", "remove", "prepare"}
  <2>1. \/ x = Idle
        \/ s.step = "creating" /\ x = Goto(s, "create")
        \/ s.step = "create" /\ x = Goto(s, "sent")
        \/ s.step = "sent" /\ x = Goto(s, "send")
        \/ x = Goto(s, "trust")
        \/ x = Goto(s, "acceptTurn")
        \/ x = Goto(s, "drain")
        \/ x = ToRecovery(s, "ambiguous")
        \/ s.step = "rebuild" /\ result = "ok" /\ s.end # NoTerminal
             /\ x = Goto(s, "remove")
        \/ s.step = "clear" /\ x = Goto(s, "remove")
    BY <1>5 DEF After
  <2>2. ASSUME NEW step \in {"create", "sent", "send", "trust", "acceptTurn",
                             "drain"},
               step = "send" => s.step = "sent",
               step \in BeforeSend => s.step \in BeforeSend
        PROVE  Returns(Goto(s, step), s) /\ ~Closing(Goto(s, step))
    <3> DEFINE g == Goto(s, step)
    <3>1. Returns(g, s)
      BY <2>2, GotoReturns
    <3>2. g.step = step
      BY LoadGoto DEF Step
    <3> HIDE DEF g
    <3>3. ~Closing(g)
      BY <3>2 DEF Closing
    <3>4. QED BY <3>1, <3>3 DEF g
  <2>3. s.step = "creating" =>
          Returns(Goto(s, "create"), s) /\ ~Closing(Goto(s, "create"))
    BY <2>2 DEF BeforeSend
  <2>4. s.step = "create" =>
          Returns(Goto(s, "sent"), s) /\ ~Closing(Goto(s, "sent"))
    BY <2>2 DEF BeforeSend
  <2>5. s.step = "sent" =>
          Returns(Goto(s, "send"), s) /\ ~Closing(Goto(s, "send"))
    BY <2>2 DEF BeforeSend
  <2>6. \A step \in {"trust", "acceptTurn", "drain"} :
          Returns(Goto(s, step), s) /\ ~Closing(Goto(s, step))
    BY <2>2 DEF BeforeSend
  <2>7. /\ Returns(ToRecovery(s, "ambiguous"), s)
        /\ ~Closing(ToRecovery(s, "ambiguous"))
    <3> DEFINE g == ToRecovery(s, "ambiguous")
    <3>1. "ambiguous" \in Reason
      BY DEF Reason
    <3>2. Returns(g, s) /\ g.step = "recovery" /\ g.why = "ambiguous"
      BY <3>1, RecoveryReturns, LoadRecovery
    <3> HIDE DEF g
    <3>3. ~Closing(g)
      BY <3>2 DEF Closing
    <3>4. QED BY <3>2, <3>3 DEF g
  <2>8. Returns(Goto(s, "remove"), s)
    BY GotoReturns DEF BeforeSend
  <2>9. /\ s.step = "rebuild" /\ result = "ok" /\ s.end # NoTerminal
             => Clears(s, result)
        /\ s.step = "clear" => Clears(s, result)
    BY DEF Clears, Closing
  <2> HIDE DEF x
  <2>10. QED BY <2>1, <2>3, <2>4, <2>5, <2>6, <2>7, <2>8, <2>9 DEF x
<1>6. QED BY <1>1, <1>2, <1>3, <1>4, <1>5

-----------------------------------------------------------------------------
(* What a thread may become, with the store as it is.                      *)

Prepares(t, a) ==
  Running(t) /\ thread[t].cmd = "prepare" /\ thread[t].attempt = a

Fits(t, x, g) ==
  \/ x = Idle
  \/ /\ x \in ThreadState
     /\ Sound(x)
     /\ CursorInv => Onward(x)
     /\ x.cmd = "prepare" => Prepares(t, x.attempt)
     /\ x.io = "store" => x.plan.gen <= g /\ \A u \in Thread : ~Storing(u)

LEMMA SoundThread ==
  ASSUME TurnInv, SerialInv, NEW t \in Thread, Running(t), NEW s,
         s = thread[t]
  PROVE  /\ s \in ThreadState /\ Shaped(s) /\ Grounded(s)
         /\ s.attempt \in Attempt /\ s.binding \in Binding
         /\ Fitting(s) /\ Careful(s)
         /\ s.io = "store" => Planned(s)
         /\ CursorInv => Timely(s) /\ (s.io = "store" => Forward(s))
<1>1. s \in ThreadState /\ Shaped(s) /\ Grounded(s)
      /\ s.attempt \in Attempt /\ s.binding \in Binding
  BY RunningThread
<1>2. Sound(s)
  BY DEF SerialInv, ThreadsSound
<1>3. CursorInv => Onward(s)
  BY DEF CursorInv, ThreadsOnward
<1>4. QED BY <1>1, <1>2, <1>3 DEF Sound, Onward

\* The step after s that does not send and has nothing to forget.
Resumes(x, s) ==
  /\ Loads(x, s)
  /\ x.step \notin {"send", "prepare", "begin"}
  /\ ~Closing(x)
  /\ x.step = "rebuild" => x.end = NoTerminal
  /\ x.step \in {"evidence", "forget"} => s.cmd = "abandon"
  /\ \/ x.end = s.end /\ (x.step \in BeforeSend => s.step \in BeforeSend)
     \/ x.end.by \notin NotSent
     \/ s.step \in BeforeSend /\ x.step \notin BeforeSend
  /\ x.step = "commit" =>
       \/ s.step = "prepare"
       \/ asked[s.attempt] = "dispatch"
       \/ s.cmd = "abandon"

LEMMA ResumeFits ==
  ASSUME TurnInv, SerialInv, NEW t \in Thread, Running(t), NEW s,
         s = thread[t], NEW x, Resumes(x, s)
  PROVE  Fits(t, x, gens)
<1>1. /\ s \in ThreadState /\ Shaped(s) /\ Grounded(s) /\ s.attempt \in Attempt
      /\ Fitting(s) /\ Careful(s)
      /\ CursorInv => Timely(s)
  BY SoundThread
<1>2. /\ x \in ThreadState /\ x.io = "load" /\ x.fact = NoFact
      /\ x.cmd = s.cmd /\ x.attempt = s.attempt
  BY DEF Resumes, Loads
<1>3. Fitting(x)
  <2>1. NoFact \notin {"turnCommitted", "deliveryPrepared"}
    BY DEF NoFact
  <2>2. QED BY <1>2, <2>1 DEF Fitting, Resumes
<1>4. Careful(x)
  <2>1. x.cmd = "dispatch" => Has(x.attempt, "deliveryPrepared")
    BY <1>1, <1>2 DEF Careful
  <2>2. x.end.by \in NotSent => /\ x.cmd = "dispatch"
                                /\ x.step \notin BeforeSend
                                /\ runtime[x.attempt] = "none"
    <3>1. s.step \in BeforeSend => /\ s.cmd = "dispatch"
                                   /\ runtime[s.attempt] = "none"
      BY <1>1 DEF Shaped, Grounded
    <3>2. s.end.by \in NotSent => /\ s.cmd = "dispatch"
                                  /\ s.step \notin BeforeSend
                                  /\ runtime[s.attempt] = "none"
      BY <1>1 DEF Careful
    <3>3. QED BY <1>2, <3>1, <3>2 DEF Resumes
  <2>3. QED BY <2>1, <2>2 DEF Careful, Resumes
<1>5. CursorInv => Timely(x)
  <2> SUFFICES ASSUME CursorInv PROVE Timely(x)
    OBVIOUS
  <2>1. Timely(s)
    BY <1>1
  <2>2. x.step = "commit" => \/ asked[x.attempt] = "dispatch"
                             \/ x.cmd = "prepare" /\ asked[x.attempt] # "nothing"
    BY <1>1, <1>2, <2>1 DEF Timely, Resumes, Grounded
  <2>3. QED BY <1>2, <2>1, <2>2 DEF Timely, Resumes
<1>6. x.cmd = "prepare" => Prepares(t, x.attempt)
  BY <1>2 DEF Prepares
<1>7. QED
  BY <1>2, <1>3, <1>4, <1>5, <1>6 DEF Fits, Sound, Onward

\* The step after a call that wrote nothing.
LEMMA ReturnFits ==
  ASSUME TurnInv, SerialInv, NEW t \in Thread, Running(t), NEW s,
         s = thread[t], s.step # "sent",
         NEW result \in {"ok", "error", "stale"},
         Clears(s, result) => Committed(s.attempt) \/ s.end.by \in NotSent
  PROVE  Fits(t, After(s, result), gens)
<1> DEFINE x == After(s, result)
<1>1. /\ s \in ThreadState /\ Shaped(s) /\ Grounded(s)
      /\ Fitting(s) /\ Careful(s)
      /\ CursorInv => Timely(s)
  BY SoundThread
<1>2. x = Idle \/ (Returns(x, s) /\ (Closing(x) => Clears(s, result)))
  BY <1>1, AfterReturns
<1> HIDE DEF x
<1>3. CASE x = Idle
  BY <1>3 DEF Fits, x
<1>4. ASSUME Returns(x, s), Closing(x) => Clears(s, result)
      PROVE  Fits(t, x, gens)
  <2>1. /\ x \in ThreadState /\ x.io = "load" /\ x.fact = NoFact
        /\ x.cmd = s.cmd /\ x.attempt = s.attempt
    BY <1>4 DEF Returns, Loads
  <2>2. Fitting(x)
    <3>1. NoFact \notin {"turnCommitted", "deliveryPrepared"}
      BY DEF NoFact
    <3>2. QED BY <1>4, <2>1, <3>1 DEF Fitting, Returns
  <2>3. Careful(x)
    <3>1. x.cmd = "dispatch" => Has(x.attempt, "deliveryPrepared")
      BY <1>1, <2>1 DEF Careful
    <3>2. x.step # "send"
      BY <1>4 DEF Returns
    <3>3. x.end.by \in NotSent => /\ x.cmd = "dispatch"
                                  /\ x.step \notin BeforeSend
                                  /\ runtime[x.attempt] = "none"
      BY <1>1, <1>4, <2>1 DEF Careful, Returns
    <3>4. Closing(x) => Committed(x.attempt) \/ x.end.by \in NotSent
      BY <1>4, <2>1 DEF Returns
    <3>5. QED BY <3>1, <3>2, <3>3, <3>4 DEF Careful
  <2>4. CursorInv => Timely(x)
    BY <1>1, <1>4, <2>1 DEF Timely, Returns
  <2>5. x.cmd = "prepare" => Prepares(t, x.attempt)
    BY <2>1 DEF Prepares
  <2>6. QED
    BY <2>1, <2>2, <2>3, <2>4, <2>5 DEF Fits, Sound, Onward
<1>5. QED BY <1>2, <1>3, <1>4 DEF x

\* A thread that has made a plan.
LEMMA PlanFits ==
  ASSUME TurnInv, SerialInv, Serial, MayLoad, NEW t \in Thread, Running(t),
         NEW s, s = thread[t], NEW new \in Row, NEW fact \in FactType,
         NEW x, x = Plan(s, new, fact),
         NEW g, new.gen <= g,
         Fitting(x), Planned(x), CursorInv => Forward(x)
  PROVE  Fits(t, x, g)
<1>1. /\ s \in ThreadState /\ Careful(s)
      /\ CursorInv => Timely(s)
  BY SoundThread
<1>2. /\ x \in ThreadState
      /\ x.cmd = s.cmd /\ x.step = s.step /\ x.io = "store"
      /\ x.attempt = s.attempt /\ x.end = s.end /\ x.why = s.why
      /\ x.plan = new
  BY <1>1, PlanFields
<1>3. Careful(x)
  BY <1>1, <1>2 DEF Careful, Closing
<1>4. CursorInv => Timely(x)
  BY <1>1, <1>2 DEF Timely
<1>5. x.cmd = "prepare" => Prepares(t, x.attempt)
  BY <1>2 DEF Prepares
<1>6. QED
  BY <1>2, <1>3, <1>4, <1>5 DEF Fits, Sound, Onward, MayLoad

-----------------------------------------------------------------------------
(* Steps that leave the facts and the rows alone.                          *)

KeepsSerial == SerialInv' /\ (CursorInv => CursorInv')

LEMMA ThreadsAfter ==
  ASSUME TurnInv, NEW t \in Thread, NEW x, Become(t, x)
  PROVE  /\ thread'[t] = x
         /\ \A u \in Thread : u # t => thread'[u] = thread[u]
         /\ \A u \in Thread : u # t => (Running(u)' <=> Running(u))
         /\ \A u \in Thread : u # t => (Storing(u)' <=> Storing(u))
         /\ Running(t)' <=> x # Idle
         /\ Storing(t)' <=> x # Idle /\ x.io = "store"
<1>1. /\ thread'[t] = x
      /\ \A u \in Thread : u # t => thread'[u] = thread[u]
  BY DEF Become, TurnInv, TypeOK
<1>2. QED BY <1>1 DEF Running, Storing

\* The writing side of the invariant, when only one more plan is made.
LEMMA QuietStore ==
  ASSUME TurnInv, SerialInv, NEW t \in Thread, NEW x, Become(t, x),
         x = Idle \/ (x.io = "store" =>
                        /\ x.plan.gen <= gens'
                        /\ \A u \in Thread : ~Storing(u)),
         UNCHANGED <<log, row>>, gens' \in Nat, gens <= gens'
  PROVE  OneStorer' /\ Drawn' /\ UnresolvedIsCurrent'
<1>1. OneStorer'
  BY ThreadsAfter DEF OneStorer, SerialInv
<1>2. Drawn'
  <2>1. gens \in Nat /\ \A a \in Attempt : log[a].gen \in Nat
    BY FactsOf DEF TurnInv, TypeOK
  <2>2. \A a \in Attempt : log'[a].gen <= gens'
    BY <2>1 DEF SerialInv, Drawn
  <2>3. \A b \in Binding : row'[b] # NoRow => row'[b].gen <= gens'
    <3> SUFFICES ASSUME NEW b \in Binding, row[b] # NoRow
                 PROVE  row[b].gen <= gens'
      OBVIOUS
    <3>1. row[b].gen \in Nat
      BY DEF TurnInv, TypeOK, Row
    <3>2. row[b].gen <= gens
      BY DEF SerialInv, Drawn
    <3>3. QED BY <2>1, <3>1, <3>2
  <2>4. ASSUME NEW u \in Thread, Storing(u)'
        PROVE  thread'[u].plan.gen <= gens'
    <3>1. CASE u = t
      BY <2>4, <3>1, ThreadsAfter
    <3>2. CASE u # t
      <4>1. Storing(u) /\ thread'[u] = thread[u]
        BY <2>4, <3>2, ThreadsAfter
      <4>2. thread[u].plan \in Row
        BY <4>1, RunningThread DEF Storing, Shaped
      <4>3. thread[u].plan.gen \in Nat
        BY <4>2 DEF Row
      <4>4. thread[u].plan.gen <= gens
        BY <4>1 DEF SerialInv, Drawn
      <4>5. QED BY <2>1, <4>1, <4>3, <4>4
    <3>3. QED BY <3>1, <3>2
  <2>5. QED BY <2>2, <2>3, <2>4 DEF Drawn
<1>3. UnresolvedIsCurrent'
  BY DEF SerialInv, UnresolvedIsCurrent, Unresolved, Requested, Committed,
         Current
<1>4. QED BY <1>1, <1>2, <1>3

LEMMA SoundStays ==
  ASSUME NEW s, Sound(s), UNCHANGED <<log, row>>,
         s.end.by \in NotSent /\ runtime[s.attempt] = "none"
           => runtime'[s.attempt] = "none"
  PROVE  Sound(s)'
<1>1. Careful(s)'
  BY DEF Sound, Careful, Has, PendingIs, Committed
<1>2. (s.io = "store" => Planned(s))'
  BY DEF Sound, Planned, Renews, Fresh, UnresolvedOn, Unresolved, Requested,
         Committed
<1>3. QED BY <1>1, <1>2 DEF Sound, Fitting

LEMMA OnwardStays ==
  ASSUME NEW s, Onward(s), UNCHANGED <<log, row, asked>>
  PROVE  Onward(s)'
<1>1. Timely(s)'
  BY DEF Onward, Timely, Unresolved, Requested, Committed, Has
<1>2. Count' = Count
  BY DEF Count, Requested
<1>3. \A a \in Attempt : Unresolved(a)' <=> Unresolved(a)
  BY DEF Unresolved, Requested, Committed
<1>4. (s.io = "store" => Forward(s))'
  <2>1. Upto(s.plan)' <=> Upto(s.plan)
    BY <1>2, <1>3 DEF Upto
  <2>2. Belongs(s.plan.pending, s.binding)' <=>
          Belongs(s.plan.pending, s.binding)
    BY DEF Belongs, Unresolved, Requested, Committed
  <2>3. QED BY <2>1, <2>2 DEF Onward, Forward, Has
<1>5. QED BY <1>1, <1>4 DEF Onward

\* The invariant of the cursors, when no more than one thread moves on.
LEMMA QuietCursors ==
  ASSUME TurnInv, CursorInv, NEW t \in Thread, NEW x, Become(t, x),
         \/ x = Idle
         \/ Onward(x)' /\ (x.cmd = "prepare" => Prepares(t, x.attempt)),
         UNCHANGED <<log, row, asked>>
  PROVE  CursorInv'
<1>1. OnePreparer'
  <2> SUFFICES ASSUME NEW u \in Thread, NEW v \in Thread,
                      Running(u)', Running(v)',
                      thread'[u].cmd = "prepare", thread'[v].cmd = "prepare",
                      thread'[u].attempt = thread'[v].attempt
               PROVE  u = v
    BY DEF OnePreparer
  <2>1. ASSUME NEW w \in {u, v}
        PROVE  Prepares(w, thread'[w].attempt)
    BY <2>1, ThreadsAfter DEF Prepares
  <2>2. Prepares(u, thread'[u].attempt) /\ Prepares(v, thread'[v].attempt)
    BY <2>1
  <2>3. QED BY <2>2 DEF Prepares, CursorInv, OnePreparer
<1>2. Count' = Count
  BY DEF Count, Requested
<1>3. /\ \A a \in Attempt : /\ Unresolved(a)' <=> Unresolved(a)
                            /\ Requested(a)' <=> Requested(a)
                            /\ Committed(a)' <=> Committed(a)
      /\ \A a \in Attempt, f \in Milestone : Has(a, f)' <=> Has(a, f)
  BY DEF Unresolved, Requested, Committed, Has
<1>4. FactsInOrder'
  <2>1. \A a \in Attempt :
          Has(a, "deliveryPrepared")' <=> Has(a, "deliveryPrepared")
    BY DEF Has
  <2>2. QED BY <1>2, <1>3, <2>1 DEF CursorInv, FactsInOrder
<1>5. RowsInOrder'
  <2> SUFFICES ASSUME NEW b \in Binding, row[b] # NoRow
               PROVE  (/\ Upto(row[b])
                       /\ row[b].pending # NoPending =>
                            /\ Belongs(row[b].pending, b)
                            /\ Has(row[b].pending.attempt,
                                   "deliveryPrepared"))'
    BY DEF RowsInOrder
  <2>1. Upto(row[b])' <=> Upto(row[b])
    BY <1>2, <1>3 DEF Upto
  <2>2. Belongs(row[b].pending, b)' <=> Belongs(row[b].pending, b)
    BY DEF Belongs, Unresolved, Requested, Committed
  <2>3. QED BY <2>1, <2>2 DEF CursorInv, RowsInOrder, Has
<1>6. ThreadsOnward'
  <2> SUFFICES ASSUME NEW u \in Thread, Running(u)'
               PROVE  Onward(thread[u])'
    BY DEF ThreadsOnward
  <2>1. PICK s : s = thread'[u]
    OBVIOUS
  <2>2. CASE u = t
    <3>1. s = x /\ x # Idle
      BY <2>1, <2>2, ThreadsAfter
    <3>2. Onward(s)'
      BY <3>1
    <3>3. QED BY <2>1, <3>2
  <2>3. CASE u # t
    <3>1. s = thread[u] /\ Running(u)
      BY <2>1, <2>3, ThreadsAfter
    <3>2. Onward(s)
      BY <3>1 DEF CursorInv, ThreadsOnward
    <3>3. Onward(s)'
      BY <3>2, OnwardStays
    <3>4. QED BY <2>1, <3>3
  <2>4. QED BY <2>2, <2>3
<1>7. QED BY <1>1, <1>4, <1>5, <1>6 DEF CursorInv, MildRecovery

LEMMA QuietSerial ==
  ASSUME TurnInv, SerialInv, NEW t \in Thread, NEW x, Become(t, x),
         NEW g, g = gens', Fits(t, x, g),
         UNCHANGED <<log, row, runtime, asked>>, gens' \in Nat, gens <= gens'
  PROVE  KeepsSerial
<1>1. OneStorer' /\ Drawn' /\ UnresolvedIsCurrent'
  BY QuietStore DEF Fits
<1>2. SentWasPrepared' /\ PreparedMeansUnsent'
  BY DEF SerialInv, SentWasPrepared, PreparedMeansUnsent, Has, PendingIs
<1>3. ThreadsSound'
  <2> SUFFICES ASSUME NEW u \in Thread, Running(u)'
               PROVE  Sound(thread[u])'
    BY DEF ThreadsSound
  <2>1. PICK s : s = thread'[u]
    OBVIOUS
  <2>2. Sound(s)
    <3>1. CASE u = t
      BY <2>1, <3>1, ThreadsAfter DEF Fits
    <3>2. CASE u # t
      BY <2>1, <3>2, ThreadsAfter DEF SerialInv, ThreadsSound
    <3>3. QED BY <3>1, <3>2
  <2>3. Sound(s)'
    BY <2>2, SoundStays
  <2>4. QED BY <2>1, <2>3
<1>4. SerialInv'
  BY <1>1, <1>2, <1>3 DEF SerialInv
<1>5. ASSUME CursorInv
      PROVE  CursorInv'
  <2>1. x = Idle \/ (Onward(x)' /\ (x.cmd = "prepare" => Prepares(t, x.attempt)))
    BY <1>5, OnwardStays DEF Fits
  <2>2. QED BY <1>5, <2>1, QuietCursors
<1>6. QED BY <1>4, <1>5 DEF KeepsSerial

LEMMA OnlySerial ==
  ASSUME TurnInv, SerialInv, NEW t \in Thread, NEW x, Only(t, x),
         Fits(t, x, gens)
  PROVE  KeepsSerial
<1>1. /\ Become(t, x) /\ UNCHANGED <<log, row, runtime, asked>> /\ gens' = gens
      /\ gens \in Nat
  BY DEF Only, store, TurnInv, TypeOK
<1>2. QED BY <1>1, QuietSerial

-----------------------------------------------------------------------------
(* The steps of the commands.                                              *)

\* A plan that keeps the generation of the row it loaded.
LEMMA RowPlan ==
  ASSUME TurnInv, SerialInv, Serial, MayLoad, NEW t \in Thread, Running(t),
         NEW s, s = thread[t], NEW r \in Row, r = row[s.binding],
         NEW new \in Row, NEW fact \in FactType,
         new.gen = r.gen,
         \A a \in Attempt : new.pending = PendingOf(a, "prepared") =>
           \/ new.pending = r.pending
           \/ fact = "deliveryPrepared" /\ s.attempt = a,
         s.step = "sent" => /\ new.pending = PendingOf(s.attempt, "sent")
                            /\ fact = NoFact,
         fact = "turnCommitted" <=> s.step = "commit",
         fact = "deliveryPrepared" => s.step = "prepare",
         s.step \notin {"rebuild", "evidence", "forget"},
         CursorInv =>
           /\ \/ new.accepted = r.accepted
              \/ Unresolved(s.attempt) /\ new.accepted = log[s.attempt].after
           /\ \/ new.committed = r.committed
              \/ Unresolved(s.attempt) /\ new.committed = log[s.attempt].after
           /\ \/ new.pending = NoPending
              \/ new.pending = r.pending /\ fact # "turnCommitted"
              \/ /\ new.pending.attempt = s.attempt /\ fact # "turnCommitted"
                 /\ Belongs(new.pending, s.binding)
                 /\ \/ Has(s.attempt, "deliveryPrepared")
                    \/ fact = "deliveryPrepared"
  PROVE  LET x == Plan(s, new, fact) IN Fits(t, x, gens)
<1> DEFINE x == Plan(s, new, fact)
<1>1. /\ s \in ThreadState /\ s.attempt \in Attempt /\ s.binding \in Binding
      /\ Fitting(s)
  BY SoundThread
<1>2. /\ x.step = s.step /\ x.io = "store" /\ x.attempt = s.attempt
      /\ x.binding = s.binding /\ x.plan = new /\ x.fact = fact
      /\ x.cmd = s.cmd
  BY <1>1, PlanFields
<1>3. r # NoRow
  BY Sentinels
<1>4. new.gen <= gens
  BY <1>1, <1>2, <1>3 DEF SerialInv, Drawn
<1> HIDE DEF x
<1>5. Fitting(x)
  BY <1>1, <1>2 DEF Fitting, NoFact
<1>6. Planned(x)
  BY <1>2, <1>3 DEF Planned
<1>7. ASSUME CursorInv
      PROVE  Forward(x)
  <2>1. /\ Upto(r)
        /\ r.pending # NoPending =>
             /\ Belongs(r.pending, s.binding)
             /\ Has(r.pending.attempt, "deliveryPrepared")
    BY <1>1, <1>3, <1>7 DEF CursorInv, RowsInOrder
  <2>2. Unresolved(s.attempt) =>
          /\ r.accepted <= log[s.attempt].after
          /\ r.committed <= log[s.attempt].after
          /\ log[s.attempt].after <= Count
          /\ \A c \in Attempt :
               Unresolved(c) => log[s.attempt].after <= log[c].after
    BY <1>1, <1>7, <2>1 DEF CursorInv, FactsInOrder, Upto
  <2>3. Upto(new)
    BY <1>7, <2>1, <2>2 DEF Upto
  <2>4. new.accepted >= r.accepted /\ new.committed >= r.committed
    <3>1. r.accepted \in Nat /\ r.committed \in Nat
          /\ log[s.attempt].after \in Nat
      BY <1>1, FactsOf DEF Row
    <3>2. QED BY <1>7, <2>2, <3>1
  <2>5. new.pending # NoPending =>
          /\ Belongs(new.pending, s.binding)
          /\ fact # "turnCommitted"
          /\ \/ Has(new.pending.attempt, "deliveryPrepared")
             \/ fact = "deliveryPrepared" /\ new.pending.attempt = s.attempt
    BY <1>7, <2>1
  <2>6. QED BY <1>2, <2>3, <2>4, <2>5 DEF Forward
<1>8. QED BY <1>4, <1>5, <1>6, <1>7, PlanFits DEF x

\* Where a step starts from.
LEMMA Starts ==
  ASSUME TurnInv, SerialInv, NEW t \in Thread, NEW step, At(t, step),
         step \notin {"begin", "recovery"}, NEW s, s = thread[t]
  PROVE  /\ Running(t) /\ s.step = step /\ s \in ThreadState
         /\ s.attempt \in Attempt /\ s.binding = BindingOf[s.attempt]
         /\ s.binding \in Binding /\ row[s.binding] \in Row
         /\ row[s.binding] # NoRow
         /\ Fits(t, ToRecovery(s, "ambiguous"), gens)
         /\ Fits(t, Idle, gens)
<1>1. /\ Running(t) /\ s.step = step /\ s \in ThreadState
      /\ s.attempt \in Attempt /\ s.binding = BindingOf[s.attempt]
      /\ s.binding \in Binding /\ row[s.binding] \in Row
  BY DispatchStep
<1>2. Fits(t, ToRecovery(s, "ambiguous"), gens)
  <2> DEFINE x == ToRecovery(s, "ambiguous")
  <2>1. "ambiguous" \in Reason
    BY Words
  <2>2. /\ Loads(x, s) /\ x.step = "recovery" /\ x.end = s.end
        /\ x.why = "ambiguous"
    BY <1>1, <2>1, LoadRecovery
  <2> HIDE DEF x
  <2>3. Resumes(x, s)
    BY <2>2 DEF Resumes, Closing, BeforeSend
  <2>4. QED BY <1>1, <2>3, ResumeFits DEF x
<1>3. QED BY <1>1, <1>2, Sentinels DEF Fits

\* A step of a command that goes on without a plan.
LEMMA GotoFits ==
  ASSUME TurnInv, SerialInv, NEW t \in Thread, NEW step, At(t, step),
         step \notin {"begin", "recovery"}, NEW s, s = thread[t],
         NEW next \in {"register", "creating", "create", "bind", "ack",
                       "acceptDelivery", "acceptTurn"},
         next \in BeforeSend => step \in BeforeSend
  PROVE  Fits(t, Goto(s, next), gens)
<1> DEFINE x == Goto(s, next)
<1>1. Running(t) /\ s.step = step /\ s \in ThreadState
  BY Starts
<1>2. Loads(x, s) /\ x.step = next /\ x.end = s.end
  BY <1>1, LoadGoto DEF Step
<1> HIDE DEF x
<1>3. Resumes(x, s)
  BY <1>1, <1>2 DEF Resumes, Closing
<1>4. QED BY <1>1, <1>3, ResumeFits DEF x

\* A command that goes on with the commit of an end.
LEMMA CommitFits ==
  ASSUME TurnInv, SerialInv, NEW t \in Thread, NEW step, At(t, step),
         step \notin {"begin", "recovery"}, NEW s, s = thread[t],
         asked[s.attempt] = "dispatch" \/ s.cmd = "abandon",
         NEW outcome \in Outcome, NEW by \in Author,
         by \in NotSent => step \in BeforeSend
  PROVE  Fits(t, ToCommit(s, outcome, by), gens)
<1> DEFINE x == ToCommit(s, outcome, by)
<1>1. Running(t) /\ s.step = step /\ s \in ThreadState
  BY Starts
<1>2. Loads(x, s) /\ x.step = "commit" /\ x.end.by = by
  BY <1>1, LoadCommit
<1> HIDE DEF x
<1>3. Resumes(x, s)
  BY <1>1, <1>2 DEF Resumes, Closing, BeforeSend
<1>4. QED BY <1>1, <1>3, ResumeFits DEF x

LEMMA PrepareSerial ==
  ASSUME TurnInv, SerialInv, Serial, NEW t \in Thread, PrepareDelivery(t)
  PROVE  KeepsSerial
<1>1. PICK s : s = thread[t]
  OBVIOUS
<1>2. At(t, "prepare") /\ MayLoad
  BY DEF PrepareDelivery
<1>3. /\ Running(t) /\ s.step = "prepare" /\ s.attempt \in Attempt
      /\ s.binding = BindingOf[s.attempt] /\ row[s.binding] \in Row
      /\ s \in ThreadState
  BY <1>1, <1>2, Starts
<1> DEFINE new == [row[s.binding] EXCEPT
                     !.pending = PendingOf(s.attempt, "prepared")]
           x == Plan(s, new, "deliveryPrepared")
<1>4. Fits(t, After(s, "error"), gens)
  <2>1. ~Clears(s, "error") \/ s.end.by \in NotSent
    BY <1>3 DEF Clears, Closing
  <2>2. QED BY <1>1, <1>3, <2>1, ReturnFits
<1>5. Fits(t, x, gens)
  <2>1. new \in Row
    <3>1. PendingOf(s.attempt, "prepared") \in Pending
      BY <1>3, FactsOf DEF Phase
    <3>2. QED BY <1>3, <3>1 DEF Row
  <2>2. /\ new.gen = row[s.binding].gen
        /\ new.accepted = row[s.binding].accepted
        /\ new.committed = row[s.binding].committed
        /\ new.pending = PendingOf(s.attempt, "prepared")
    BY <1>3 DEF Row
  <2>3. new.pending.attempt = s.attempt
    BY <2>2 DEF PendingOf
  <2>4. \A a \in Attempt : new.pending = PendingOf(a, "prepared") => s.attempt = a
    BY <2>2 DEF PendingOf
  <2>5. CursorInv => Unresolved(s.attempt)
    BY <1>1, <1>3, SoundThread DEF Timely
  <2>6. "deliveryPrepared" \in FactType
    BY DEF FactType, Milestone
  <2> HIDE DEF new
  <2>7. CursorInv => Belongs(new.pending, s.binding)
    BY <1>3, <2>3, <2>5 DEF Belongs
  <2>8. QED
    BY <1>1, <1>2, <1>3, <2>1, <2>2, <2>3, <2>4, <2>6, <2>7, RowPlan
<1> HIDE DEF x
<1>6. Only(t, After(s, "error")) \/ Only(t, x)
  BY <1>1 DEF PrepareDelivery, x
<1>7. QED BY <1>4, <1>5, <1>6, OnlySerial

\* A step that may change what the coordinator knows, and nothing durable.
LEMMA OwnerSerial ==
  ASSUME TurnInv, SerialInv, NEW t \in Thread, NEW x, Become(t, x),
         Fits(t, x, gens), UNCHANGED <<store, runtime, asked>>
  PROVE  KeepsSerial
<1>1. /\ UNCHANGED <<log, row, runtime, asked>>
      /\ gens' = gens /\ gens \in Nat
  BY DEF store, TurnInv, TypeOK
<1>2. QED BY <1>1, QuietSerial

\* A step before the send is of a dispatch, whose engine has nothing yet.
LEMMA BeforeSendIs ==
  ASSUME TurnInv, NEW t \in Thread, NEW step \in BeforeSend, At(t, step),
         NEW s, s = thread[t]
  PROVE  /\ s.cmd = "dispatch" /\ asked[s.attempt] = "dispatch"
         /\ runtime[s.attempt] = "none" /\ ~Ended(s.attempt)
         /\ ~Settled(s.attempt) /\ step \notin {"begin", "recovery"}
<1>1. Running(t) /\ s.step = step
  BY DEF At
<1>2. Shaped(s) /\ Grounded(s) /\ s.attempt \in Attempt
  BY <1>1, RunningThread
<1>3. s.cmd = "dispatch" /\ asked[s.attempt] = "dispatch"
      /\ runtime[s.attempt] = "none"
  BY <1>1, <1>2 DEF Shaped, Grounded
<1>4. ~Ended(s.attempt) /\ ~Settled(s.attempt)
  BY <1>2, <1>3 DEF Ended, TurnInv, AttemptsGrounded
<1>5. QED BY <1>3, <1>4 DEF BeforeSend

\* An attempt whose turn has ended was dispatched.
LEMMA EndedAsked ==
  ASSUME TurnInv, NEW a \in Attempt, Ended(a)
  PROVE  asked[a] = "dispatch" /\ runtime[a] # "none" /\ Requested(a)
BY DEF Ended, TurnInv, AttemptsGrounded

LEMMA CheckSerial ==
  ASSUME TurnInv, SerialInv, NEW t \in Thread, CheckDelivery(t)
  PROVE  KeepsSerial
<1>1. PICK s : s = thread[t]
  OBVIOUS
<1>2. At(t, "check") /\ "check" \in BeforeSend
  BY DEF CheckDelivery, BeforeSend
<1>3. Fits(t, ToCommit(s, "failed", "refused"), gens)
  BY <1>1, <1>2, BeforeSendIs, CommitFits, Words
<1>4. Fits(t, Goto(s, "register"), gens)
  BY <1>1, <1>2, BeforeSendIs, GotoFits
<1>5. Fits(t, ToRecovery(s, "ambiguous"), gens)
  BY <1>1, <1>2, BeforeSendIs, Starts
<1>6. PICK x \in {ToCommit(s, "failed", "refused"), Goto(s, "register"),
                  ToRecovery(s, "ambiguous")} : Only(t, x)
  BY <1>1 DEF CheckDelivery
<1>7. QED BY <1>3, <1>4, <1>5, <1>6, OnlySerial

LEMMA RegisterSerial ==
  ASSUME TurnInv, SerialInv, NEW t \in Thread, RegisterAttempt(t)
  PROVE  KeepsSerial
<1>1. PICK s : s = thread[t]
  OBVIOUS
<1>2. At(t, "register") /\ "register" \in BeforeSend
  BY DEF RegisterAttempt, BeforeSend
<1>3. Fits(t, ToCommit(s, "failed", "refused"), gens)
  BY <1>1, <1>2, BeforeSendIs, CommitFits, Words
<1>4. Fits(t, Goto(s, "creating"), gens)
  BY <1>1, <1>2, BeforeSendIs, GotoFits
<1>5. ~Settled(s.attempt)
  BY <1>1, <1>2, BeforeSendIs
<1>6. PICK x \in {ToCommit(s, "failed", "refused"), Goto(s, "creating")} :
        Become(t, x) /\ UNCHANGED <<store, runtime, asked>>
  BY <1>1, <1>5 DEF RegisterAttempt, Only
<1>7. QED BY <1>3, <1>4, <1>6, OwnerSerial

LEMMA BindSerial ==
  ASSUME TurnInv, SerialInv, NEW t \in Thread, BindRuntimeTurn(t)
  PROVE  KeepsSerial
<1>1. PICK s : s = thread[t]
  OBVIOUS
<1>2. At(t, "bind") /\ "bind" \notin {"begin", "recovery"}
      /\ {"acceptDelivery", "ack"} \cap BeforeSend = {}
  BY DEF BindRuntimeTurn, BeforeSend
<1>3. Fits(t, Goto(s, "acceptDelivery"), gens) /\ Fits(t, Goto(s, "ack"), gens)
  BY <1>1, <1>2, GotoFits
<1>4. Fits(t, ToRecovery(s, "ambiguous"), gens)
  BY <1>1, <1>2, Starts
<1>5. PICK x \in {Goto(s, "acceptDelivery"), Goto(s, "ack"),
                  ToRecovery(s, "ambiguous")} :
        Become(t, x) /\ UNCHANGED <<store, runtime, asked>>
  BY <1>1 DEF BindRuntimeTurn, Only
<1>6. QED BY <1>3, <1>4, <1>5, OwnerSerial

LEMMA AckSerial ==
  ASSUME TurnInv, SerialInv, NEW t \in Thread, AwaitContextAck(t)
  PROVE  KeepsSerial
<1>1. PICK s : s = thread[t]
  OBVIOUS
<1>2. At(t, "ack") /\ "ack" \notin {"begin", "recovery"}
      /\ "acceptDelivery" \notin BeforeSend
  BY DEF AwaitContextAck, BeforeSend
<1>3. Fits(t, Goto(s, "acceptDelivery"), gens)
  BY <1>1, <1>2, GotoFits
<1>4. Fits(t, ToRecovery(s, "ambiguous"), gens)
  BY <1>1, <1>2, Starts
<1>5. s.attempt \in Attempt
  BY <1>1, <1>2, Starts
<1>6. Ended(s.attempt) =>
        Fits(t, ToCommit(s, runtime[s.attempt], "runtime"), gens)
  <2>1. Ended(s.attempt) => /\ asked[s.attempt] = "dispatch"
                            /\ runtime[s.attempt] \in Outcome
    BY <1>5, EndedAsked, EndedOutcome
  <2>2. "runtime" \in Author /\ "runtime" \notin NotSent
    BY Words DEF NotSent
  <2>3. QED BY <1>1, <1>2, <2>1, <2>2, CommitFits
<1>7. PICK x :
        /\ Become(t, x) /\ UNCHANGED <<store, runtime, asked>>
        /\ \/ x \in {Goto(s, "acceptDelivery"), ToRecovery(s, "ambiguous")}
           \/ /\ Ended(s.attempt)
              /\ x = ToCommit(s, runtime[s.attempt], "runtime")
  BY <1>1 DEF AwaitContextAck, Only
<1>8. QED BY <1>3, <1>4, <1>6, <1>7, OwnerSerial

LEMMA ReleaseSerial ==
  ASSUME TurnInv, SerialInv, NEW t \in Thread, ReleaseEvents(t)
  PROVE  KeepsSerial
<1>1. PICK s : s = thread[t]
  OBVIOUS
<1>2. At(t, "drain") /\ "drain" \notin {"begin", "recovery"}
  BY DEF ReleaseEvents
<1>3. Fits(t, Idle, gens) /\ s.attempt \in Attempt
  BY <1>1, <1>2, Starts
<1>4. Ended(s.attempt) =>
        Fits(t, ToCommit(s, runtime[s.attempt], "runtime"), gens)
  <2>1. Ended(s.attempt) => /\ asked[s.attempt] = "dispatch"
                            /\ runtime[s.attempt] \in Outcome
    BY <1>3, EndedAsked, EndedOutcome
  <2>2. "runtime" \in Author /\ "runtime" \notin NotSent
    BY Words DEF NotSent
  <2>3. QED BY <1>1, <1>2, <2>1, <2>2, CommitFits
<1>5. PICK x :
        /\ Become(t, x) /\ UNCHANGED <<store, runtime, asked>>
        /\ \/ x = Idle
           \/ /\ Ended(s.attempt)
              /\ x = ToCommit(s, runtime[s.attempt], "runtime")
  BY <1>1 DEF ReleaseEvents, Only, CommitHeldEnd
<1>6. QED BY <1>3, <1>4, <1>5, OwnerSerial

\* A plan that changes neither the delivery nor the cursors.
LEMMA KeptPlan ==
  ASSUME TurnInv, SerialInv, Serial, MayLoad, NEW t \in Thread, Running(t),
         NEW s, s = thread[t], NEW r \in Row, r = row[s.binding],
         NEW new \in Row, NEW fact \in FactType \ {"turnCommitted",
                                                   "deliveryPrepared"},
         new.gen = r.gen, new.pending = r.pending,
         new.accepted = r.accepted, new.committed = r.committed,
         s.step \notin {"commit", "rebuild", "evidence", "forget", "sent"}
  PROVE  Fits(t, Plan(s, new, fact), gens)
BY RowPlan

LEMMA CreatingSerial ==
  ASSUME TurnInv, SerialInv, Serial, NEW t \in Thread, MarkCreating(t)
  PROVE  KeepsSerial
<1>1. PICK s : s = thread[t]
  OBVIOUS
<1>2. At(t, "creating") /\ MayLoad /\ {"creating", "create"} \subseteq BeforeSend
  BY DEF MarkCreating, BeforeSend
<1>3. /\ Running(t) /\ s.step = "creating" /\ s.attempt \in Attempt
      /\ s.binding = BindingOf[s.attempt] /\ row[s.binding] \in Row
      /\ Fits(t, ToRecovery(s, "ambiguous"), gens)
  BY <1>1, <1>2, Starts
<1>4. Fits(t, Goto(s, "create"), gens)
  BY <1>1, <1>2, BeforeSendIs, GotoFits
<1> DEFINE new == [row[s.binding] EXCEPT !.gen = log[s.attempt].gen,
                                         !.state = "creating", !.why = "none"]
<1>5. Current(s.attempt) => Fits(t, Plan(s, new, NoFact), gens)
  <2> SUFFICES ASSUME Current(s.attempt)
               PROVE  Fits(t, Plan(s, new, NoFact), gens)
    OBVIOUS
  <2>1. log[s.attempt].gen = row[s.binding].gen
    BY <1>3 DEF Current
  <2>2. /\ new \in Row /\ new.gen = row[s.binding].gen
        /\ new.pending = row[s.binding].pending
        /\ new.accepted = row[s.binding].accepted
        /\ new.committed = row[s.binding].committed
    BY <1>3, <2>1, FactsOf DEF Row, State, Reason
  <2>3. NoFact \in FactType \ {"turnCommitted", "deliveryPrepared"}
    BY Words DEF NoFact
  <2> HIDE DEF new
  <2>4. QED BY <1>1, <1>2, <1>3, <2>2, <2>3, KeptPlan
<1> HIDE DEF new
<1>6. PICK x : /\ Only(t, x)
               /\ \/ x = ToRecovery(s, "ambiguous")
                  \/ x = Goto(s, "create")
                  \/ Current(s.attempt) /\ x = Plan(s, new, NoFact)
  BY <1>1 DEF MarkCreating, new
<1>7. QED BY <1>3, <1>4, <1>5, <1>6, OnlySerial

LEMMA MaterializeSerial ==
  ASSUME TurnInv, SerialInv, Serial, NEW t \in Thread, MaterializeBinding(t)
  PROVE  KeepsSerial
<1>1. PICK s : s = thread[t]
  OBVIOUS
<1>2. At(t, "create") /\ MayLoad
  BY DEF MaterializeBinding
<1>3. /\ Running(t) /\ s.step = "create" /\ s.attempt \in Attempt
      /\ s.binding = BindingOf[s.attempt] /\ row[s.binding] \in Row
      /\ Fits(t, ToRecovery(s, "ambiguous"), gens)
  BY <1>1, <1>2, Starts
<1> DEFINE new == [row[s.binding] EXCEPT
                     !.gen = log[s.attempt].gen,
                     !.native = TRUE,
                     !.state = IF s.binding \in EarlyIdentity THEN "ready"
                               ELSE "creating",
                     !.why = "none"]
<1>4. Current(s.attempt) => Fits(t, Plan(s, new, NoFact), gens)
  <2> SUFFICES ASSUME Current(s.attempt)
               PROVE  Fits(t, Plan(s, new, NoFact), gens)
    OBVIOUS
  <2>1. log[s.attempt].gen = row[s.binding].gen
    BY <1>3 DEF Current
  <2>2. /\ new \in Row /\ new.gen = row[s.binding].gen
        /\ new.pending = row[s.binding].pending
        /\ new.accepted = row[s.binding].accepted
        /\ new.committed = row[s.binding].committed
    BY <1>3, <2>1, FactsOf DEF Row, State, Reason
  <2>3. NoFact \in FactType \ {"turnCommitted", "deliveryPrepared"}
    BY Words DEF NoFact
  <2> HIDE DEF new
  <2>4. QED BY <1>1, <1>2, <1>3, <2>2, <2>3, KeptPlan
<1> HIDE DEF new
<1>5. PICK x : /\ Only(t, x)
               /\ \/ x = ToRecovery(s, "ambiguous")
                  \/ Current(s.attempt) /\ x = Plan(s, new, NoFact)
  BY <1>1 DEF MaterializeBinding, new
<1>6. QED BY <1>3, <1>4, <1>5, OnlySerial

LEMMA MarkSentSerial ==
  ASSUME TurnInv, SerialInv, Serial, NEW t \in Thread, MarkSent(t)
  PROVE  KeepsSerial
<1>1. PICK s : s = thread[t]
  OBVIOUS
<1>2. At(t, "sent") /\ MayLoad /\ "sent" \in BeforeSend
  BY DEF MarkSent, BeforeSend
<1>3. /\ Running(t) /\ s.step = "sent" /\ s.attempt \in Attempt
      /\ s.binding = BindingOf[s.attempt] /\ row[s.binding] \in Row
      /\ s.binding \in Binding
  BY <1>1, <1>2, Starts
<1>4. Fits(t, ToCommit(s, "failed", "dispatch"), gens)
  BY <1>1, <1>2, BeforeSendIs, CommitFits, Words
<1> DEFINE new == SentRow(s)
<1>5. PendingIs(s.attempt, "prepared") => Fits(t, Plan(s, new, NoFact), gens)
  <2> SUFFICES ASSUME PendingIs(s.attempt, "prepared")
               PROVE  Fits(t, Plan(s, new, NoFact), gens)
    OBVIOUS
  <2>1. PendingOf(s.attempt, "sent") \in Pending
    BY <1>3, FactsOf DEF Phase
  <2>2. /\ new \in Row /\ new.gen = row[s.binding].gen
        /\ new.pending = PendingOf(s.attempt, "sent")
        /\ new.accepted = row[s.binding].accepted
        /\ new.committed = row[s.binding].committed
    BY <1>3, <2>1 DEF SentRow, Row
  <2>3. /\ \A a \in Attempt : new.pending # PendingOf(a, "prepared")
        /\ new.pending.attempt = s.attempt
    BY <2>2 DEF PendingOf
  <2>4. row[s.binding].pending = PendingOf(s.attempt, "prepared")
    BY <1>3 DEF PendingIs
  <2>5. CursorInv => /\ Belongs(new.pending, s.binding)
                     /\ Has(s.attempt, "deliveryPrepared")
    <3>1. /\ row[s.binding].pending.attempt = s.attempt
          /\ row[s.binding].pending # NoPending
      BY <2>4 DEF PendingOf, NoPending
    <3>2. CursorInv => /\ Belongs(row[s.binding].pending, s.binding)
                       /\ Has(row[s.binding].pending.attempt,
                              "deliveryPrepared")
      BY <1>3, <3>1, Sentinels DEF CursorInv, RowsInOrder
    <3>3. QED BY <2>3, <3>1, <3>2 DEF Belongs
  <2>6. NoFact \in FactType \ {"turnCommitted", "deliveryPrepared"}
    BY Words DEF NoFact
  <2> HIDE DEF new
  <2>7. QED
    BY <1>1, <1>2, <1>3, <2>2, <2>3, <2>5, <2>6, RowPlan
<1> HIDE DEF new
<1>6. PICK x : /\ Only(t, x)
               /\ \/ x = ToCommit(s, "failed", "dispatch")
                  \/ /\ PendingIs(s.attempt, "prepared")
                     /\ x = Plan(s, new, NoFact)
  BY <1>1 DEF MarkSent, new
<1>7. QED BY <1>4, <1>5, <1>6, OnlySerial

LEMMA AcceptDeliverySerial ==
  ASSUME TurnInv, SerialInv, Serial, NEW t \in Thread, AcceptDelivery(t)
  PROVE  KeepsSerial
<1>1. PICK s : s = thread[t]
  OBVIOUS
<1>2. At(t, "acceptDelivery") /\ MayLoad
  BY DEF AcceptDelivery
<1>3. /\ Running(t) /\ s.step = "acceptDelivery" /\ s.attempt \in Attempt
      /\ s.binding = BindingOf[s.attempt] /\ row[s.binding] \in Row
      /\ s.binding \in Binding
      /\ Fits(t, ToRecovery(s, "ambiguous"), gens)
  BY <1>1, <1>2, Starts
<1> DEFINE new == [row[s.binding] EXCEPT
                     !.native = TRUE,
                     !.pending = PendingOf(s.attempt, "accepted"),
                     !.accepted = log[s.attempt].after]
           x == Plan(s, new, "deliveryAccepted")
<1>4. PendingIs(s.attempt, "sent") => Fits(t, x, gens)
  <2> SUFFICES ASSUME PendingIs(s.attempt, "sent")
               PROVE  Fits(t, x, gens)
    OBVIOUS
  <2>1. PendingOf(s.attempt, "accepted") \in Pending
    BY <1>3, FactsOf DEF Phase
  <2>2. /\ new \in Row /\ new.gen = row[s.binding].gen
        /\ new.pending = PendingOf(s.attempt, "accepted")
        /\ new.accepted = log[s.attempt].after
        /\ new.committed = row[s.binding].committed
    BY <1>3, <2>1, FactsOf DEF Row
  <2>3. /\ \A a \in Attempt : new.pending # PendingOf(a, "prepared")
        /\ new.pending.attempt = s.attempt
    BY <2>2 DEF PendingOf
  <2>4. row[s.binding].pending = PendingOf(s.attempt, "sent")
    BY <1>3 DEF PendingIs
  <2>5. CursorInv => /\ Belongs(new.pending, s.binding)
                     /\ Has(s.attempt, "deliveryPrepared")
                     /\ Unresolved(s.attempt)
    <3>1. /\ row[s.binding].pending.attempt = s.attempt
          /\ row[s.binding].pending # NoPending
      BY <2>4 DEF PendingOf, NoPending
    <3>2. CursorInv => /\ Belongs(row[s.binding].pending, s.binding)
                       /\ Has(row[s.binding].pending.attempt,
                              "deliveryPrepared")
      BY <1>3, <3>1, Sentinels DEF CursorInv, RowsInOrder
    <3>3. QED BY <2>3, <3>1, <3>2 DEF Belongs
  <2>6. "deliveryAccepted" \in FactType \ {"turnCommitted", "deliveryPrepared"}
    BY Words
  <2> HIDE DEF new
  <2>7. QED
    BY <1>1, <1>2, <1>3, <2>2, <2>3, <2>5, <2>6, RowPlan
<1> HIDE DEF x
<1>5. PICK y : /\ Only(t, y)
               /\ \/ y = ToRecovery(s, "ambiguous")
                  \/ PendingIs(s.attempt, "sent") /\ y = x
  BY <1>1 DEF AcceptDelivery, x
<1>6. QED BY <1>3, <1>4, <1>5, OnlySerial

LEMMA TrustSerial ==
  ASSUME TurnInv, SerialInv, Serial, NEW t \in Thread, SetTrust(t)
  PROVE  KeepsSerial
<1>1. PICK s : s = thread[t]
  OBVIOUS
<1>2. At(t, "trust") /\ MayLoad /\ "acceptTurn" \notin BeforeSend
  BY DEF SetTrust, BeforeSend
<1>3. /\ Running(t) /\ s.step = "trust" /\ row[s.binding] \in Row
  BY <1>1, <1>2, Starts
<1>4. Fits(t, Goto(s, "acceptTurn"), gens)
  BY <1>1, <1>2, GotoFits
<1> DEFINE new == [row[s.binding] EXCEPT !.trust = "trusted", !.why = "none"]
<1>5. Fits(t, Plan(s, new, NoFact), gens)
  <2>1. /\ new \in Row /\ new.gen = row[s.binding].gen
        /\ new.pending = row[s.binding].pending
        /\ new.accepted = row[s.binding].accepted
        /\ new.committed = row[s.binding].committed
    BY <1>3 DEF Row, Reason
  <2>2. NoFact \in FactType \ {"turnCommitted", "deliveryPrepared"}
    BY Words DEF NoFact
  <2> HIDE DEF new
  <2>3. QED BY <1>1, <1>2, <1>3, <2>1, <2>2, KeptPlan
<1> HIDE DEF new
<1>6. PICK x \in {Goto(s, "acceptTurn"), Plan(s, new, NoFact)} : Only(t, x)
  BY <1>1 DEF SetTrust, new
<1>7. QED BY <1>4, <1>5, <1>6, OnlySerial

LEMMA AcceptTurnSerial ==
  ASSUME TurnInv, SerialInv, Serial, NEW t \in Thread, AcceptTurn(t)
  PROVE  KeepsSerial
<1>1. PICK s : s = thread[t]
  OBVIOUS
<1>2. At(t, "acceptTurn") /\ MayLoad
  BY DEF AcceptTurn
<1>3. /\ Running(t) /\ s.step = "acceptTurn" /\ s.attempt \in Attempt
      /\ s.binding = BindingOf[s.attempt] /\ row[s.binding] \in Row
      /\ Fits(t, ToRecovery(s, "ambiguous"), gens)
  BY <1>1, <1>2, Starts
<1> DEFINE new == AcceptedRow(s)
<1>4. Current(s.attempt) => Fits(t, Plan(s, new, "turnAccepted"), gens)
  <2> SUFFICES ASSUME Current(s.attempt)
               PROVE  Fits(t, Plan(s, new, "turnAccepted"), gens)
    OBVIOUS
  <2>1. log[s.attempt].gen = row[s.binding].gen
    BY <1>3 DEF Current
  <2>2. /\ new \in Row /\ new.gen = row[s.binding].gen
        /\ new.pending = row[s.binding].pending
        /\ new.accepted = row[s.binding].accepted
        /\ new.committed = row[s.binding].committed
    BY <1>3, <2>1, FactsOf DEF AcceptedRow, Row, State, Reason
  <2>3. "turnAccepted" \in FactType \ {"turnCommitted", "deliveryPrepared"}
    BY Words
  <2> HIDE DEF new
  <2>4. QED BY <1>1, <1>2, <1>3, <2>2, <2>3, KeptPlan
<1> HIDE DEF new
<1>5. PICK x : /\ Only(t, x)
               /\ \/ x = ToRecovery(s, "ambiguous")
                  \/ Current(s.attempt) /\ x = Plan(s, new, "turnAccepted")
  BY <1>1 DEF AcceptTurn, new
<1>6. QED BY <1>3, <1>4, <1>5, OnlySerial

LEMMA MarkRecoverySerial ==
  ASSUME TurnInv, SerialInv, Serial, NEW t \in Thread, MarkRecovery(t)
  PROVE  KeepsSerial
<1>1. PICK s : s = thread[t]
  OBVIOUS
<1> DEFINE new == RecoveryRow(s)
<1>2. /\ At(t, "recovery") /\ MayLoad /\ Only(t, Plan(s, new, NoFact))
  BY <1>1 DEF MarkRecovery
<1>3. /\ Running(t) /\ s.step = "recovery" /\ row[s.binding] \in Row
      /\ s \in ThreadState
  BY <1>1, <1>2, AtStep, RunningThread
<1>4. /\ new \in Row /\ new.gen = row[s.binding].gen
      /\ new.pending = row[s.binding].pending
      /\ new.accepted = row[s.binding].accepted
      /\ new.committed = row[s.binding].committed
  <2>1. s.why \in Reason
    BY <1>3 DEF ThreadState
  <2>2. QED BY <1>3, <2>1 DEF RecoveryRow, Row, State
<1>5. NoFact \in FactType \ {"turnCommitted", "deliveryPrepared"}
  BY Words DEF NoFact
<1> HIDE DEF new
<1>6. Fits(t, Plan(s, new, NoFact), gens)
  BY <1>1, <1>2, <1>3, <1>4, <1>5, KeptPlan
<1>7. QED BY <1>2, <1>6, OnlySerial

\* The step after one from which the attempt may be forgotten.
LEMMA ClosingFits ==
  ASSUME TurnInv, SerialInv, NEW t \in Thread, Running(t), NEW s,
         s = thread[t], Closing(s)
  PROVE  Fits(t, After(s, "ok"), gens)
<1>1. Committed(s.attempt) \/ s.end.by \in NotSent
  BY SoundThread DEF Careful
<1>2. s.step # "sent"
  BY DEF Closing
<1>3. QED BY <1>1, <1>2, ReturnFits

LEMMA ClearSerial ==
  ASSUME TurnInv, SerialInv, Serial, NEW t \in Thread, ClearRecovery(t)
  PROVE  KeepsSerial
<1>1. PICK s : s = thread[t]
  OBVIOUS
<1>2. PICK r : r = row[s.binding]
  OBVIOUS
<1> DEFINE new == [r EXCEPT !.state = IF r.native THEN "ready" ELSE "prepared",
                            !.why = "none", !.trust = "dirty"]
<1>3. /\ At(t, "clear") /\ MayLoad
      /\ Only(t, After(s, "ok")) \/ Only(t, Plan(s, new, NoFact))
  BY <1>1, <1>2 DEF ClearRecovery
<1>4. Running(t) /\ s.step = "clear" /\ r \in Row
  BY <1>1, <1>2, <1>3, Starts
<1>5. /\ new \in Row /\ new.gen = r.gen /\ new.pending = r.pending
      /\ new.accepted = r.accepted /\ new.committed = r.committed
  BY <1>4 DEF Row, State, Reason
<1>6. NoFact \in FactType \ {"turnCommitted", "deliveryPrepared"}
  BY Words DEF NoFact
<1> HIDE DEF new
<1>7. Fits(t, Plan(s, new, NoFact), gens)
  BY <1>1, <1>2, <1>3, <1>4, <1>5, <1>6, KeptPlan
<1>8. Fits(t, After(s, "ok"), gens)
  BY <1>1, <1>4, ClosingFits DEF Closing
<1>9. QED BY <1>3, <1>7, <1>8, OnlySerial

LEMMA CommitSerial ==
  ASSUME TurnInv, SerialInv, Serial, NEW t \in Thread, CommitTurn(t)
  PROVE  KeepsSerial
<1>1. PICK s : s = thread[t]
  OBVIOUS
<1>2. PICK a : a = s.attempt
  OBVIOUS
<1>3. PICK r : r = row[s.binding]
  OBVIOUS
<1>4. At(t, "commit") /\ MayLoad
  BY DEF CommitTurn
<1>5. /\ Running(t) /\ s.step = "commit" /\ s \in ThreadState /\ a \in Attempt
      /\ s.binding = BindingOf[a] /\ s.binding \in Binding
      /\ r \in Row /\ r # NoRow
  BY <1>1, <1>2, <1>3, <1>4, Starts
<1> DEFINE new == TerminalRow(s)
           x == Plan(s, new, "turnCommitted")
<1>6. \/ s.end.by \in NotSent /\ Only(t, After(s, "ok"))
      \/ ~Current(a) /\ Only(t, After(s, "stale"))
      \/ Only(t, After(s, "error"))
      \/ /\ Committed(a)
         /\ Only(t, After(s, "ok")) \/ Only(t, After(s, "stale"))
      \/ Current(a) /\ Only(t, x)
  BY <1>1, <1>2, <1>3 DEF CommitTurn, NotSent
<1>7. ASSUME NEW result \in {"ok", "error", "stale"},
             Clears(s, result) => Committed(a) \/ s.end.by \in NotSent,
             Only(t, After(s, result))
      PROVE  KeepsSerial
  BY <1>1, <1>2, <1>5, <1>7, ReturnFits, OnlySerial
<1>8. CASE /\ s.end.by \in NotSent \/ Committed(a)
           /\ \E result \in {"ok", "error", "stale"} : Only(t, After(s, result))
  BY <1>7, <1>8
<1>9. CASE Only(t, After(s, "error"))
  <2>1. ~Clears(s, "error") \/ s.end.by \in NotSent
    BY <1>5 DEF Clears, Closing
  <2>2. QED BY <1>7, <1>9, <2>1
<1>10. CASE ~Current(a) /\ Only(t, After(s, "stale"))
  <2>1. ~Unresolved(a)
    BY <1>5, <1>10 DEF SerialInv, UnresolvedIsCurrent
  <2>2. s.end.by = "runtime" => Committed(a)
    BY <1>1, <1>2, <1>5, <2>1, SoundThread, EndedAsked DEF Grounded, Unresolved
  <2>3. Clears(s, "stale") => Committed(a) \/ s.end.by \in NotSent
    BY <1>5, <2>2 DEF Clears, Closing
  <2>4. QED BY <1>7, <1>10, <2>3
<1>11. CASE Current(a) /\ Only(t, x)
  <2>1. log[a].gen = r.gen
    BY <1>3, <1>5, <1>11 DEF Current
  <2>2. new \in Row
    BY <1>1, <1>3, <1>5, TerminalRowType
  <2>3. /\ new.gen = r.gen /\ new.pending = NoPending
        /\ new.accepted = r.accepted
        /\ new.committed = IF r.pending = PendingOf(a, "accepted")
                           THEN log[a].after ELSE r.committed
    BY <1>2, <1>3, <1>5, <2>1 DEF TerminalRow, Consumed, Row
  <2>4. CursorInv /\ r.pending = PendingOf(a, "accepted") => Unresolved(a)
    <3>1. PendingOf(a, "accepted") # NoPending
          /\ PendingOf(a, "accepted").attempt = a
      BY DEF PendingOf, NoPending
    <3>2. QED BY <1>3, <1>5, <3>1 DEF CursorInv, RowsInOrder, Belongs
  <2>5. \A c \in Attempt : new.pending # PendingOf(c, "prepared")
    BY <2>3 DEF PendingOf, NoPending
  <2>6. CursorInv =>
          /\ new.accepted = r.accepted
          /\ \/ new.committed = r.committed
             \/ Unresolved(s.attempt) /\ new.committed = log[s.attempt].after
          /\ new.pending = NoPending
    BY <1>2, <2>3, <2>4
  <2> HIDE DEF new
  <2>7. "turnCommitted" \in FactType
    BY Words
  <2>8. Fits(t, Plan(s, new, "turnCommitted"), gens)
    BY <1>1, <1>3, <1>4, <1>5, <2>2, <2>3, <2>5, <2>6, <2>7, RowPlan
  <2>9. QED BY <1>11, <2>8, OnlySerial
<1> HIDE DEF x, new
<1>12. QED BY <1>6, <1>8, <1>9, <1>10, <1>11

LEMMA RemoveSerial ==
  ASSUME TurnInv, SerialInv, NEW t \in Thread, RemoveAttempt(t)
  PROVE  KeepsSerial
<1>1. PICK s : s = thread[t]
  OBVIOUS
<1>2. CASE At(t, "remove")
  <2>1. Running(t) /\ s.step = "remove"
    BY <1>1, <1>2, Starts
  <2>2. Fits(t, After(s, "ok"), gens)
    BY <1>1, <2>1, ClosingFits DEF Closing
  <2>3. Become(t, After(s, "ok")) /\ UNCHANGED <<store, runtime, asked>>
    BY <1>1, <2>1 DEF RemoveAttempt
  <2>4. QED BY <2>2, <2>3, OwnerSerial
<1>3. CASE At(t, "forget")
  <2>1. Running(t) /\ s.step = "forget" /\ s \in ThreadState
    BY <1>1, <1>3, Starts
  <2>2. s.cmd = "abandon"
    BY <1>1, <2>1, SoundThread DEF Fitting
  <2>3. Fits(t, ToCommit(s, "cancelled", "abandon"), gens)
    <3>1. "abandon" \notin NotSent
      BY DEF NotSent
    <3>2. QED BY <1>1, <1>3, <2>2, <3>1, CommitFits, Words
  <2>4. Fits(t, Goto(s, "commit"), gens)
    <3> DEFINE x == Goto(s, "commit")
    <3>1. "commit" \in Step /\ "commit" \notin BeforeSend
      BY DEF Step, BeforeSend
    <3>2. Loads(x, s) /\ x.step = "commit" /\ x.end = s.end
      BY <2>1, <3>1, LoadGoto
    <3> HIDE DEF x
    <3>3. Resumes(x, s)
      BY <2>2, <3>1, <3>2 DEF Resumes, Closing
    <3>4. QED BY <1>1, <2>1, <3>3, ResumeFits DEF x
  <2>5. PICK x : /\ Become(t, x) /\ UNCHANGED <<store, runtime, asked>>
                 /\ Fits(t, x, gens)
    BY <1>1, <2>1, <2>3, <2>4 DEF RemoveAttempt
  <2>6. QED BY <2>5, OwnerSerial
<1>4. QED BY <1>2, <1>3 DEF RemoveAttempt

LEMMA EvidenceSerial ==
  ASSUME TurnInv, SerialInv, NEW t \in Thread, ReadEvidence(t)
  PROVE  KeepsSerial
<1>1. PICK s : s = thread[t]
  OBVIOUS
<1>2. PICK a : a = s.attempt
  OBVIOUS
<1> DEFINE seen == [outcome |-> runtime[a], by |-> "runtime"]
           g == Goto(s, "forget")
           h == [g EXCEPT !.end = seen]
<1>3. At(t, "evidence")
  BY DEF ReadEvidence
<1>4. /\ Running(t) /\ s.step = "evidence" /\ s \in ThreadState
      /\ a \in Attempt
  BY <1>1, <1>2, <1>3, Starts
<1>5. s.cmd = "abandon"
  BY <1>1, <1>4, SoundThread DEF Fitting
<1>6. "forget" \in Step /\ "forget" \notin BeforeSend
      /\ "runtime" \notin NotSent
  BY DEF Step, BeforeSend, NotSent
<1>7. Loads(g, s) /\ g.step = "forget" /\ g.end = s.end
  BY <1>4, <1>6, LoadGoto
<1> HIDE DEF g
<1>8. Fits(t, g, gens)
  <2>1. Resumes(g, s)
    BY <1>5, <1>6, <1>7 DEF Resumes, Closing
  <2>2. QED BY <1>1, <1>4, <2>1, ResumeFits
<1>9. Settled(a) => Fits(t, h, gens)
  <2> SUFFICES ASSUME Settled(a) PROVE Fits(t, h, gens)
    OBVIOUS
  <2>1. seen \in Terminal
    BY <1>4, SettledRow, Words DEF Terminal
  <2>2. Loads(h, s) /\ h.step = "forget" /\ h.end.by = "runtime"
    BY <1>7, <2>1 DEF Loads, ThreadState
  <2> HIDE DEF h
  <2>3. Resumes(h, s)
    BY <1>5, <1>6, <2>2 DEF Resumes, Closing
  <2>4. QED BY <1>1, <1>4, <2>3, ResumeFits
<1> HIDE DEF h
<1>10. PICK x : Only(t, x) /\ (x = g \/ (Settled(a) /\ x = h))
  BY <1>1, <1>2 DEF ReadEvidence, g, h
<1>11. QED BY <1>8, <1>9, <1>10, OnlySerial

\* A generation that is drawn anew.
LEMMA FreshDraw ==
  ASSUME TurnInv, SerialInv
  PROVE  gens \in Nat /\ gens + 1 \in Nat /\ gens <= gens + 1 /\ Fresh(gens + 1)
<1>1. gens \in Nat
  BY DEF TurnInv, TypeOK
<1>2. \A a \in Attempt : log[a].gen \in Nat /\ log[a].gen <= gens
  BY FactsOf DEF SerialInv, Drawn
<1>3. Fresh(gens + 1)
  BY <1>1, <1>2 DEF Fresh
<1>4. QED BY <1>1, <1>3

LEMMA RebuildSerial ==
  ASSUME TurnInv, SerialInv, OneUnresolved, Serial, NEW t \in Thread,
         RebuildBinding(t)
  PROVE  KeepsSerial
<1>1. PICK s : s = thread[t]
  OBVIOUS
<1>2. PICK b : b = s.binding
  OBVIOUS
<1> DEFINE new == [gen |-> gens + 1, state |-> "prepared", why |-> "none",
                   native |-> FALSE, trust |-> "dirty", pending |-> NoPending,
                   accepted |-> 0, committed |-> 0]
           replaced == [outcome |-> "replaced", by |-> "rebuild"]
           x == Plan(s, new, NoFact)
           g == Plan(s, new, "turnCommitted")
           h(a) == [g EXCEPT !.attempt = a, !.end = replaced]
<1>3. At(t, "rebuild") /\ MayLoad
  BY DEF RebuildBinding
<1>4. /\ Running(t) /\ s.step = "rebuild" /\ s \in ThreadState
      /\ Fits(t, Idle, gens)
  BY <1>1, <1>3, Starts
<1>5. /\ s.io = "load" /\ Fitting(s) /\ s.cmd = "rebuild"
      /\ CursorInv => Timely(s)
  BY <1>1, <1>3, <1>4, SoundThread DEF At, Shaped
<1>6. ~CursorInv
  BY <1>5 DEF Timely
<1>7. new \in Row /\ new.gen = gens + 1 /\ new.pending = NoPending
  BY FreshDraw DEF Row, State, Reason
<1>8. \A c \in Attempt : NoPending # PendingOf(c, "prepared")
  BY DEF PendingOf, NoPending
<1> HIDE DEF new
<1>9. ASSUME UnresolvedOn(b) = {}
      PROVE  Fits(t, x, gens + 1)
  <2>1. NoFact \in FactType
    BY Words
  <2>2. /\ x.step = "rebuild" /\ x.io = "store" /\ x.binding = b
        /\ x.plan = new /\ x.fact = NoFact /\ x.end = s.end
    BY <1>2, <1>4, <1>7, <2>1, PlanFields
  <2>3. s.end = NoTerminal
    BY <1>4, <1>5 DEF Fitting, NoFact
  <2>4. gens + 1 <= gens + 1
    BY FreshDraw
  <2> HIDE DEF x
  <2>5. Fitting(x)
    BY <2>2, <2>3 DEF Fitting, NoFact
  <2>6. Planned(x)
    BY <1>7, <1>8, <1>9, <2>2, FreshDraw DEF Planned, Renews
  <2> USE DEF x
  <2>7. QED
    BY <1>1, <1>3, <1>4, <1>6, <1>7, <2>1, <2>4, <2>5, <2>6, PlanFits
<1>10. ASSUME NEW a \in UnresolvedOn(b)
       PROVE  Fits(t, h(a), gens + 1)
  <2> DEFINE y == h(a)
  <2>1. a \in Attempt /\ UnresolvedOn(b) = {a}
    BY DEF UnresolvedOn, OneUnresolved
  <2>2. replaced \in Terminal
    BY Words DEF Terminal
  <2>3. /\ g \in ThreadState /\ g.cmd = "rebuild" /\ g.step = "rebuild"
        /\ g.io = "store" /\ g.binding = b /\ g.plan = new
        /\ g.fact = "turnCommitted"
    BY <1>2, <1>4, <1>5, <1>7, PlanFields, Words
  <2> HIDE DEF g
  <2>4. /\ y \in ThreadState /\ y.cmd = "rebuild" /\ y.step = "rebuild"
        /\ y.io = "store" /\ y.binding = b /\ y.plan = new
        /\ y.fact = "turnCommitted" /\ y.attempt = a /\ y.end.by = "rebuild"
    BY <2>1, <2>2, <2>3 DEF ThreadState
  <2> HIDE DEF y
  <2>5. Fitting(y)
    BY <2>4 DEF Fitting
  <2>6. Careful(y)
    BY <2>4 DEF Careful, Closing, NotSent
  <2>7. Planned(y)
    <3>1. y.end # NoTerminal
      BY <2>4 DEF NoTerminal
    <3>2. QED BY <1>7, <1>8, <2>1, <2>4, <3>1, FreshDraw DEF Planned, Renews
  <2>8. y.plan.gen <= gens + 1 /\ \A u \in Thread : ~Storing(u)
    BY <1>3, <1>7, <2>4, FreshDraw DEF MayLoad
  <2>9. QED
    BY <1>6, <2>4, <2>5, <2>6, <2>7, <2>8 DEF Fits, Sound, y
<1> HIDE DEF x, h
<1>11. CASE Only(t, Idle)
  BY <1>4, <1>11, OnlySerial
<1>12. ASSUME NEW y, gens' = gens + 1, Become(t, y), Fits(t, y, gens + 1),
              UNCHANGED <<log, row, owner, runtime, asked, recoveries, crashes>>
       PROVE  KeepsSerial
  <2>1. gens' \in Nat /\ gens <= gens'
    BY <1>12, FreshDraw
  <2>2. QED BY <1>12, <2>1, QuietSerial
<1>13. \/ Only(t, Idle)
       \/ \E y : /\ gens' = gens + 1 /\ Become(t, y)
                 /\ Fits(t, y, gens + 1)
                 /\ UNCHANGED <<log, row, owner, runtime, asked, recoveries,
                                crashes>>
  BY <1>1, <1>2, <1>9, <1>10 DEF RebuildBinding, x, g, h, new
<1>14. QED BY <1>11, <1>12, <1>13

LEMMA BeginSerial ==
  ASSUME TurnInv, SerialInv, Serial, NEW t \in Thread, BeginTurn(t)
  PROVE  KeepsSerial
<1>1. PICK s : s = thread[t]
  OBVIOUS
<1>2. PICK b : b = s.binding
  OBVIOUS
<1>3. At(t, "begin") /\ MayLoad
  BY DEF BeginTurn
<1>4. /\ Running(t) /\ s.step = "begin" /\ s \in ThreadState
      /\ s.attempt \in Attempt /\ b \in Binding
  BY <1>1, <1>2, <1>3, AtStep, RunningThread
<1>5. "turnRequested" \in FactType \ {"turnCommitted", "deliveryPrepared"}
  BY DEF FactType
<1>6. ASSUME Only(t, Idle)
      PROVE  KeepsSerial
  BY <1>6, OnlySerial DEF Fits
<1>7. ASSUME NEW c \in Binding,
             Only(t, ToRecovery([s EXCEPT !.binding = c], "crash-window"))
      PROVE  KeepsSerial
  <2> DEFINE q == [s EXCEPT !.binding = c]
             x == ToRecovery(q, "crash-window")
  <2>1. "crash-window" \in Reason /\ "recovery" \notin BeforeSend
    BY DEF Reason, BeforeSend
  <2>2. /\ q \in ThreadState
        /\ q.cmd = s.cmd /\ q.attempt = s.attempt /\ q.end = s.end
    BY <1>4 DEF ThreadState
  <2> HIDE DEF q
  <2>3. /\ Loads(x, q) /\ x.step = "recovery" /\ x.end = q.end
        /\ x.why = "crash-window"
    BY <2>1, <2>2, LoadRecovery
  <2> HIDE DEF x
  <2>4. Resumes(x, s)
    BY <2>1, <2>2, <2>3 DEF Resumes, Loads, Closing
  <2>5. Fits(t, x, gens)
    BY <1>1, <1>4, <2>4, ResumeFits
  <2>6. QED BY <1>7, <2>5, OnlySerial DEF x, q
<1> DEFINE fresh == [gen |-> gens + 1, state |-> "prepared",
                     why |-> "none", native |-> FALSE,
                     trust |-> "dirty", pending |-> NoPending,
                     accepted |-> 0, committed |-> 0]
           again == [row[b] EXCEPT !.state = IF row[b].native THEN "ready"
                                             ELSE "prepared",
                                   !.why = "none"]
           Ends(c) == IF row[c].state = "creating"
                      THEN ToRecovery([s EXCEPT !.binding = c], "crash-window")
                      ELSE Idle
<1>8. CASE /\ \A a \in Attempt : ~Unresolved(a)
           /\ row[b] = NoRow
           /\ gens' = gens + 1
           /\ Become(t, Plan(s, fresh, "turnRequested"))
           /\ UNCHANGED <<log, row, owner, runtime, asked, recoveries, crashes>>
  <2> DEFINE x == Plan(s, fresh, "turnRequested")
  <2>1. /\ fresh \in Row /\ fresh.gen = gens + 1 /\ fresh.pending = NoPending
        /\ fresh.accepted = 0 /\ fresh.committed = 0
    BY FreshDraw DEF Row, State, Reason
  <2> HIDE DEF fresh
  <2>2. /\ x.step = "begin" /\ x.io = "store" /\ x.binding = b
        /\ x.plan = fresh /\ x.fact = "turnRequested"
    BY <1>2, <1>4, <1>5, <2>1, PlanFields
  <2> HIDE DEF x
  <2>3. Fitting(x)
    BY <2>2 DEF Fitting
  <2>4. Planned(x)
    <3>1. UnresolvedOn(b) = {}
      BY <1>8 DEF UnresolvedOn
    <3>2. \A c \in Attempt : NoPending # PendingOf(c, "prepared")
      BY DEF PendingOf, NoPending
    <3>3. QED BY <2>1, <2>2, <3>1, <3>2, FreshDraw DEF Planned, Renews
  <2>5. Forward(x)
    <3>1. Count \in Nat
      BY LifecycleAssumption, FS_Subset, FS_CardinalityType DEF Count
    <3>2. Upto(fresh)
      BY <1>8, <2>1, <3>1 DEF Upto
    <3>3. QED BY <1>8, <2>1, <2>2, <3>2 DEF Forward
  <2>6. gens + 1 <= gens + 1
    BY FreshDraw
  <2>7. Fits(t, x, gens + 1)
    BY <1>1, <1>3, <1>4, <1>5, <2>1, <2>3, <2>4, <2>5, <2>6, PlanFits DEF x
  <2>8. Become(t, x) /\ gens' \in Nat /\ gens <= gens'
    BY <1>8, FreshDraw DEF x
  <2>9. QED BY <1>8, <2>7, <2>8, QuietSerial
<1>9. CASE /\ row[b].state \in {"prepared", "ready"}
           /\ Only(t, Plan(s, again, "turnRequested"))
  <2>1. row[b] \in Row
    BY <1>4, <1>9 DEF NoRow, TurnInv, TypeOK
  <2>2. /\ again \in Row /\ again.gen = row[b].gen
        /\ again.pending = row[b].pending
        /\ again.accepted = row[b].accepted
        /\ again.committed = row[b].committed
    BY <2>1 DEF Row, State, Reason
  <2> HIDE DEF again
  <2>3. Fits(t, Plan(s, again, "turnRequested"), gens)
    BY <1>1, <1>2, <1>3, <1>4, <1>5, <2>1, <2>2, KeptPlan
  <2>4. QED BY <1>9, <2>3, OnlySerial
<1>10. \/ \E a \in Attempt : Only(t, Ends(BindingOf[a]))
       \/ Only(t, Ends(b))
       \/ /\ \A a \in Attempt : ~Unresolved(a)
          /\ row[b] = NoRow
          /\ gens' = gens + 1
          /\ Become(t, Plan(s, fresh, "turnRequested"))
          /\ UNCHANGED <<log, row, owner, runtime, asked, recoveries, crashes>>
       \/ /\ row[b].state \in {"prepared", "ready"}
          /\ Only(t, Plan(s, again, "turnRequested"))
  BY <1>1, <1>2 DEF BeginTurn
<1>11. CASE \E a \in Attempt : Only(t, Ends(BindingOf[a]))
  BY <1>6, <1>7, <1>11, BindingType
<1>12. CASE Only(t, Ends(b))
  BY <1>4, <1>6, <1>7, <1>12
<1>13. QED BY <1>8, <1>9, <1>10, <1>11, <1>12

LEMMA SendSerial ==
  ASSUME TurnInv, SerialInv, NEW t \in Thread, Send(t)
  PROVE  KeepsSerial
<1>1. PICK s : s = thread[t]
  OBVIOUS
<1>2. PICK a : a = s.attempt
  OBVIOUS
<1>3. At(t, "send") /\ "send" \in BeforeSend
      /\ {"bind", "recovery"} \cap BeforeSend = {}
  BY DEF Send, BeforeSend
<1>4. /\ Running(t) /\ s.step = "send" /\ a \in Attempt /\ s \in ThreadState
      /\ Fits(t, ToRecovery(s, "ambiguous"), gens)
  BY <1>1, <1>2, <1>3, Starts
<1>5. Fits(t, ToCommit(s, "failed", "dispatch"), gens)
      /\ Fits(t, ToCommit(s, "missing", "dispatchMissing"), gens)
  BY <1>1, <1>3, BeforeSendIs, CommitFits, Words
<1>6. ASSUME NEW x \in {ToCommit(s, "failed", "dispatch"),
                        ToCommit(s, "missing", "dispatchMissing"),
                        ToRecovery(s, "ambiguous")},
             Only(t, x)
      PROVE  KeepsSerial
  BY <1>4, <1>5, <1>6, OnlySerial
<1>7. ASSUME NEW x \in {Goto(s, "bind"), ToRecovery(s, "ambiguous")},
             Become(t, x), runtime' = [runtime EXCEPT ![a] = "running"],
             UNCHANGED <<store, owner, asked, recoveries, crashes>>
      PROVE  KeepsSerial
  <2>1. UNCHANGED <<log, row, asked>> /\ gens' = gens /\ gens \in Nat
    BY <1>7 DEF store, TurnInv, TypeOK
  <2>2. Fits(t, x, gens)
    BY <1>1, <1>3, <1>4, <1>7, GotoFits
  <2>3. /\ runtime'[a] = "running"
        /\ \A c \in Attempt : c # a => runtime'[c] = runtime[c]
    BY <1>4, <1>7 DEF TurnInv, TypeOK
  <2>4. /\ s.cmd = "dispatch" /\ s.end.by \notin NotSent
        /\ ~PendingIs(a, "prepared") /\ Has(a, "deliveryPrepared")
        /\ Dispatches(t, a)
    BY <1>1, <1>2, <1>3, <1>4, SoundThread DEF Shaped, Careful, Dispatches
  <2>5. x.end = s.end /\ x # Idle /\ x.io = "load"
    <3>1. "bind" \in Step /\ "ambiguous" \in Reason
      BY Words DEF Step
    <3>2. \A y \in {Goto(s, "bind"), ToRecovery(s, "ambiguous")} :
            Loads(y, s) /\ y.end = s.end
      BY <1>4, <3>1, LoadGoto, LoadRecovery
    <3>3. QED BY <1>7, <3>2, Sentinels DEF Loads
  <2>6. OneStorer' /\ Drawn' /\ UnresolvedIsCurrent'
    BY <1>7, <2>1, <2>5, QuietStore
  <2>7. SentWasPrepared' /\ PreparedMeansUnsent'
    <3>1. \A c \in Attempt : /\ Has(c, "deliveryPrepared")' <=>
                                  Has(c, "deliveryPrepared")
                             /\ PendingIs(c, "prepared")' <=>
                                  PendingIs(c, "prepared")
      BY <2>1 DEF Has, PendingIs
    <3>2. SentWasPrepared'
      BY <2>3, <2>4, <3>1 DEF SerialInv, SentWasPrepared
    <3>3. PreparedMeansUnsent'
      BY <2>3, <2>4, <3>1 DEF SerialInv, PreparedMeansUnsent
    <3>4. QED BY <3>2, <3>3
  <2>8. ThreadsSound'
    <3> SUFFICES ASSUME NEW u \in Thread, Running(u)'
                 PROVE  Sound(thread[u])'
      BY DEF ThreadsSound
    <3>1. PICK z : z = thread'[u]
      OBVIOUS
    <3>2. Sound(z) /\ (z.end.by \in NotSent /\ runtime[z.attempt] = "none"
                         => runtime'[z.attempt] = "none")
      <4>1. CASE u = t
        <5>1. z = x
          BY <1>7, <3>1, <4>1, ThreadsAfter
        <5>2. QED BY <2>2, <2>4, <2>5, <5>1 DEF Fits
      <4>2. CASE u # t
        <5>1. z = thread[u] /\ Running(u)
          BY <1>7, <3>1, <4>2, ThreadsAfter
        <5>2. Sound(z) /\ z.attempt \in Attempt
              /\ (z.end.by \in NotSent => z.cmd = "dispatch")
          BY <5>1, SoundThread DEF SerialInv, ThreadsSound, Careful
        <5>3. z.end.by \in NotSent => z.attempt # a
          BY <1>4, <2>4, <4>2, <5>1, <5>2 DEF Dispatches, TurnInv, OneDispatcher
        <5>4. QED BY <2>3, <5>2, <5>3
      <4>3. QED BY <4>1, <4>2
    <3>3. Sound(z)'
      BY <2>1, <3>2, SoundStays
    <3>4. QED BY <3>1, <3>3
  <2>9. ASSUME CursorInv
        PROVE  CursorInv'
    <3>1. Onward(x)' /\ (x.cmd = "prepare" => Prepares(t, x.attempt))
      BY <2>1, <2>2, <2>5, <2>9, OnwardStays DEF Fits
    <3>2. QED BY <1>7, <2>1, <2>9, <3>1, QuietCursors
  <2>10. QED BY <2>6, <2>7, <2>8, <2>9 DEF SerialInv, KeepsSerial
<1>8. \/ \E x \in {ToCommit(s, "failed", "dispatch"),
                   ToCommit(s, "missing", "dispatchMissing"),
                   ToRecovery(s, "ambiguous")} : Only(t, x)
      \/ \E x \in {Goto(s, "bind"), ToRecovery(s, "ambiguous")} :
           /\ Become(t, x) /\ runtime' = [runtime EXCEPT ![a] = "running"]
           /\ UNCHANGED <<store, owner, asked, recoveries, crashes>>
  BY <1>1, <1>2 DEF Send
<1>9. QED BY <1>6, <1>7, <1>8

-----------------------------------------------------------------------------
(* Commands that start, the engine and the crash.                          *)

\* A command at its first load.
LEMMA FreshFits ==
  ASSUME TurnInv, SerialInv, NEW t \in Thread, NEW x \in ThreadState,
         x.io = "load", x.fact = NoFact, x.cmd # "prepare",
         x.cmd # "dispatch", x.end.by \notin NotSent, ~Closing(x),
         x.step \notin {"prepare", "send"},
         x.step = "rebuild" => x.end = NoTerminal,
         x.step \in {"evidence", "forget"} => x.cmd = "abandon",
         CursorInv =>
           /\ x.cmd \notin {"recover", "rebuild", "abandon"}
           /\ x.step = "commit" => \/ asked[x.attempt] = "dispatch"
                                   \/ Has(x.attempt, "deliveryPrepared")
  PROVE  Fits(t, x, gens)
<1>1. Fitting(x)
  BY DEF Fitting, NoFact
<1>2. Careful(x)
  BY DEF Careful
<1>3. CursorInv => Timely(x)
  BY DEF Timely
<1>4. QED BY <1>1, <1>2, <1>3 DEF Fits, Sound, Onward

LEMMA FreshCommitFits ==
  ASSUME TurnInv, SerialInv, NEW t \in Thread, NEW a \in Attempt,
         NEW cmd \in Command \ {"prepare", "dispatch"},
         NEW outcome \in Outcome, NEW by \in Author, by \notin NotSent,
         CursorInv =>
           /\ cmd \notin {"recover", "rebuild", "abandon"}
           /\ asked[a] = "dispatch" \/ Has(a, "deliveryPrepared")
  PROVE  Fits(t, ToCommit(Start(cmd, "commit", a, BindingOf[a]), outcome, by),
              gens)
<1> DEFINE q == Start(cmd, "commit", a, BindingOf[a])
           x == ToCommit(q, outcome, by)
<1>1. "commit" \in Step
  BY DEF Step
<1>2. q \in ThreadState /\ q.cmd = cmd /\ q.attempt = a
  BY <1>1, StartFields, BindingType
<1> HIDE DEF q
<1>3. Loads(x, q) /\ x.step = "commit" /\ x.end.by = by
  BY <1>2, LoadCommit
<1> HIDE DEF x
<1>4. /\ x \in ThreadState /\ x.io = "load" /\ x.fact = NoFact
      /\ x.cmd = cmd /\ x.attempt = a
  BY <1>2, <1>3 DEF Loads
<1>5. ~Closing(x)
  BY <1>3 DEF Closing
<1>6. Fits(t, x, gens)
  BY <1>3, <1>4, <1>5, FreshFits
<1>7. QED BY <1>6 DEF x, q

LEMMA ObserveSerial ==
  ASSUME TurnInv, SerialInv, NEW t \in Thread, NEW a \in Attempt,
         ObserveEnd(t, a) \/ AwaitTerminal(t, a)
  PROVE  KeepsSerial
<1> DEFINE x == ToCommit(Start("observe", "commit", a, BindingOf[a]),
                         runtime[a], "runtime")
<1>1. "observe" \in Command \ {"prepare", "dispatch"}
      /\ "runtime" \in Author /\ "runtime" \notin NotSent
      /\ "observe" \notin {"recover", "rebuild", "abandon"}
  BY Words DEF Command, NotSent
<1>2. Ended(a)
  BY SettledRow DEF ObserveEnd, AwaitTerminal
<1>3. Fits(t, x, gens)
  BY <1>1, <1>2, EndedAsked, EndedOutcome, FreshCommitFits
<1> HIDE DEF x
<1>4. Become(t, x) /\ UNCHANGED <<store, runtime, asked>>
  BY DEF ObserveEnd, AwaitTerminal, x
<1>5. QED BY <1>3, <1>4, OwnerSerial

LEMMA IssueBeginSerial ==
  ASSUME TurnInv, SerialInv, NEW t \in Thread, NEW a \in Attempt,
         IssueBegin(t, a)
  PROVE  KeepsSerial
<1> DEFINE x == Start("begin", "begin", a, BindingOf[a])
<1>1. "begin" \in Command /\ "begin" \in Step
  BY DEF Command, Step
<1>2. /\ x \in ThreadState /\ x.cmd = "begin" /\ x.step = "begin"
      /\ x.io = "load" /\ x.fact = NoFact /\ x.end.by = "nobody"
  BY <1>1, StartFields, BindingType DEF NoTerminal
<1> HIDE DEF x
<1>3. Fits(t, x, gens)
  <2>1. ~Closing(x) /\ "nobody" \notin NotSent
    BY <1>2 DEF Closing, NotSent
  <2>2. QED BY <1>2, <2>1, FreshFits
<1>4. Only(t, x)
  BY DEF IssueBegin, Issue, Only, x
<1>5. QED BY <1>3, <1>4, OnlySerial

LEMMA IssueNextSerial ==
  ASSUME TurnInv, SerialInv, NEW t \in Thread, NEW a \in Attempt,
         IssuePrepare(t, a) \/ IssueDispatch(t, a)
  PROVE  KeepsSerial
<1>1. PICK cmd \in {"prepare", "dispatch"}, step \in {"prepare", "check"} :
        /\ Become(t, Start(cmd, step, a, BindingOf[a]))
        /\ asked' = [asked EXCEPT ![a] = cmd]
        /\ cmd = "prepare" <=> step = "prepare"
        /\ cmd = "prepare" => asked[a] = "nothing" /\ Requested(a)
        /\ cmd = "dispatch" => asked[a] = "prepare" /\ Has(a, "deliveryPrepared")
  BY DEF IssuePrepare, IssueDispatch, IssueNext, Issue
<1>2. ~Busy(a) /\ UNCHANGED <<log, row, runtime>> /\ gens' = gens /\ gens \in Nat
  BY DEF IssuePrepare, IssueDispatch, IssueNext, store, TurnInv, TypeOK
<1> DEFINE x == Start(cmd, step, a, BindingOf[a])
<1>3. /\ x \in ThreadState /\ x.cmd = cmd /\ x.attempt = a /\ x.step = step
      /\ x.io = "load" /\ x.fact = NoFact /\ x.end.by = "nobody"
  <2>1. cmd \in Command /\ step \in Step
    BY DEF Command, Step
  <2>2. QED BY <2>1, StartFields, BindingType DEF NoTerminal
<1>4. Become(t, x)
  BY <1>1
<1> HIDE DEF x
<1>5. /\ asked'[a] = cmd
      /\ \A c \in Attempt : c # a => asked'[c] = asked[c]
  BY <1>1 DEF TurnInv, TypeOK
<1>6. \A u \in Thread :
        Running(u) /\ thread[u].attempt = a => thread[u].cmd # "prepare"
  BY <1>2 DEF Busy
<1>7. OneStorer' /\ Drawn' /\ UnresolvedIsCurrent'
  BY <1>2, <1>3, <1>4, QuietStore
<1>8. SentWasPrepared' /\ PreparedMeansUnsent'
  BY <1>2 DEF SerialInv, SentWasPrepared, PreparedMeansUnsent, Has, PendingIs
<1>9. Sound(x)
  <2>1. Fitting(x)
    BY <1>3 DEF Fitting, NoFact
  <2>2. Careful(x)
    BY <1>1, <1>3 DEF Careful, Closing, NotSent
  <2>3. QED BY <1>3, <2>1, <2>2 DEF Sound
<1>10. ThreadsSound'
  <2> SUFFICES ASSUME NEW u \in Thread, Running(u)'
               PROVE  Sound(thread[u])'
    BY DEF ThreadsSound
  <2>1. PICK s : s = thread'[u]
    OBVIOUS
  <2>2. Sound(s)
    BY <1>4, <1>9, <2>1, ThreadsAfter DEF SerialInv, ThreadsSound
  <2>3. Sound(s)'
    BY <1>2, <2>2, SoundStays
  <2>4. QED BY <2>1, <2>3
<1>11. ASSUME CursorInv
       PROVE  CursorInv'
  <2>1. OnePreparer'
    <3> SUFFICES ASSUME NEW u \in Thread, NEW v \in Thread,
                        Running(u)', Running(v)',
                        thread'[u].cmd = "prepare", thread'[v].cmd = "prepare",
                        thread'[u].attempt = thread'[v].attempt
                 PROVE  u = v
      BY DEF OnePreparer
    <3>1. CASE u = t
      <4>1. thread'[v].attempt = a
        BY <1>3, <1>4, <3>1, ThreadsAfter
      <4>2. QED BY <1>4, <1>6, <3>1, <4>1, ThreadsAfter
    <3>2. CASE v = t
      <4>1. thread'[u].attempt = a
        BY <1>3, <1>4, <3>2, ThreadsAfter
      <4>2. QED BY <1>4, <1>6, <3>2, <4>1, ThreadsAfter
    <3>3. CASE u # t /\ v # t
      BY <1>4, <1>11, <3>3, ThreadsAfter DEF CursorInv, OnePreparer
    <3>4. QED BY <3>1, <3>2, <3>3
  <2>2. Count' = Count
    BY <1>2 DEF Count, Requested
  <2>3. \A c \in Attempt :
          /\ Unresolved(c)' <=> Unresolved(c)
          /\ Requested(c)' <=> Requested(c)
          /\ Committed(c)' <=> Committed(c)
          /\ Has(c, "deliveryPrepared")' <=> Has(c, "deliveryPrepared")
    BY <1>2 DEF Unresolved, Requested, Committed, Has
  <2>4. FactsInOrder'
    <3>1. \A c \in Attempt : asked'[c] = "nothing" => asked[c] = "nothing"
      BY <1>1, <1>5
    <3>2. QED BY <1>2, <1>11, <2>2, <2>3, <3>1 DEF CursorInv, FactsInOrder
  <2>5. RowsInOrder'
    <3> SUFFICES ASSUME NEW b \in Binding, row[b] # NoRow
                 PROVE  (/\ Upto(row[b])
                         /\ row[b].pending # NoPending =>
                              /\ Belongs(row[b].pending, b)
                              /\ Has(row[b].pending.attempt,
                                     "deliveryPrepared"))'
      BY <1>2 DEF RowsInOrder
    <3>1. Upto(row[b])' <=> Upto(row[b])
      BY <1>2, <2>2, <2>3 DEF Upto
    <3>2. Belongs(row[b].pending, b)' <=> Belongs(row[b].pending, b)
      BY <1>2 DEF Belongs, Unresolved, Requested, Committed
    <3>3. QED BY <1>2, <1>11, <3>1, <3>2 DEF CursorInv, RowsInOrder, Has
  <2>6. ASSUME NEW s, Forward(s)
        PROVE  Forward(s)'
    <3>1. Upto(s.plan)' <=> Upto(s.plan)
      BY <1>2, <2>2, <2>3 DEF Upto
    <3>2. Belongs(s.plan.pending, s.binding)' <=>
            Belongs(s.plan.pending, s.binding)
      BY <1>2 DEF Belongs, Unresolved, Requested, Committed
    <3>3. QED BY <1>2, <2>6, <3>1, <3>2 DEF Forward, Has
  <2>7. ThreadsOnward'
    <3> SUFFICES ASSUME NEW u \in Thread, Running(u)'
                 PROVE  Onward(thread[u])'
      BY DEF ThreadsOnward
    <3>1. PICK s : s = thread'[u]
      OBVIOUS
    <3>2. CASE u = t
      <4>1. s = x
        BY <1>4, <3>1, <3>2, ThreadsAfter
      <4>2. cmd = "prepare" => Unresolved(a) /\ ~Has(a, "deliveryPrepared")
        BY <1>1, <1>11 DEF CursorInv, FactsInOrder, Unresolved
      <4>3. Timely(s)'
        BY <1>1, <1>3, <1>5, <2>3, <4>1, <4>2 DEF Timely
      <4>4. QED BY <1>3, <3>1, <4>1, <4>3 DEF Onward
    <3>3. CASE u # t
      <4>1. s = thread[u] /\ Running(u) /\ s.attempt \in Attempt
        BY <1>4, <3>1, <3>3, ThreadsAfter, RunningThread
      <4>2. Timely(s) /\ (s.io = "store" => Forward(s))
        BY <1>11, <4>1 DEF CursorInv, ThreadsOnward, Onward
      <4>3. s.attempt = a => s.cmd # "prepare"
        BY <1>6, <4>1
      <4>4. Timely(s)'
        BY <1>1, <1>5, <2>3, <4>1, <4>2, <4>3 DEF Timely
      <4>5. QED BY <2>6, <3>1, <4>2, <4>4 DEF Onward
    <3>4. QED BY <3>2, <3>3
  <2>8. QED
    BY <1>11, <2>1, <2>4, <2>5, <2>7 DEF CursorInv, MildRecovery
<1>12. QED
  BY <1>7, <1>8, <1>10, <1>11 DEF SerialInv, KeepsSerial

LEMMA IssueRecoverySerial ==
  ASSUME TurnInv, SerialInv, NEW t \in Thread, NEW a \in Attempt,
         IssueRecovery(t, a)
  PROVE  KeepsSerial
<1>1. ASSUME NEW cmd, Recover(t, a, cmd), NEW x, Become(t, x),
             Fits(t, x, gens)
      PROVE  KeepsSerial
  <2>1. UNCHANGED <<store, runtime, asked>>
    BY <1>1 DEF Recover
  <2>2. QED BY <1>1, <2>1, OwnerSerial
<1>2. /\ RecoveryCommand \subseteq Command \ {"prepare", "dispatch"}
      /\ CursorInv => RecoveryCommand \cap {"recover", "rebuild", "abandon"} = {}
  BY LifecycleAssumption DEF Command, CursorInv, MildRecovery
<1>3. {"user", "probe", "runtime"} \subseteq Author \ NotSent
  BY Words DEF NotSent
<1>4. ASSUME NEW cmd \in RecoveryCommand, Settled(a)
      PROVE  Fits(t, ToCommit(Begun(cmd, a), runtime[a], "runtime"), gens)
  <2>1. asked[a] = "dispatch" /\ runtime[a] \in Outcome
    BY <1>4, SettledRow, EndedAsked
  <2>2. QED BY <1>2, <1>3, <1>4, <2>1, FreshCommitFits DEF Begun
<1>5. ASSUME NEW cmd \in RecoveryCommand, NEW by \in {"user", "probe"},
             CursorInv => Has(a, "deliveryPrepared")
      PROVE  Fits(t, ToCommit(Begun(cmd, a), "cancelled", by), gens)
  BY <1>2, <1>3, <1>5, FreshCommitFits, Words DEF Begun
<1>6. ASSUME NEW cmd \in RecoveryCommand
      PROVE  /\ Begun(cmd, a) \in ThreadState /\ Begun(cmd, a).cmd = cmd
             /\ Begun(cmd, a).end = NoTerminal
  <2>1. "commit" \in Step
    BY DEF Step
  <2>2. QED BY <1>2, <2>1, StartFields, BindingType DEF Begun
<1>7. NoTerminal.by \notin NotSent
  BY DEF NoTerminal, NotSent
<1>8. ASSUME NEW cmd \in RecoveryCommand
      PROVE  Fits(t, ToRecovery(Begun(cmd, a), "marked"), gens)
  <2> DEFINE x == ToRecovery(Begun(cmd, a), "marked")
  <2>1. /\ x \in ThreadState /\ x.io = "load" /\ x.fact = NoFact
        /\ x.cmd = cmd /\ x.step = "recovery" /\ x.why = "marked"
        /\ x.end = NoTerminal
    <3>1. PICK q : q = Begun(cmd, a)
      OBVIOUS
    <3>2. q \in ThreadState /\ q.cmd = cmd /\ q.end = NoTerminal
      BY <1>6, <1>8, <3>1
    <3>3. "marked" \in Reason
      BY Words
    <3>4. x = ToRecovery(q, "marked")
      BY <3>1
    <3> HIDE DEF x
    <3>5. QED BY <3>2, <3>3, <3>4, ToRecoveryFields
  <2> HIDE DEF x
  <2>2. ~Closing(x)
    BY <2>1 DEF Closing
  <2>3. Fits(t, x, gens)
    BY <1>2, <1>7, <2>1, <2>2, FreshFits
  <2>4. QED BY <2>3 DEF x
<1>9. ASSUME NEW cmd \in RecoveryCommand,
             NEW step \in {"evidence", "rebuild"},
             cmd = IF step = "evidence" THEN "abandon" ELSE "rebuild"
      PROVE  Fits(t, Goto(Begun(cmd, a), step), gens)
  <2> DEFINE x == Goto(Begun(cmd, a), step)
  <2>1. /\ x \in ThreadState /\ x.io = "load" /\ x.fact = NoFact
        /\ x.cmd = cmd /\ x.step = step /\ x.end = NoTerminal
    BY <1>6, GotoFields DEF Step
  <2> HIDE DEF x
  <2>2. ~Closing(x)
    BY <2>1 DEF Closing
  <2>3. Fits(t, x, gens)
    BY <1>2, <1>7, <1>9, <2>1, <2>2, FreshFits
  <2>4. QED BY <2>3 DEF x
<1>10. CASE CancelAttempt(t, a)
  <2>1. /\ Recover(t, a, "cancel") /\ PendingIs(a, "prepared")
        /\ Become(t, ToCommit(Begun("cancel", a), "cancelled", "user"))
    BY <1>10 DEF CancelAttempt
  <2>2. CursorInv => Has(a, "deliveryPrepared")
    <3>1. /\ PendingOf(a, "prepared") # NoPending
          /\ PendingOf(a, "prepared").attempt = a
      BY DEF PendingOf, NoPending
    <3>2. QED
      BY <2>1, <3>1, BindingType DEF PendingIs, CursorInv, RowsInOrder
  <2>3. "cancel" \in RecoveryCommand
    BY <2>1 DEF Recover
  <2>4. Fits(t, ToCommit(Begun("cancel", a), "cancelled", "user"), gens)
    BY <1>5, <2>2, <2>3
  <2>5. QED BY <1>1, <2>1, <2>4
<1>11. CASE MarkRecoveryCommand(t, a)
  <2>1. /\ Recover(t, a, "markRecovery")
        /\ \/ /\ Settled(a)
              /\ Become(t, ToCommit(Begun("markRecovery", a), runtime[a],
                                    "runtime"))
           \/ Become(t, ToRecovery(Begun("markRecovery", a), "marked"))
    BY <1>11 DEF MarkRecoveryCommand
  <2>2. "markRecovery" \in RecoveryCommand
    BY <2>1 DEF Recover
  <2>3. PICK x : Become(t, x) /\ Fits(t, x, gens)
    BY <1>4, <1>8, <2>1, <2>2
  <2>4. QED BY <1>1, <2>1, <2>3
<1>12. CASE RecoverAttempt(t, a)
  <2>1. /\ Recover(t, a, "recover")
        /\ \/ /\ Settled(a)
              /\ Become(t, ToCommit(Begun("recover", a), runtime[a], "runtime"))
           \/ Become(t, ToCommit(Begun("recover", a), "cancelled", "probe"))
    BY <1>12 DEF RecoverAttempt
  <2>2. "recover" \in RecoveryCommand
    BY <2>1 DEF Recover
  <2>3. ~CursorInv
    BY <1>2, <2>2
  <2>4. Fits(t, ToCommit(Begun("recover", a), "cancelled", "probe"), gens)
    BY <1>5, <2>2, <2>3
  <2>5. PICK x : Become(t, x) /\ Fits(t, x, gens)
    BY <1>4, <2>1, <2>2, <2>4
  <2>6. QED BY <1>1, <2>1, <2>5
<1>13. CASE RebuildCommand(t, a)
  <2>1. /\ Recover(t, a, "rebuild")
        /\ \/ /\ Settled(a)
              /\ Become(t, ToCommit(Begun("rebuild", a), runtime[a], "runtime"))
           \/ Become(t, Goto(Begun("rebuild", a), "rebuild"))
    BY <1>13 DEF RebuildCommand
  <2>2. "rebuild" \in RecoveryCommand
    BY <2>1 DEF Recover
  <2>3. Fits(t, Goto(Begun("rebuild", a), "rebuild"), gens)
    BY <1>9, <2>2
  <2>4. PICK x : Become(t, x) /\ Fits(t, x, gens)
    BY <1>4, <2>1, <2>2, <2>3
  <2>5. QED BY <1>1, <2>1, <2>4
<1>14. CASE AbandonCommand(t, a)
  <2>1. /\ Recover(t, a, "abandon")
        /\ Become(t, Goto(Begun("abandon", a), "evidence"))
    BY <1>14 DEF AbandonCommand
  <2>2. "abandon" \in RecoveryCommand
    BY <2>1 DEF Recover
  <2>3. Fits(t, Goto(Begun("abandon", a), "evidence"), gens)
    BY <1>9, <2>2
  <2>4. QED BY <1>1, <2>1, <2>3
<1>15. QED BY <1>10, <1>11, <1>12, <1>13, <1>14 DEF IssueRecovery

\* Nothing the cursors depend on has changed.
LEMMA SameCursors ==
  ASSUME CursorInv, UNCHANGED <<log, row, asked, thread>>
  PROVE  CursorInv'
<1>1. OnePreparer'
  BY DEF CursorInv, OnePreparer, Running
<1>2. Count' = Count
  BY DEF Count, Requested
<1>3. FactsInOrder'
  <2>1. \A a \in Attempt :
          /\ Unresolved(a)' <=> Unresolved(a)
          /\ Requested(a)' <=> Requested(a)
          /\ Committed(a)' <=> Committed(a)
          /\ Has(a, "deliveryPrepared")' <=> Has(a, "deliveryPrepared")
    BY DEF Unresolved, Requested, Committed, Has
  <2>2. QED BY <1>2, <2>1 DEF CursorInv, FactsInOrder
<1>4. RowsInOrder'
  BY DEF CursorInv, RowsInOrder, Upto, Count, Belongs, Unresolved, Requested,
         Committed, Has
<1>5. ThreadsOnward'
  <2> SUFFICES ASSUME NEW u \in Thread, Running(u)'
               PROVE  Onward(thread[u])'
    BY DEF ThreadsOnward
  <2>1. PICK s : s = thread[u]
    OBVIOUS
  <2>2. Running(u) /\ thread'[u] = s /\ Onward(s)
    BY <2>1 DEF Running, CursorInv, ThreadsOnward
  <2>3. Onward(s)'
    BY <2>2, OnwardStays
  <2>4. QED BY <2>2, <2>3
<1>6. QED BY <1>1, <1>3, <1>4, <1>5 DEF CursorInv, MildRecovery

LEMMA EndSerial ==
  ASSUME TurnInv, SerialInv, NEW a \in Attempt, NEW outcome \in RuntimeOutcome,
         EndTurn(a, outcome)
  PROVE  KeepsSerial
<1>1. /\ runtime[a] = "running" /\ runtime'[a] = outcome
      /\ \A c \in Attempt : c # a => runtime'[c] = runtime[c]
      /\ UNCHANGED <<log, row, gens, asked, thread>>
  BY DEF EndTurn, TurnInv, TypeOK, store
<1>2. OneStorer' /\ Drawn' /\ UnresolvedIsCurrent'
  BY <1>1 DEF SerialInv, OneStorer, Drawn, UnresolvedIsCurrent, Storing, Running,
              Unresolved, Requested, Committed, Current
<1>3. SentWasPrepared' /\ PreparedMeansUnsent'
  <2>1. \A c \in Attempt : /\ Has(c, "deliveryPrepared")' <=>
                                Has(c, "deliveryPrepared")
                           /\ PendingIs(c, "prepared")' <=>
                                PendingIs(c, "prepared")
    BY <1>1 DEF Has, PendingIs
  <2>2. SentWasPrepared'
    BY <1>1, <2>1 DEF SerialInv, SentWasPrepared
  <2>3. PreparedMeansUnsent'
    BY <1>1, <2>1 DEF SerialInv, PreparedMeansUnsent
  <2>4. QED BY <2>2, <2>3
<1>4. ThreadsSound'
  <2> SUFFICES ASSUME NEW u \in Thread, Running(u)'
               PROVE  Sound(thread[u])'
    BY DEF ThreadsSound
  <2>1. PICK s : s = thread[u]
    OBVIOUS
  <2>2. Running(u) /\ thread'[u] = s
    BY <1>1, <2>1 DEF Running
  <2>3. Sound(s) /\ s.attempt \in Attempt
    BY <2>1, <2>2, RunningThread DEF SerialInv, ThreadsSound
  <2>4. runtime[s.attempt] = "none" => runtime'[s.attempt] = "none"
    BY <1>1, <2>3
  <2>5. Sound(s)'
    BY <1>1, <2>3, <2>4, SoundStays
  <2>6. QED BY <2>2, <2>5
<1>5. CursorInv => CursorInv'
  BY <1>1, SameCursors
<1>6. QED BY <1>2, <1>3, <1>4, <1>5 DEF SerialInv, KeepsSerial

LEMMA CrashSerial ==
  ASSUME TurnInv, SerialInv, Crash
  PROVE  KeepsSerial
<1>1. /\ UNCHANGED <<log, row, gens, runtime>>
      /\ asked' = [a \in Attempt |->
                     IF Requested(a) THEN "dispatch" ELSE "nothing"]
      /\ \A t \in Thread : ~Running(t)'
  BY DEF Crash, store, Running
<1>2. OneStorer' /\ ThreadsSound' /\ OnePreparer' /\ ThreadsOnward'
  BY <1>1 DEF OneStorer, ThreadsSound, OnePreparer, ThreadsOnward, Storing
<1>3. Drawn' /\ UnresolvedIsCurrent'
  BY <1>1 DEF SerialInv, Drawn, UnresolvedIsCurrent, Storing, Unresolved,
              Requested, Committed, Current
<1>4. SentWasPrepared' /\ PreparedMeansUnsent'
  BY <1>1 DEF SerialInv, SentWasPrepared, PreparedMeansUnsent, Has, PendingIs
<1>5. ASSUME CursorInv
      PROVE  CursorInv'
  <2>1. \A a \in Attempt :
          /\ asked'[a] = "nothing" => ~Requested(a)
          /\ Requested(a)' <=> Requested(a)
          /\ Committed(a)' <=> Committed(a)
          /\ Unresolved(a)' <=> Unresolved(a)
          /\ Has(a, "deliveryPrepared")' <=> Has(a, "deliveryPrepared")
    BY <1>1 DEF Requested, Committed, Unresolved, Has
  <2>2. Count' = Count
    BY <1>1 DEF Count, Requested
  <2>3. FactsInOrder'
    BY <1>1, <1>5, <2>1, <2>2 DEF CursorInv, FactsInOrder
  <2>4. RowsInOrder'
    BY <1>1, <1>5 DEF CursorInv, RowsInOrder, Upto, Count, Belongs, Unresolved,
                      Requested, Committed, Has
  <2>5. QED BY <1>2, <1>5, <2>3, <2>4 DEF CursorInv, MildRecovery
<1>6. QED BY <1>2, <1>3, <1>4, <1>5 DEF SerialInv, KeepsSerial

LEMMA StutterSerial ==
  ASSUME TurnInv, SerialInv, UNCHANGED vars
  PROVE  KeepsSerial
<1>1. UNCHANGED <<log, row, gens, runtime, asked, thread>>
  BY DEF vars
<1>2. OneStorer' /\ Drawn' /\ UnresolvedIsCurrent'
  BY <1>1 DEF SerialInv, OneStorer, Drawn, UnresolvedIsCurrent, Storing, Running,
              Unresolved, Requested, Committed, Current
<1>3. SentWasPrepared' /\ PreparedMeansUnsent'
  BY <1>1 DEF SerialInv, SentWasPrepared, PreparedMeansUnsent, Has, PendingIs
<1>4. ThreadsSound'
  <2> SUFFICES ASSUME NEW u \in Thread, Running(u)'
               PROVE  Sound(thread[u])'
    BY DEF ThreadsSound
  <2>1. PICK s : s = thread[u]
    OBVIOUS
  <2>2. Running(u) /\ thread'[u] = s /\ Sound(s)
    BY <1>1, <2>1 DEF Running, SerialInv, ThreadsSound
  <2>3. Sound(s)'
    BY <1>1, <2>2, SoundStays
  <2>4. QED BY <2>2, <2>3
<1>5. CursorInv => CursorInv'
  BY <1>1, SameCursors
<1>6. QED BY <1>2, <1>3, <1>4, <1>5 DEF SerialInv, KeepsSerial

-----------------------------------------------------------------------------
(* The calls to the writer actor.                                          *)

LEMMA AnswerSerial ==
  ASSUME TurnInv, SerialInv, NEW t \in Thread, Replay(t) \/ Refuse(t)
  PROVE  KeepsSerial
<1>1. PICK s : s = thread[t]
  OBVIOUS
<1>2. /\ Running(t) /\ s.io = "store" /\ s.fact # NoFact
      /\ \/ Recorded(s) /\ (Only(t, After(s, "ok")) \/ Only(t, After(s, "error")))
         \/ Only(t, After(s, "error"))
  BY <1>1 DEF Replay, Refuse, Storing, Only
<1>3. Fitting(s) /\ Careful(s)
  BY <1>1, <1>2, SoundThread
<1>4. s.step # "sent"
  BY <1>2, <1>3 DEF Fitting
<1>5. ASSUME Recorded(s)
      PROVE  Clears(s, "ok") => Committed(s.attempt) \/ s.end.by \in NotSent
  <2>1. s.step \in {"commit", "rebuild"} /\ s.end # NoTerminal
          => s.fact = "turnCommitted"
    BY <1>2, <1>3 DEF Fitting
  <2>2. s.fact = "turnCommitted" => Committed(s.attempt)
    BY <1>5 DEF Recorded
  <2>3. QED BY <1>3, <2>1, <2>2 DEF Clears, Careful
<1>6. Clears(s, "error") => Committed(s.attempt) \/ s.end.by \in NotSent
  BY <1>3 DEF Clears, Careful
<1>7. PICK result \in {"ok", "error"} :
        /\ Clears(s, result) => Committed(s.attempt) \/ s.end.by \in NotSent
        /\ Only(t, After(s, result))
  BY <1>2, <1>5, <1>6
<1>8. Fits(t, After(s, result), gens)
  BY <1>1, <1>2, <1>4, <1>7, ReturnFits
<1>9. QED BY <1>7, <1>8, OnlySerial

\* What a write does to the row of its binding and to the facts of its attempt.
Wrote(s) ==
  LET a == s.attempt IN
  /\ row'[s.binding] = s.plan
  /\ \A b \in Binding : b # s.binding => row'[b] = row[b]
  /\ \A c \in Attempt : c # a => log'[c] = log[c]
  /\ UNCHANGED <<gens, runtime, asked>>
  /\ IF s.fact = "turnRequested"
     THEN /\ ~Requested(a) /\ \A c \in Attempt : ~Unresolved(c)
          /\ log'[a].gen = s.plan.gen /\ log'[a].after = Count
     ELSE log'[a].gen = log[a].gen /\ log'[a].after = log[a].after
  /\ IF s.fact = "turnCommitted"
     THEN ~Committed(a) /\ log'[a].terminal = s.end
     ELSE log'[a].terminal = log[a].terminal
  /\ log[a].has \subseteq log'[a].has
  /\ IF s.fact = "deliveryPrepared"
     THEN ~Has(a, "deliveryPrepared") /\ Has(a, "deliveryPrepared")'
     ELSE Has(a, "deliveryPrepared")' <=> Has(a, "deliveryPrepared")

LEMMA WriteIs ==
  ASSUME TurnInv, NEW t \in Thread, Upsert(t) \/ Append(t), NEW s,
         s = thread[t]
  PROVE  /\ Running(t) /\ Storing(t) /\ s.io = "store"
         /\ Become(t, After(s, "ok")) /\ Wrote(s)
<1>1. /\ Running(t) /\ Storing(t) /\ s.io = "store"
      /\ Become(t, After(s, "ok"))
      /\ row' = [row EXCEPT ![s.binding] = s.plan]
      /\ UNCHANGED <<gens, runtime, asked>>
  BY DEF Upsert, Append, Storing
<1>2. /\ s \in ThreadState /\ s.attempt \in Attempt /\ s.binding \in Binding
  BY <1>1, RunningThread
<1>3. /\ row'[s.binding] = s.plan
      /\ \A b \in Binding : b # s.binding => row'[b] = row[b]
  BY <1>1, <1>2 DEF TurnInv, TypeOK
<1>4. CASE Upsert(t)
  <2>1. s.fact = NoFact /\ log' = log
    BY <1>4 DEF Upsert
  <2>2. QED BY <1>1, <1>3, <2>1 DEF Wrote, NoFact, Has
<1>5. CASE Append(t)
  <2>1. PICK a : a = s.attempt
    OBVIOUS
  <2>2. PICK f : f = log[a]
    OBVIOUS
  <2>3. PICK g : g = WithFact(s)
    OBVIOUS
  <2>4. /\ ~Recorded(s) /\ Admitted(s) /\ s.fact # NoFact
        /\ log' = [log EXCEPT ![a] = g]
    BY <1>5, <2>1, <2>3 DEF Append
  <2>5. /\ log'[a] = g /\ f \in Facts
        /\ \A c \in Attempt : c # a => log'[c] = log[c]
    BY <1>2, <2>1, <2>2, <2>4 DEF TurnInv, TypeOK
  <2>6. s.fact \in FactType
    BY <1>2 DEF ThreadState
  <2>7. CASE s.fact = "turnRequested"
    <3>1. g = [f EXCEPT !.gen = s.plan.gen, !.after = Count]
      BY <2>1, <2>2, <2>3, <2>7 DEF WithFact, Count
    <3>2. /\ g.gen = s.plan.gen /\ g.after = Count
          /\ g.terminal = f.terminal /\ g.has = f.has
      BY <2>5, <3>1 DEF Facts
    <3>3. ~Requested(a) /\ \A c \in Attempt : ~Unresolved(c)
      BY <2>1, <2>4, <2>7 DEF Recorded, Admitted
    <3>4. QED
      BY <1>1, <1>3, <2>1, <2>2, <2>5, <2>7, <3>2, <3>3 DEF Wrote, Has
  <2>8. CASE s.fact = "turnCommitted"
    <3>1. g = [f EXCEPT !.terminal = s.end]
      BY <2>1, <2>2, <2>3, <2>8 DEF WithFact
    <3>2. /\ g.gen = f.gen /\ g.after = f.after
          /\ g.terminal = s.end /\ g.has = f.has
      BY <2>5, <3>1 DEF Facts
    <3>3. ~Committed(a)
      BY <2>1, <2>4, <2>8 DEF Recorded
    <3>4. QED
      BY <1>1, <1>3, <2>1, <2>2, <2>5, <2>8, <3>2, <3>3 DEF Wrote, Has
  <2>9. CASE s.fact \notin {"turnRequested", "turnCommitted"}
    <3>1. g = [f EXCEPT !.has = @ \cup {s.fact}]
      BY <2>1, <2>2, <2>3, <2>9 DEF WithFact
    <3>2. /\ g.gen = f.gen /\ g.after = f.after
          /\ g.terminal = f.terminal /\ g.has = f.has \cup {s.fact}
      BY <2>5, <3>1 DEF Facts
    <3>3. ~Has(a, s.fact)
      BY <2>1, <2>4, <2>9 DEF Recorded
    <3>4. QED
      BY <1>1, <1>3, <2>1, <2>2, <2>5, <2>9, <3>2, <3>3 DEF Wrote, Has
  <2>10. QED BY <2>7, <2>8, <2>9
<1>6. QED BY <1>4, <1>5

\* What every write keeps.
LEMMA WroteKeeps ==
  ASSUME TurnInv, NEW s \in ThreadState, Wrote(s)
  PROVE  \A c \in Attempt :
           /\ Requested(c) => Requested(c)' /\ log'[c].gen = log[c].gen
           /\ Committed(c) => Committed(c)'
           /\ Has(c, "deliveryPrepared") => Has(c, "deliveryPrepared")'
           /\ Unresolved(c)' =>
                \/ Unresolved(c)
                \/ /\ c = s.attempt /\ s.fact = "turnRequested"
                   /\ log'[c].gen = s.plan.gen /\ log'[c].after = Count
           /\ \/ log'[c].gen = log[c].gen
              \/ log'[c].gen = s.plan.gen
           /\ Committed(c)' => \/ Committed(c)
                               \/ c = s.attempt /\ s.fact = "turnCommitted"
           /\ Has(c, "deliveryPrepared")' =>
                \/ Has(c, "deliveryPrepared")
                \/ c = s.attempt /\ s.fact = "deliveryPrepared"
<1> SUFFICES ASSUME NEW c \in Attempt
             PROVE  /\ Requested(c) => Requested(c)' /\ log'[c].gen = log[c].gen
                    /\ Committed(c) => Committed(c)'
                    /\ Has(c, "deliveryPrepared") => Has(c, "deliveryPrepared")'
                    /\ Unresolved(c)' =>
                         \/ Unresolved(c)
                         \/ /\ c = s.attempt /\ s.fact = "turnRequested"
                            /\ log'[c].gen = s.plan.gen
                            /\ log'[c].after = Count
                    /\ \/ log'[c].gen = log[c].gen
                       \/ log'[c].gen = s.plan.gen
                    /\ Committed(c)' =>
                         \/ Committed(c)
                         \/ c = s.attempt /\ s.fact = "turnCommitted"
                    /\ Has(c, "deliveryPrepared")' =>
                         \/ Has(c, "deliveryPrepared")
                         \/ c = s.attempt /\ s.fact = "deliveryPrepared"
  OBVIOUS
<1>1. CASE c # s.attempt
  BY <1>1 DEF Wrote, Requested, Committed, Unresolved, Has
<1>2. CASE c = s.attempt
  <2>1. Has(c, "deliveryPrepared") => Has(c, "deliveryPrepared")'
    BY <1>2 DEF Wrote, Has
  <2>2. Has(c, "deliveryPrepared")' =>
          Has(c, "deliveryPrepared") \/ s.fact = "deliveryPrepared"
    BY <1>2 DEF Wrote
  <2>3. CASE s.fact = "turnRequested"
    BY <1>2, <2>1, <2>2, <2>3 DEF Wrote, Requested, Committed, Unresolved
  <2>4. CASE s.fact # "turnRequested"
    BY <1>2, <2>1, <2>2, <2>4 DEF Wrote, Requested, Committed, Unresolved
  <2>5. QED BY <2>3, <2>4
<1>3. QED BY <1>1, <1>2

LEMMA WriteSound ==
  ASSUME TurnInv, SerialInv, NEW t \in Thread, NEW s, s = thread[t],
         Running(t), Storing(t), s.io = "store",
         Become(t, After(s, "ok")), Wrote(s)
  PROVE  SerialInv'
<1>1. /\ s \in ThreadState /\ Shaped(s) /\ Grounded(s)
      /\ s.attempt \in Attempt /\ s.binding \in Binding
      /\ Fitting(s) /\ Careful(s) /\ Planned(s)
  BY SoundThread
<1>2. PICK a : a = s.attempt
  OBVIOUS
<1>3. PICK b : b = s.binding
  OBVIOUS
<1>4. PICK p : p = s.plan
  OBVIOUS
<1>5. PICK x : x = After(s, "ok")
  OBVIOUS
<1>6. /\ row'[b] = p /\ \A c \in Binding : c # b => row'[c] = row[c]
      /\ UNCHANGED <<gens, runtime, asked>>
      /\ Become(t, x)
  BY <1>3, <1>4, <1>5 DEF Wrote
<1>7. p \in Row /\ p # NoRow /\ p.gen <= gens
  BY <1>1, <1>4, Sentinels DEF Shaped, SerialInv, Drawn
<1>8. x = Idle \/ (Returns(x, s) /\ (Closing(x) => Clears(s, "ok")))
  BY <1>1, <1>5, AfterReturns
<1>9. \A u \in Thread : ~Storing(u)'
  <2>1. \A u \in Thread : u # t => ~Storing(u)'
    BY <1>6, ThreadsAfter DEF SerialInv, OneStorer
  <2>2. ~Storing(t)'
    BY <1>6, <1>8, ThreadsAfter DEF Returns, Loads
  <2>3. QED BY <2>1, <2>2
<1>10. OneStorer'
  BY <1>9 DEF OneStorer
<1>11. Drawn'
  <2>1. \A c \in Attempt : log'[c].gen <= gens
    BY <1>1, <1>4, <1>7, WroteKeeps DEF SerialInv, Drawn
  <2>2. \A c \in Binding : row'[c] # NoRow => row'[c].gen <= gens
    BY <1>6, <1>7 DEF SerialInv, Drawn
  <2>3. QED BY <1>6, <1>9, <2>1, <2>2 DEF Drawn
<1>12. s.fact \in {"turnRequested", "turnCommitted", "deliveryPrepared"}
         => BindingOf[a] = b
  BY <1>1, <1>2, <1>3 DEF Shaped, NoFact
<1>13. UnresolvedIsCurrent'
  <2> SUFFICES ASSUME NEW c \in Attempt, Unresolved(c)'
               PROVE  Current(c)'
    BY DEF UnresolvedIsCurrent
  <2>1. CASE ~Unresolved(c)
    <3>1. c = a /\ s.fact = "turnRequested" /\ log'[c].gen = p.gen
      BY <1>1, <1>2, <1>4, <2>1, WroteKeeps
    <3>2. QED BY <1>6, <1>7, <1>12, <3>1 DEF Current
  <2>2. CASE Unresolved(c)
    <3>1. Current(c) /\ log'[c].gen = log[c].gen
      BY <1>1, <2>2, WroteKeeps DEF SerialInv, UnresolvedIsCurrent, Unresolved
    <3>2. CASE BindingOf[c] # b
      BY <1>6, <3>1, <3>2, BindingType DEF Current
    <3>3. CASE BindingOf[c] = b
      <4>1. c \in UnresolvedOn(b)
        BY <2>2, <3>3 DEF UnresolvedOn
      <4>2. ~Renews(s)
        <5>1. s.fact = "turnCommitted" /\ s.end # NoTerminal
                => ~Unresolved(a)'
          BY <1>2 DEF Wrote, Unresolved, Committed
        <5>2. QED BY <1>2, <1>3, <4>1, <5>1 DEF Renews
      <4>3. p.gen = row[b].gen
        BY <1>1, <1>3, <1>4, <4>2 DEF Planned
      <4>4. QED BY <1>6, <1>7, <3>1, <3>3, <4>3 DEF Current
    <3>4. QED BY <3>2, <3>3
  <2>3. QED BY <2>1, <2>2
<1>14. \A c \in Attempt : Has(c, "deliveryPrepared") => Has(c, "deliveryPrepared")'
  BY <1>1, WroteKeeps
<1>15. SentWasPrepared'
  BY <1>6, <1>14 DEF SerialInv, SentWasPrepared
<1>16. ASSUME NEW c \in Attempt, PendingIs(c, "prepared")'
       PROVE  \/ PendingIs(c, "prepared")
              \/ c = a /\ s.fact = "deliveryPrepared"
                   /\ ~Has(a, "deliveryPrepared")
  <2>1. CASE BindingOf[c] # b
    BY <1>6, <1>16, <2>1, BindingType DEF PendingIs
  <2>2. CASE BindingOf[c] = b
    <3>1. p.pending = PendingOf(c, "prepared")
      BY <1>6, <1>16, <2>2 DEF PendingIs
    <3>2. \/ row[b] # NoRow /\ row[b].pending = PendingOf(c, "prepared")
          \/ s.fact = "deliveryPrepared" /\ a = c
      BY <1>1, <1>2, <1>3, <1>4, <3>1 DEF Planned
    <3>3. s.fact = "deliveryPrepared" => ~Has(a, "deliveryPrepared")
      BY <1>2 DEF Wrote
    <3>4. QED BY <2>2, <3>2, <3>3 DEF PendingIs
  <2>3. QED BY <2>1, <2>2
<1>17. PreparedMeansUnsent'
  <2> SUFFICES ASSUME NEW c \in Attempt, PendingIs(c, "prepared")'
               PROVE  runtime[c] = "none"
    BY <1>6 DEF PreparedMeansUnsent
  <2>1. QED BY <1>16 DEF SerialInv, PreparedMeansUnsent, SentWasPrepared
<1>18. ThreadsSound'
  <2> SUFFICES ASSUME NEW u \in Thread, Running(u)'
               PROVE  Sound(thread[u])'
    BY DEF ThreadsSound
  <2>1. PICK z : z = thread'[u]
    OBVIOUS
  <2>2. CASE u # t
    <3>1. z = thread[u] /\ Running(u)
      BY <1>6, <2>1, <2>2, ThreadsAfter
    <3>2. Fitting(z) /\ Careful(z) /\ Shaped(z) /\ z.attempt \in Attempt
      BY <3>1, SoundThread
    <3>3. z.io # "store"
      BY <1>9, <2>1 DEF Storing
    <3>4. z.step = "send" => ~PendingIs(z.attempt, "prepared")'
      BY <1>16, <3>2 DEF Careful, Shaped, BeforeSend
    <3>5. Careful(z)'
      <4>1. Committed(z.attempt) => Committed(z.attempt)'
        BY <1>1, <3>2, WroteKeeps
      <4>2. Closing(z)' <=> Closing(z)
        BY DEF Closing
      <4>3. QED BY <1>6, <1>14, <3>2, <3>4, <4>1 DEF Careful
    <3>6. QED BY <2>1, <3>2, <3>3, <3>5 DEF Sound, Fitting
  <2>3. CASE u = t
    <3>1. z = x /\ x # Idle
      BY <1>6, <2>1, <2>3, ThreadsAfter
    <3>2. Returns(x, s) /\ (Closing(x) => Clears(s, "ok"))
      BY <1>8, <3>1
    <3>3. /\ x \in ThreadState /\ x.io = "load" /\ x.fact = NoFact
          /\ x.cmd = s.cmd /\ x.attempt = a
      BY <1>2, <3>2 DEF Returns, Loads
    <3>4. Fitting(x)
      <4>1. NoFact \notin {"turnCommitted", "deliveryPrepared"}
        BY DEF NoFact
      <4>2. QED BY <3>2, <3>3, <4>1 DEF Fitting, Returns
    <3>5. x.cmd = "dispatch" => Has(a, "deliveryPrepared")'
      BY <1>1, <1>2, <1>14, <3>3 DEF Careful
    <3>6. x.step = "send" => ~PendingIs(a, "prepared")'
      <4> SUFFICES ASSUME x.step = "send"
                   PROVE  ~PendingIs(a, "prepared")'
        OBVIOUS
      <4>1. s.step = "sent"
        BY <3>2 DEF Returns
      <4>2. BindingOf[a] = b /\ p.pending = PendingOf(a, "sent")
        BY <1>1, <1>2, <1>3, <1>4, <4>1 DEF Shaped, Planned
      <4>3. row'[BindingOf[a]].pending = PendingOf(a, "sent")
        BY <1>6, <4>2
      <4>4. PendingOf(a, "sent") # PendingOf(a, "prepared")
        BY DEF PendingOf
      <4>5. QED BY <4>3, <4>4 DEF PendingIs
    <3>7. x.end.by \in NotSent => /\ x.cmd = "dispatch"
                                  /\ x.step \notin BeforeSend
                                  /\ runtime'[a] = "none"
      BY <1>1, <1>2, <1>6, <3>2, <3>3 DEF Careful, Returns
    <3>8. Closing(x) => Committed(a)' \/ x.end.by \in NotSent
      <4> SUFFICES ASSUME Closing(x)
                   PROVE  Committed(a)' \/ x.end.by \in NotSent
        OBVIOUS
      <4>1. x.end = s.end /\ Clears(s, "ok")
        BY <3>2 DEF Returns
      <4>2. \/ Committed(a) \/ s.end.by \in NotSent
            \/ s.step \in {"commit", "rebuild"} /\ s.end # NoTerminal
        BY <1>1, <1>2, <4>1 DEF Clears, Careful
      <4>3. s.step \in {"commit", "rebuild"} /\ s.end # NoTerminal
              => s.fact = "turnCommitted"
        BY <1>1 DEF Fitting
      <4>4. s.fact = "turnCommitted" /\ s.end # NoTerminal => Committed(a)'
        BY <1>2 DEF Wrote, Committed
      <4>5. Committed(a) => Committed(a)'
        BY <1>1, <1>2, WroteKeeps
      <4>6. QED BY <4>1, <4>2, <4>3, <4>4, <4>5
    <3>9. Careful(x)'
      BY <3>3, <3>5, <3>6, <3>7, <3>8 DEF Careful, Closing
    <3>10. QED BY <2>1, <3>1, <3>3, <3>4, <3>9 DEF Sound, Fitting
  <2>4. QED BY <2>2, <2>3
<1>19. QED
  BY <1>10, <1>11, <1>13, <1>15, <1>17, <1>18 DEF SerialInv

\* More is requested, and what is requested lately comes last.
LEMMA WroteOrder ==
  ASSUME TurnInv, CursorInv, NEW s \in ThreadState, Wrote(s)
  PROVE  /\ Count \in Nat /\ Count' \in Nat /\ Count <= Count'
         /\ \A c \in Attempt : log'[c].after = log[c].after \/ log'[c].after = Count
         /\ \A c \in Attempt : log'[c].after \in Nat /\ log'[c].after <= Count
         /\ \A c \in Attempt : Unresolved(c)' =>
              \/ Unresolved(c) /\ \A d \in Attempt : log'[d].after = log[d].after
              \/ log'[c].after = Count
<1>1. IsFiniteSet({c \in Attempt : Requested(c)'})
  BY LifecycleAssumption, FS_Subset
<1>2. {c \in Attempt : Requested(c)} \subseteq {c \in Attempt : Requested(c)'}
  BY WroteKeeps
<1>3. Count' = Cardinality({c \in Attempt : Requested(c)'})
  BY DEF Count
<1>4. IsFiniteSet({c \in Attempt : Requested(c)})
  BY <1>1, <1>2, FS_Subset
<1>5. Count \in Nat /\ Count' \in Nat /\ Count <= Count'
  BY <1>1, <1>2, <1>3, <1>4, FS_Subset, FS_CardinalityType DEF Count
<1>6. s.attempt \in Attempt
  BY DEF ThreadState
<1>7. \A c \in Attempt :
        \/ log'[c].after = log[c].after
        \/ s.fact = "turnRequested" /\ log'[c].after = Count
  BY <1>6 DEF Wrote
<1>8. \A c \in Attempt : log'[c].after \in Nat /\ log'[c].after <= Count
  BY <1>5, <1>7, FactsOf DEF CursorInv, FactsInOrder
<1>9. ASSUME NEW c \in Attempt, Unresolved(c)'
      PROVE  \/ Unresolved(c) /\ \A d \in Attempt : log'[d].after = log[d].after
             \/ log'[c].after = Count
  <2>1. CASE s.fact = "turnRequested"
    <3>1. ~Unresolved(c)
      BY <2>1 DEF Wrote
    <3>2. QED BY <1>9, <3>1, WroteKeeps
  <2>2. CASE s.fact # "turnRequested"
    BY <1>7, <1>9, <2>2, WroteKeeps
  <2>3. QED BY <2>1, <2>2
<1>10. QED BY <1>5, <1>7, <1>8, <1>9

\* Cursors that were not beyond an unresolved attempt are not beyond the next.
LEMMA UptoGrows ==
  ASSUME TurnInv, CursorInv, NEW s \in ThreadState, Wrote(s),
         NEW r \in Row, Upto(r)
  PROVE  Upto(r)'
<1>1. r.accepted \in Nat /\ r.committed \in Nat
  BY DEF Row
<1>2. r.accepted <= Count /\ r.committed <= Count
  BY DEF Upto
<1>3. r.accepted <= Count' /\ r.committed <= Count'
  BY <1>1, <1>2, WroteOrder
<1>4. ASSUME NEW c \in Attempt, Unresolved(c)'
      PROVE  r.accepted <= log'[c].after /\ r.committed <= log'[c].after
  <2>1. CASE log'[c].after = Count
    BY <1>2, <2>1
  <2>2. CASE Unresolved(c) /\ log'[c].after = log[c].after
    BY <2>2 DEF Upto
  <2>3. QED BY <1>4, <2>1, <2>2, WroteOrder
<1>5. QED BY <1>3, <1>4 DEF Upto

LEMMA WriteCursors ==
  ASSUME TurnInv, SerialInv, CursorInv, NEW t \in Thread, NEW s, s = thread[t],
         Running(t), Storing(t), s.io = "store",
         Become(t, After(s, "ok")), Wrote(s)
  PROVE  CursorInv'
<1>1. /\ s \in ThreadState /\ Shaped(s) /\ Grounded(s)
      /\ s.attempt \in Attempt /\ s.binding \in Binding
      /\ Fitting(s) /\ Timely(s) /\ Forward(s)
  BY SoundThread
<1>2. PICK a : a = s.attempt
  OBVIOUS
<1>3. PICK b : b = s.binding
  OBVIOUS
<1>4. PICK p : p = s.plan
  OBVIOUS
<1>5. PICK x : x = After(s, "ok")
  OBVIOUS
<1>6. /\ row'[b] = p /\ \A c \in Binding : c # b => row'[c] = row[c]
      /\ asked' = asked
      /\ Become(t, x)
  BY <1>3, <1>4, <1>5 DEF Wrote
<1>7. p \in Row /\ p # NoRow
  BY <1>1, <1>4, Sentinels DEF Shaped
<1>8. x = Idle \/ Returns(x, s)
  BY <1>1, <1>5, AfterReturns
<1>9. \A u \in Thread : u # t => ~Storing(u)
  BY DEF SerialInv, OneStorer
<1>10. s.fact = "turnCommitted" => s.step = "commit"
  BY <1>1 DEF Fitting, Shaped, Timely
<1>11. s.fact = "deliveryPrepared" =>
         /\ s.cmd = "prepare" /\ asked[a] = "prepare" /\ Unresolved(a)
  BY <1>1, <1>2 DEF Fitting, Timely
<1>12. s.step = "commit" =>
         \/ asked[a] = "dispatch"
         \/ Has(a, "deliveryPrepared")
         \/ s.cmd = "prepare" /\ asked[a] # "nothing"
  BY <1>1, <1>2 DEF Timely
<1>13. ASSUME NEW c \in Attempt, Unresolved(c), ~Unresolved(c)'
       PROVE  c = a /\ s.fact = "turnCommitted"
  BY <1>1, <1>2, <1>13, WroteKeeps DEF Unresolved
<1>14. OnePreparer'
  <2> SUFFICES ASSUME NEW u \in Thread, NEW v \in Thread,
                      Running(u)', Running(v)',
                      thread'[u].cmd = "prepare", thread'[v].cmd = "prepare",
                      thread'[u].attempt = thread'[v].attempt
               PROVE  u = v
    BY DEF OnePreparer
  <2>1. ASSUME NEW w \in {u, v}
        PROVE  Prepares(w, thread'[w].attempt)
    <3>1. CASE w = t
      <4>1. Returns(x, s) /\ thread'[w] = x
        BY <1>6, <1>8, <2>1, <3>1, ThreadsAfter
      <4>2. QED BY <2>1, <3>1, <4>1 DEF Prepares, Returns, Loads
    <3>2. CASE w # t
      BY <1>6, <2>1, <3>2, ThreadsAfter DEF Prepares
    <3>3. QED BY <3>1, <3>2
  <2>2. Prepares(u, thread'[u].attempt) /\ Prepares(v, thread'[v].attempt)
    BY <2>1
  <2>3. QED BY <2>2 DEF Prepares, CursorInv, OnePreparer
<1>15. FactsInOrder'
  <2> SUFFICES ASSUME NEW c \in Attempt
               PROVE  /\ asked[c] = "nothing" =>
                           ~Committed(c)' /\ ~Has(c, "deliveryPrepared")'
                      /\ Committed(c)' \/ Has(c, "deliveryPrepared")'
                           => Requested(c)'
                      /\ log'[c].after <= Count'
                      /\ Unresolved(c)' => \A d \in Attempt :
                           log'[d].after <= log'[c].after
    BY <1>6 DEF FactsInOrder
  <2>1. /\ asked[c] = "nothing" => ~Committed(c) /\ ~Has(c, "deliveryPrepared")
        /\ Committed(c) \/ Has(c, "deliveryPrepared") => Requested(c)
        /\ Unresolved(c) => \A d \in Attempt : log[d].after <= log[c].after
    BY DEF CursorInv, FactsInOrder
  <2>2. /\ Committed(c)' =>
             Committed(c) \/ (c = a /\ s.fact = "turnCommitted")
        /\ Has(c, "deliveryPrepared")' =>
             \/ Has(c, "deliveryPrepared")
             \/ c = a /\ s.fact = "deliveryPrepared"
        /\ Requested(c) => Requested(c)'
    BY <1>1, <1>2, WroteKeeps
  <2>3. asked[c] # "nothing" => Requested(c)
    BY DEF TurnInv, AttemptsGrounded
  <2>4. c = a /\ s.fact \in {"turnCommitted", "deliveryPrepared"}
          => asked[c] # "nothing"
    BY <1>10, <1>11, <1>12, <2>1
  <2>5. /\ asked[c] = "nothing" => ~Committed(c)' /\ ~Has(c, "deliveryPrepared")'
        /\ Committed(c)' \/ Has(c, "deliveryPrepared")' => Requested(c)'
    BY <2>1, <2>2, <2>3, <2>4
  <2>6. log'[c].after <= Count'
    BY <1>1, WroteOrder
  <2>7. ASSUME Unresolved(c)', NEW d \in Attempt
        PROVE  log'[d].after <= log'[c].after
    <3>1. CASE log'[c].after = Count
      BY <1>1, <3>1, WroteOrder
    <3>2. CASE Unresolved(c) /\ \A e \in Attempt : log'[e].after = log[e].after
      BY <2>1, <3>2
    <3>3. QED BY <1>1, <2>7, <3>1, <3>2, WroteOrder
  <2>8. QED BY <2>5, <2>6, <2>7
<1>16. RowsInOrder'
  <2> SUFFICES ASSUME NEW c \in Binding, row'[c] # NoRow
               PROVE  /\ Upto(row[c])'
                      /\ row'[c].pending # NoPending =>
                           /\ Belongs(row[c].pending, c)'
                           /\ Has(row[c].pending.attempt, "deliveryPrepared")'
    BY DEF RowsInOrder
  <2>1. PICK r : r = row'[c]
    OBVIOUS
  <2>2. r \in Row
    BY <1>6, <1>7, <2>1 DEF TurnInv, TypeOK
  <2>3. Upto(r)
    BY <1>1, <1>4, <1>6, <2>1 DEF Forward, CursorInv, RowsInOrder
  <2>4. Upto(r)'
    BY <1>1, <2>2, <2>3, UptoGrows
  <2>5. ASSUME r.pending # NoPending
        PROVE  /\ Belongs(r.pending, c)'
               /\ Has(r.pending.attempt, "deliveryPrepared")'
    <3>1. PICK d : d = r.pending.attempt
      OBVIOUS
    <3>2. d \in Attempt
      BY <2>2, <2>5, <3>1 DEF Row, Pending
    <3>3. CASE c = b
      <4>1. /\ Belongs(r.pending, b) /\ s.fact # "turnCommitted"
            /\ \/ Has(d, "deliveryPrepared")
               \/ s.fact = "deliveryPrepared" /\ d = a
        BY <1>1, <1>2, <1>3, <1>4, <1>6, <2>1, <2>5, <3>1, <3>3 DEF Forward
      <4>2. Unresolved(d)'
        BY <1>13, <3>1, <3>2, <4>1 DEF Belongs
      <4>3. Has(d, "deliveryPrepared")'
        BY <1>1, <1>2, <3>2, <4>1, WroteKeeps DEF Wrote
      <4>4. QED BY <3>1, <3>3, <4>1, <4>2, <4>3 DEF Belongs
    <3>4. CASE c # b
      <4>1. r = row[c] /\ r # NoRow
        BY <1>6, <2>1, <3>4
      <4>2. Belongs(r.pending, c) /\ Has(d, "deliveryPrepared")
        BY <2>5, <3>1, <4>1 DEF CursorInv, RowsInOrder
      <4>3. s.fact = "turnCommitted" => BindingOf[a] = b
        BY <1>1, <1>2, <1>3 DEF Shaped, NoFact
      <4>4. Unresolved(d)'
        BY <1>13, <3>1, <3>2, <3>4, <4>2, <4>3 DEF Belongs
      <4>5. Has(d, "deliveryPrepared")'
        BY <1>1, <3>2, <4>2, WroteKeeps
      <4>6. QED BY <3>1, <4>2, <4>4, <4>5 DEF Belongs
    <3>5. QED BY <3>3, <3>4
  <2>6. QED BY <2>1, <2>4, <2>5
<1>17. ThreadsOnward'
  <2> SUFFICES ASSUME NEW u \in Thread, Running(u)'
               PROVE  Onward(thread[u])'
    BY DEF ThreadsOnward
  <2>1. PICK z : z = thread'[u]
    OBVIOUS
  <2>2. CASE u # t
    <3>1. z = thread[u] /\ Running(u)
      BY <1>6, <2>1, <2>2, ThreadsAfter
    <3>2. z \in ThreadState /\ Timely(z) /\ z.attempt \in Attempt
      BY <3>1, SoundThread
    <3>3. z.io # "store"
      BY <1>9, <2>2, <3>1 DEF Storing
    <3>4. z.step = "prepare" => a # z.attempt \/ s.cmd # "prepare"
      BY <1>2, <2>2, <3>1, <3>2 DEF CursorInv, OnePreparer, Timely
    <3>5. z.step = "prepare" =>
            Unresolved(z.attempt)' /\ ~Has(z.attempt, "deliveryPrepared")'
      <4> SUFFICES ASSUME z.step = "prepare"
                   PROVE  /\ Unresolved(z.attempt)'
                          /\ ~Has(z.attempt, "deliveryPrepared")'
        OBVIOUS
      <4>1. /\ asked[z.attempt] = "prepare" /\ Unresolved(z.attempt)
            /\ ~Has(z.attempt, "deliveryPrepared")
        BY <3>2 DEF Timely
      <4>2. z.attempt = a =>
              s.fact # "turnCommitted" /\ s.fact # "deliveryPrepared"
        BY <1>10, <1>11, <1>12, <3>4, <4>1
      <4>3. Unresolved(z.attempt)'
        BY <1>13, <3>2, <4>1, <4>2
      <4>4. ~Has(z.attempt, "deliveryPrepared")'
        BY <1>1, <1>2, <3>2, <4>1, <4>2, WroteKeeps
      <4>5. QED BY <4>3, <4>4
    <3>6. Has(z.attempt, "deliveryPrepared") => Has(z.attempt, "deliveryPrepared")'
      BY <1>1, <3>2, WroteKeeps
    <3>7. Timely(z)'
      BY <1>6, <3>2, <3>5, <3>6 DEF Timely
    <3>8. QED BY <2>1, <3>3, <3>7 DEF Onward
  <2>3. CASE u = t
    <3>1. z = x /\ Returns(x, s)
      BY <1>6, <1>8, <2>1, <2>3, ThreadsAfter
    <3>2. x.io = "load" /\ x.cmd = s.cmd /\ x.attempt = a
      BY <1>2, <3>1 DEF Returns, Loads
    <3>3. x.step = "commit" => s.cmd = "prepare" /\ asked[a] # "nothing"
      BY <1>1, <1>2, <3>1 DEF Returns, Timely
    <3>4. Timely(x)'
      BY <1>1, <1>6, <3>1, <3>2, <3>3 DEF Timely, Returns
    <3>5. QED BY <2>1, <3>1, <3>2, <3>4 DEF Onward
  <2>4. QED BY <2>2, <2>3
<1>18. QED
  BY <1>14, <1>15, <1>16, <1>17 DEF CursorInv, MildRecovery

LEMMA WriteSerial ==
  ASSUME TurnInv, SerialInv, NEW t \in Thread, Upsert(t) \/ Append(t)
  PROVE  KeepsSerial
<1>1. PICK s : s = thread[t]
  OBVIOUS
<1>2. /\ Running(t) /\ Storing(t) /\ s.io = "store"
      /\ Become(t, After(s, "ok")) /\ Wrote(s)
  BY <1>1, WriteIs
<1>3. SerialInv'
  BY <1>1, <1>2, WriteSound
<1>4. CursorInv => CursorInv'
  BY <1>1, <1>2, WriteCursors
<1>5. QED BY <1>3, <1>4 DEF KeepsSerial

-----------------------------------------------------------------------------
(* The theorems without overlap.                                           *)

LEMMA SerialInit ==
  ASSUME Init
  PROVE  /\ SerialInv
         /\ MildRecovery => CursorInv
<1>1. TurnInv
  BY TurnInvInit
<1>2. /\ \A a \in Attempt : /\ log[a] = NoFacts /\ runtime[a] = "none"
                            /\ ~Requested(a) /\ ~Committed(a)
                            /\ ~Has(a, "deliveryPrepared")
                            /\ log[a].gen = 0 /\ log[a].after = 0
      /\ \A b \in Binding : row[b] = NoRow
      /\ gens = 0
      /\ \A t \in Thread : ~Running(t) /\ ~Storing(t)
  BY DEF Init, NoFacts, Requested, Committed, Has, Running, Storing
<1>3. SerialInv
  <2>1. OneStorer /\ ThreadsSound
    BY <1>2 DEF OneStorer, ThreadsSound
  <2>2. Drawn
    BY <1>2 DEF Drawn
  <2>3. UnresolvedIsCurrent /\ SentWasPrepared /\ PreparedMeansUnsent
    BY <1>2 DEF UnresolvedIsCurrent, SentWasPrepared, PreparedMeansUnsent,
                Unresolved
  <2>4. QED BY <2>1, <2>2, <2>3 DEF SerialInv
<1>4. ASSUME MildRecovery
      PROVE  CursorInv
  <2>1. OnePreparer /\ ThreadsOnward
    BY <1>2 DEF OnePreparer, ThreadsOnward
  <2>2. Count \in Nat
    BY LifecycleAssumption, FS_Subset, FS_CardinalityType DEF Count
  <2>3. FactsInOrder
    BY <1>2, <2>2 DEF FactsInOrder, Unresolved
  <2>4. RowsInOrder
    BY <1>2 DEF RowsInOrder
  <2>5. QED BY <1>4, <2>1, <2>3, <2>4 DEF CursorInv
<1>5. QED BY <1>3, <1>4

LEMMA SerialNext ==
  ASSUME Serial, TurnInv, OneUnresolved, SerialInv, [Next]_vars
  PROVE  KeepsSerial
<1>1. ASSUME NEW t \in Thread, Call(t)
      PROVE  KeepsSerial
  BY <1>1, WriteSerial, AnswerSerial DEF Call
<1>2. ASSUME NEW t \in Thread, Proceed(t)
      PROVE  KeepsSerial
  BY <1>2, BeginSerial, PrepareSerial, CheckSerial, RegisterSerial,
     CreatingSerial, MaterializeSerial, MarkSentSerial, SendSerial, BindSerial,
     AckSerial, AcceptDeliverySerial, TrustSerial, AcceptTurnSerial,
     ReleaseSerial, CommitSerial, MarkRecoverySerial, RemoveSerial,
     RebuildSerial, EvidenceSerial, ClearSerial
     DEF Proceed
<1>3. ASSUME NEW t \in Thread, NEW a \in Attempt,
             \/ IssueSend(t, a) \/ IssueRecovery(t, a)
             \/ ObserveEnd(t, a) \/ AwaitTerminal(t, a)
      PROVE  KeepsSerial
  BY <1>3, IssueBeginSerial, IssueNextSerial, IssueRecoverySerial, ObserveSerial
     DEF IssueSend
<1>4. CASE \E a \in Attempt, outcome \in RuntimeOutcome : EndTurn(a, outcome)
  BY <1>4, EndSerial
<1>5. CASE Crash
  BY <1>5, CrashSerial
<1>6. CASE UNCHANGED vars
  BY <1>6, StutterSerial
<1>7. QED BY <1>1, <1>2, <1>3, <1>4, <1>5, <1>6 DEF Next

LEMMA SerialAlways ==
  ASSUME Serial
  PROVE  Spec => []SerialInv
<1>1. Init => SerialInv
  BY SerialInit
<1>2. TurnInv /\ OneUnresolved /\ SerialInv /\ [Next]_vars => SerialInv'
  BY SerialNext DEF KeepsSerial
<1>3. QED BY <1>1, <1>2, TurnInvAlways, TurnOneUnresolved, PTL DEF Spec

LEMMA CursorAlways ==
  ASSUME Serial, MildRecovery
  PROVE  Spec => []CursorInv
<1>1. Init => CursorInv
  BY SerialInit
<1>2. TurnInv /\ OneUnresolved /\ SerialInv /\ CursorInv /\ [Next]_vars
        => CursorInv'
  BY SerialNext DEF KeepsSerial
<1>3. QED
  BY <1>1, <1>2, TurnInvAlways, TurnOneUnresolved, SerialAlways, PTL DEF Spec

\* A delivery recorded as prepared has not reached the engine, if no two
\* commands overlap between load and store: recovery may drop the prompt or
\* send it, whatever it finds the attempt in and wherever the program crashed.
THEOREM TurnPreparedUnsent ==
  ASSUME Serial
  PROVE  Spec => []PreparedMeansUnsent
<1>1. SerialInv => PreparedMeansUnsent
  BY DEF SerialInv
<1>2. QED BY <1>1, SerialAlways, PTL

\* A row is written by a call to the writer actor, and by nothing else.
LEMMA OnlyCallsWriteRows ==
  ASSUME [Next]_vars
  PROVE  row' = row \/ \E t \in Thread : Upsert(t) \/ Append(t)
<1>1. ASSUME NEW t \in Thread, Call(t) \/ Proceed(t), ~Append(t), ~Upsert(t)
      PROVE  row' = row
  BY <1>1
     DEF Call, Proceed, Replay, Refuse, BeginTurn, PrepareDelivery,
         CheckDelivery, RegisterAttempt, MarkCreating, MaterializeBinding,
         MarkSent, Send, BindRuntimeTurn, AwaitContextAck, AcceptDelivery,
         SetTrust, AcceptTurn, ReleaseEvents, CommitTurn, MarkRecovery,
         RemoveAttempt, RebuildBinding, ReadEvidence, ClearRecovery, Only, store
<1>2. ASSUME NEW t \in Thread, NEW a \in Attempt,
             \/ IssueSend(t, a) \/ IssueRecovery(t, a)
             \/ ObserveEnd(t, a) \/ AwaitTerminal(t, a)
      PROVE  row' = row
  BY <1>2
     DEF IssueSend, IssueBegin, IssuePrepare, IssueDispatch, IssueNext,
         IssueRecovery, CancelAttempt, MarkRecoveryCommand, RecoverAttempt,
         RebuildCommand, AbandonCommand, Recover, ObserveEnd, AwaitTerminal,
         store
<1>3. ASSUME NEW a \in Attempt, NEW outcome, EndTurn(a, outcome)
      PROVE  row' = row
  BY <1>3 DEF EndTurn, store
<1>4. Crash => row' = row
  BY DEF Crash, store
<1>5. QED BY <1>1, <1>2, <1>3, <1>4 DEF Next, vars

\* What one write does to the row of a binding.
LEMMA RowWritten ==
  ASSUME TurnInv, SerialInv, [Next]_vars, NEW b \in Binding, row'[b] # row[b]
  PROVE  \E t \in Thread : /\ Running(t) /\ thread[t].io = "store"
                           /\ thread[t].binding = b /\ row'[b] = thread[t].plan
<1>1. PICK t \in Thread : Upsert(t) \/ Append(t)
  BY OnlyCallsWriteRows
<1>2. PICK s : s = thread[t]
  OBVIOUS
<1>3. Running(t) /\ s.io = "store" /\ Wrote(s)
  BY <1>1, <1>2, WriteIs
<1>4. s.binding = b /\ row'[b] = s.plan
  BY <1>3 DEF Wrote
<1>5. QED BY <1>2, <1>3, <1>4

\* Once a binding was rebuilt, no attempt of before is ever of its generation
\* again, if no two commands overlap between load and store: a late terminal of
\* the old generation is always recognised as stale.
THEOREM TurnGenerationFence ==
  ASSUME Serial
  PROVE  Spec => GenerationFence
<1> DEFINE Fence == \A b \in Binding :
                      row[b] # NoRow /\ row'[b] # row[b] =>
                        \/ row'[b].gen = row[b].gen
                        \/ \A a \in Attempt : log[a].gen # row'[b].gen
<1>1. TurnInv /\ SerialInv /\ [Next]_vars => [Fence]_row
  <2> SUFFICES ASSUME TurnInv, SerialInv, [Next]_vars,
                      NEW b \in Binding, row[b] # NoRow, row'[b] # row[b]
               PROVE  \/ row'[b].gen = row[b].gen
                      \/ \A a \in Attempt : log[a].gen # row'[b].gen
    OBVIOUS
  <2>1. PICK t \in Thread : /\ Running(t) /\ thread[t].io = "store"
                            /\ thread[t].binding = b
                            /\ row'[b] = thread[t].plan
    BY RowWritten
  <2>2. PICK s : s = thread[t]
    OBVIOUS
  <2>3. Planned(s)
    BY <2>1, <2>2, SoundThread
  <2>4. QED BY <2>1, <2>2, <2>3 DEF Planned, Fresh
<1>2. QED BY <1>1, SerialAlways, TurnInvAlways, PTL DEF Spec, GenerationFence

\* The coordinator forgets what only remove_attempt removes, or a crash.
LEMMA OnlyRemovesForget ==
  ASSUME TurnInv, [Next]_vars, NEW a \in Attempt, Settled(a),
         owner'[a] = "absent"
  PROVE  \/ Crash
         \/ \E t \in Thread : RemoveAttempt(t) /\ thread[t].attempt = a
<1>1. owner'[a] # owner[a] /\ owner' # owner
  BY DEF Settled
<1>2. ASSUME NEW t \in Thread, Call(t)
      PROVE  owner' = owner
  BY <1>2 DEF Call, Upsert, Append, Replay, Refuse
<1>3. ASSUME NEW t \in Thread, Proceed(t), owner' # owner
      PROVE  \/ RemoveAttempt(t)
             \/ RegisterAttempt(t) \/ BindRuntimeTurn(t) \/ AwaitContextAck(t)
             \/ ReleaseEvents(t)
  BY <1>3
     DEF Proceed, BeginTurn, PrepareDelivery, CheckDelivery, MarkCreating,
         MaterializeBinding, MarkSent, Send, AcceptDelivery, SetTrust,
         AcceptTurn, CommitTurn, MarkRecovery, RebuildBinding, ReadEvidence,
         ClearRecovery, Only
<1>4. ASSUME NEW t \in Thread,
             \/ RegisterAttempt(t) \/ BindRuntimeTurn(t) \/ AwaitContextAck(t)
             \/ ReleaseEvents(t)
      PROVE  owner'[a] # "absent" \/ owner'[a] = owner[a]
  <2>1. PICK c : c = thread[t].attempt
    OBVIOUS
  <2>2. \/ owner' = owner
        \/ \E v \in {"held", "settled", "observed"} :
             owner' = [owner EXCEPT ![c] = v]
        \/ owner' = [owner EXCEPT ![c] = IF @ = "absent" THEN "registered" ELSE @]
    BY <1>4, <2>1
       DEF RegisterAttempt, BindRuntimeTurn, AwaitContextAck, ReleaseEvents, Only
  <2>3. QED BY <2>2 DEF TurnInv, TypeOK
<1>5. ASSUME NEW t \in Thread, RemoveAttempt(t)
      PROVE  thread[t].attempt = a
  BY <1>1, <1>5 DEF RemoveAttempt, TurnInv, TypeOK
<1>6. ASSUME NEW t \in Thread, NEW c \in Attempt,
             \/ IssueSend(t, c) \/ IssueRecovery(t, c)
             \/ ObserveEnd(t, c) \/ AwaitTerminal(t, c)
      PROVE  owner'[a] # "absent" \/ owner' = owner
  <2>1. owner' = owner \/ owner' = [owner EXCEPT ![c] = "settled"]
    BY <1>6
       DEF IssueSend, IssueBegin, IssuePrepare, IssueDispatch, IssueNext,
           IssueRecovery, CancelAttempt, MarkRecoveryCommand, RecoverAttempt,
           RebuildCommand, AbandonCommand, Recover, ObserveEnd, AwaitTerminal
  <2>2. QED BY <1>1, <2>1 DEF TurnInv, TypeOK
<1>7. ASSUME NEW c \in Attempt, NEW outcome, EndTurn(c, outcome)
      PROVE  owner' = owner
  BY <1>7 DEF EndTurn
<1>8. UNCHANGED vars => owner' = owner
  BY DEF vars
<1>9. QED
  BY <1>1, <1>2, <1>3, <1>4, <1>5, <1>6, <1>7, <1>8 DEF Next

\* The coordinator forgets a settlement only once it is committed, if no two
\* commands overlap between load and store and no attempt is abandoned by
\* force: until then it holds the only copy of the answer.
THEOREM TurnForgetsCommitted ==
  ASSUME Serial, "abandon" \notin RecoveryCommand
  PROVE  Spec => ForgottenWhenCommitted
<1> DEFINE Kept == \A a \in Attempt :
                     Settled(a) /\ owner'[a] = "absent" =>
                       Committed(a) \/ crashes' # crashes
<1>1. TurnInv /\ SerialInv /\ [Next]_vars => [Kept]_owner
  <2> SUFFICES ASSUME TurnInv, SerialInv, [Next]_vars, NEW a \in Attempt,
                      Settled(a), owner'[a] = "absent"
               PROVE  Committed(a) \/ crashes' # crashes
    OBVIOUS
  <2>1. CASE Crash
    BY <2>1 DEF Crash, TurnInv, TypeOK
  <2>2. ASSUME NEW t \in Thread, RemoveAttempt(t), thread[t].attempt = a
        PROVE  Committed(a)
    <3>1. PICK s : s = thread[t]
      OBVIOUS
    <3>2. Running(t) /\ s.step \in {"remove", "forget"}
      BY <2>2, <3>1 DEF RemoveAttempt, At
    <3>3. s \in ThreadState /\ Fitting(s) /\ Careful(s)
      BY <3>1, <3>2, SoundThread
    <3>4. s.cmd # "abandon"
      BY <3>3 DEF ThreadState, Command
    <3>5. Closing(s)
      BY <3>2, <3>3, <3>4 DEF Fitting, Closing
    <3>6. Ended(a)
      BY SettledRow
    <3>7. QED BY <2>2, <3>1, <3>3, <3>5, <3>6 DEF Careful, Ended
  <2>3. QED BY <2>1, <2>2, OnlyRemovesForget
<1>2. QED
  BY <1>1, SerialAlways, TurnInvAlways, PTL DEF Spec, ForgottenWhenCommitted

\* A delivery that is pending belongs to an attempt that is not committed, if no
\* two commands overlap between load and store and no command replaces an
\* attempt or a binding: nothing that is over blocks the binding.
THEOREM TurnPendingUnresolved ==
  ASSUME Serial, RecoveryCommand \subseteq {"cancel", "markRecovery"}
  PROVE  Spec => []PendingIsUnresolved
<1>1. MildRecovery
  BY DEF MildRecovery
<1>2. CursorInv => PendingIsUnresolved
  BY DEF CursorInv, RowsInOrder, Belongs, PendingIsUnresolved
<1>3. QED BY <1>1, <1>2, CursorAlways, PTL

\* What a binding has consumed and committed of the session only grows, under
\* the same conditions: no turn hands over history a second time because an old
\* row was written back.
THEOREM TurnCursorsGrow ==
  ASSUME Serial, RecoveryCommand \subseteq {"cancel", "markRecovery"}
  PROVE  Spec => CursorNeverRegresses
<1> DEFINE Grow == \A b \in Binding :
                     row[b] # NoRow /\ row'[b].gen = row[b].gen =>
                       /\ row'[b].accepted >= row[b].accepted
                       /\ row'[b].committed >= row[b].committed
<1>1. MildRecovery
  BY DEF MildRecovery
<1>2. TurnInv /\ SerialInv /\ CursorInv /\ [Next]_vars => [Grow]_row
  <2> SUFFICES ASSUME TurnInv, SerialInv, CursorInv, [Next]_vars,
                      NEW b \in Binding, row[b] # NoRow
               PROVE  /\ row'[b].accepted >= row[b].accepted
                      /\ row'[b].committed >= row[b].committed
    OBVIOUS
  <2>1. CASE row'[b] = row[b]
    <3>1. row[b].accepted \in Nat /\ row[b].committed \in Nat
      BY DEF TurnInv, TypeOK, Row
    <3>2. QED BY <2>1, <3>1
  <2>2. CASE row'[b] # row[b]
    <3>1. PICK t \in Thread : /\ Running(t) /\ thread[t].io = "store"
                              /\ thread[t].binding = b
                              /\ row'[b] = thread[t].plan
      BY <2>2, RowWritten
    <3>2. PICK s : s = thread[t]
      OBVIOUS
    <3>3. Forward(s)
      BY <3>1, <3>2, SoundThread
    <3>4. QED BY <3>1, <3>2, <3>3 DEF Forward
  <2>3. QED BY <2>1, <2>2
<1>3. QED
  BY <1>1, <1>2, CursorAlways, SerialAlways, TurnInvAlways, PTL
     DEF Spec, CursorNeverRegresses

=============================================================================
