---------------------------- MODULE TurnLifecycle ----------------------------
(***************************************************************************)
(* The durable life of a turn in a Shared Session V2                       *)
(* (src-tauri/src/shared_session_v2.rs, shared_session_v2/*.rs and         *)
(* shared_context/delivery.rs).  An attempt is begun, its context package  *)
(* prepared, sent to an engine, accepted and committed; recovery commands  *)
(* cancel, abandon or replace it.  What a crash leaves behind is the event *)
(* log (one fact of a kind per attempt) and one row per binding.           *)
(*                                                                         *)
(* The commands run at the same time on the threads of the async runtime.  *)
(* Each reads the whole binding row from the writer actor, computes a new  *)
(* row and writes the whole row back, in two calls to the actor: nothing   *)
(* stops another command from writing in between.  A thread therefore      *)
(* loads in one step and stores in another.                                *)
(*                                                                         *)
(* Simplifications.                                                        *)
(*  - Squad workers, which use bindings of their own, are left out, and so *)
(*    are the control facts appended after a row was changed: no decision  *)
(*    reads them.                                                          *)
(*  - Reads that follow each other with no write of the command between    *)
(*    them are one step.                                                   *)
(*  - A cursor is counted in turns: the sequence before the request of an  *)
(*    attempt stands for the number of attempts requested before it.       *)
(*  - A terminal is the outcome and who decided it.  The time stamp is not *)
(*    kept: two commits of one terminal by two threads agree on the        *)
(*    millisecond or they do not.                                          *)
(*  - The coordinator is reduced to what the commands read of it: whether  *)
(*    an attempt is registered, whether its events may be observed, and    *)
(*    whether it settled.                                                  *)
(***************************************************************************)
EXTENDS Naturals, FiniteSets

CONSTANTS
  Attempt,        \* attempts that may be begun in the session
  Binding,        \* bindings of the session, one per engine and provider
  BindingOf,      \* the binding of each attempt's target
  EarlyIdentity,  \* bindings whose engine names its session before the send
                  \* (Codex); the others only acknowledge it (Claude)
  Thread,         \* threads that execute commands
  Serial,         \* TRUE: no two commands overlap between load and store
  RuntimeOutcome, \* how a turn may end in the engine
  RecoveryCommand,\* the recovery commands in use
  MaxRecovery,    \* bound: recovery commands issued
  MaxCrash        \* bound: crashes of the program

ASSUME LifecycleAssumption ==
  /\ IsFiniteSet(Attempt)
  /\ BindingOf \in [Attempt -> Binding]
  /\ EarlyIdentity \subseteq Binding
  /\ Serial \in BOOLEAN
  /\ RuntimeOutcome \subseteq {"completed", "failed", "cancelled", "missing"}
  /\ RecoveryCommand \subseteq
       {"cancel", "markRecovery", "recover", "rebuild", "abandon"}
  /\ MaxRecovery \in Nat
  /\ MaxCrash \in Nat

VARIABLES
  log,        \* the facts of each attempt
  row,        \* shared_binding_state
  gens,       \* binding generations (operation ids) drawn so far
  owner,      \* what the coordinator knows of each attempt
  runtime,    \* the turn of each attempt in its engine
  asked,      \* the last command the sender issued for each attempt
  thread,     \* the command each thread executes
  recoveries, \* recovery commands issued
  crashes     \* crashes so far

store == <<log, row, gens>>
vars  == <<log, row, gens, owner, runtime, asked, thread, recoveries, crashes>>

Milestone == {"deliveryPrepared", "deliveryAccepted", "turnAccepted"}
Outcome   == {"completed", "failed", "cancelled", "missing", "replaced"}
Author    == {"runtime", "prepare", "dispatch", "dispatchMissing", "user",
              "refused", "probe", "abandon", "rebuild"}
Terminal  == [outcome : Outcome, by : Author]
NoTerminal == [outcome |-> "none", by |-> "nobody"]

\* Generation 0: the attempt was not requested.
Facts == [gen : Nat, after : Nat, has : SUBSET Milestone,
          terminal : Terminal \cup {NoTerminal}]
NoFacts == [gen |-> 0, after |-> 0, has |-> {}, terminal |-> NoTerminal]

Phase     == {"prepared", "sent", "accepted"}
Pending   == [attempt : Attempt, phase : Phase]
NoPending == [phase |-> "none"]
State     == {"prepared", "creating", "ready", "recovery-required"}
Reason    == {"none", "marked", "ambiguous", "crash-window", "commit-failed",
              "native-missing"}
Row == [gen : Nat, state : State, why : Reason, native : BOOLEAN,
        trust : {"trusted", "dirty"}, pending : Pending \cup {NoPending},
        accepted : Nat, committed : Nat]
NoRow == [gen |-> 0, state |-> "absent"]

Command == {"begin", "prepare", "dispatch", "observe"} \cup RecoveryCommand
Step == {"begin", "prepare", "check", "register", "creating", "create",
         "sent", "send", "bind", "ack", "acceptDelivery", "trust",
         "acceptTurn", "drain", "commit", "recovery", "rebuild", "evidence",
         "forget", "remove", "clear"}
NoFact == "none"
FactType == Milestone \cup {"turnRequested", "turnCommitted", NoFact}
Idle == [cmd |-> "idle"]

Requested(a)  == log[a].gen # 0
Committed(a)  == log[a].terminal # NoTerminal
Unresolved(a) == Requested(a) /\ ~Committed(a)
Has(a, fact)  == fact \in log[a].has
UnresolvedOn(b) == {a \in Attempt : Unresolved(a) /\ BindingOf[a] = b}

Init ==
  /\ log = [a \in Attempt |-> NoFacts]
  /\ row = [b \in Binding |-> NoRow]
  /\ gens = 0
  /\ owner = [a \in Attempt |-> "absent"]
  /\ runtime = [a \in Attempt |-> "none"]
  /\ asked = [a \in Attempt |-> "nothing"]
  /\ thread = [t \in Thread |-> Idle]
  /\ recoveries = 0
  /\ crashes = 0

-----------------------------------------------------------------------------
(* Threads.  A thread is at a step of its command, either to load or to    *)
(* store what it planned.                                                  *)

Start(cmd, step, a, b) ==
  [cmd |-> cmd, step |-> step, io |-> "load", attempt |-> a, binding |-> b,
   plan |-> NoRow, fact |-> NoFact, end |-> NoTerminal, why |-> "none",
   good |-> TRUE]

Running(t) == thread[t] # Idle
At(t, step) ==
  Running(t) /\ thread[t].step = step /\ thread[t].io = "load"
Storing(t) == Running(t) /\ thread[t].io = "store"

\* With Serial, a load waits for the stores of the others.
MayLoad == Serial => \A t \in Thread : ~Storing(t)

Become(t, state) == thread' = [thread EXCEPT ![t] = state]

Goto(s, step) ==
  [s EXCEPT !.step = step, !.io = "load", !.plan = NoRow, !.fact = NoFact]

ToCommit(s, outcome, by) ==
  [Goto(s, "commit") EXCEPT !.end = [outcome |-> outcome, by |-> by]]

ToRecovery(s, why) == [Goto(s, "recovery") EXCEPT !.why = why]

Plan(s, new, fact) ==
  [s EXCEPT !.io = "store", !.plan = new, !.fact = fact]

\* The binding row still is of the generation the attempt was begun in
\* (require_attempt_binding_generation).
Current(a) ==
  row[BindingOf[a]] # NoRow /\ row[BindingOf[a]].gen = log[a].gen

PendingOf(a, phase) == [attempt |-> a, phase |-> phase]

PendingIs(a, phase) ==
  /\ row[BindingOf[a]] # NoRow
  /\ row[BindingOf[a]].pending = PendingOf(a, phase)

OwnsPending(a) == \E phase \in Phase : PendingIs(a, phase)

Registered(a) == owner[a] # "absent"

\* Mutant: a turn under observation is taken for a settled one.
ObservedOrSettled(a) == owner[a] \in {"observed", "settled"}

Settled(a) == owner[a] = "settled"

-----------------------------------------------------------------------------
(* What a thread does after a step.  good is FALSE once a commit failed.   *)

\* Mutant: the settlement is forgotten although its commit failed.
ForgetFailed(s) == Goto(s, "remove")

\* The commit of a settlement failed: the binding needs recovery, and the
\* settlement is kept.
CommitFailed(s) == ToRecovery(s, "commit-failed")

\* commit_observed_runtime_settlement, and the callers of the commit.
AfterCommit(s, result) ==
  LET r == [s EXCEPT !.good = (result = "ok")] IN
  CASE s.end.by = "runtime" /\ result = "ok" ->
         IF s.end.outcome = "missing" THEN ToRecovery(r, "native-missing")
                                      ELSE Goto(r, "remove")
    [] s.end.by = "runtime" /\ result = "stale" -> Goto(r, "remove")
    [] s.end.by = "runtime" /\ result = "error" -> CommitFailed(r)
    [] s.end.by \in {"refused", "dispatch"} -> Goto(r, "remove")
    [] s.end.by = "dispatchMissing" -> ToRecovery(r, "native-missing")
    [] s.end.by = "probe" /\ r.good -> Goto(r, "remove")
    [] s.end.by = "abandon" /\ r.good -> Goto(r, "clear")
    [] OTHER -> Idle

\* A missing native session is marked after the commit; the attempt is then
\* forgotten.  Every other marking ends its command.
AfterRecovery(s) ==
  IF s.why = "native-missing" THEN Goto(s, "remove") ELSE Idle

ToRebuild(s) == [Goto(s, "rebuild") EXCEPT !.end = NoTerminal]

\* rebuild and abandon go on after they committed what the engine reported.
AfterRemove(s) ==
  CASE s.cmd = "rebuild" /\ s.end.by = "runtime" /\ s.good ->
         ToRebuild(s)
    [] s.cmd = "abandon" /\ s.end.by = "runtime" /\ s.good -> Goto(s, "clear")
    [] OTHER -> Idle

After(s, result) ==
  CASE s.step = "commit" -> AfterCommit(s, result)
    [] s.step = "recovery" -> AfterRecovery(s)
    [] s.step = "remove" -> AfterRemove(s)
    [] s.step = "prepare" /\ result # "ok" -> ToCommit(s, "failed", "prepare")
    [] s.step = "creating" -> Goto(s, "create")
    [] s.step = "create" -> Goto(s, "sent")
    [] s.step = "sent" -> Goto(s, "send")
    [] s.step = "acceptDelivery" /\ result = "ok" -> Goto(s, "trust")
    [] s.step = "trust" -> Goto(s, "acceptTurn")
    [] s.step = "acceptTurn" /\ result = "ok" -> Goto(s, "drain")
    [] s.step \in {"acceptDelivery", "acceptTurn"} /\ result # "ok" ->
         ToRecovery(s, "ambiguous")
    [] s.step = "rebuild" /\ result = "ok" /\ s.end # NoTerminal ->
         Goto(s, "remove")
    [] s.step = "clear" /\ s.end.by = "abandon" -> Goto(s, "remove")
    [] OTHER -> Idle

-----------------------------------------------------------------------------
(* The writer actor: one call, one transaction.                            *)

\* upsert_binding_state: the whole row is overwritten, with no comparison.
Upsert(t) ==
  LET s == thread[t] IN
  /\ Storing(t)
  /\ s.fact = NoFact
  /\ row' = [row EXCEPT ![s.binding] = s.plan]
  /\ Become(t, After(s, "ok"))
  /\ UNCHANGED <<log, gens, owner, runtime, asked, recoveries, crashes>>

\* Mutants: the append does not look for an unresolved attempt; a second
\* terminal replaces the first.
AdmittedAlways(s) == s.fact \in FactType

RecordedButTerminals(s) ==
  CASE s.fact = "turnRequested" -> Requested(s.attempt)
    [] s.fact = "turnCommitted" -> FALSE
    [] OTHER -> Has(s.attempt, s.fact)

Recorded(s) ==
  CASE s.fact = "turnRequested" -> Requested(s.attempt)
    [] s.fact = "turnCommitted" -> Committed(s.attempt)
    [] OTHER -> Has(s.attempt, s.fact)

\* A request is refused while the session has an unresolved attempt.
Admitted(s) ==
  s.fact = "turnRequested" => \A a \in Attempt : ~Unresolved(a)

WithFact(s) ==
  LET f == log[s.attempt] IN
  CASE s.fact = "turnRequested" ->
         [f EXCEPT !.gen = s.plan.gen,
                   !.after = Cardinality({a \in Attempt : Requested(a)})]
    [] s.fact = "turnCommitted" -> [f EXCEPT !.terminal = s.end]
    [] OTHER -> [f EXCEPT !.has = @ \cup {s.fact}]

\* A fact and the row, together (append_event_inner).
Append(t) ==
  LET s == thread[t] IN
  /\ Storing(t)
  /\ s.fact # NoFact
  /\ ~Recorded(s)
  /\ Admitted(s)
  /\ log' = [log EXCEPT ![s.attempt] = WithFact(s)]
  /\ row' = [row EXCEPT ![s.binding] = s.plan]
  /\ Become(t, After(s, "ok"))
  /\ UNCHANGED <<gens, owner, runtime, asked, recoveries, crashes>>

\* The attempt has this fact.  The same payload is a replay, which leaves
\* the row alone; another payload, or another time stamp, is a conflict.
Replay(t) ==
  LET s == thread[t] IN
  /\ Storing(t)
  /\ s.fact # NoFact
  /\ Recorded(s)
  /\ \/ /\ s.fact = "turnCommitted" => log[s.attempt].terminal = s.end
        /\ Become(t, After(s, "ok"))
     \/ Become(t, After(s, "error"))
  /\ UNCHANGED <<store, owner, runtime, asked, recoveries, crashes>>

Refuse(t) ==
  LET s == thread[t] IN
  /\ Storing(t)
  /\ s.fact # NoFact
  /\ ~Recorded(s)
  /\ ~Admitted(s)
  /\ Become(t, After(s, "error"))
  /\ UNCHANGED <<store, owner, runtime, asked, recoveries, crashes>>

\* A step of thread t that only changes what t does next.
Only(t, state) ==
  /\ Become(t, state)
  /\ UNCHANGED <<store, owner, runtime, asked, recoveries, crashes>>

-----------------------------------------------------------------------------
(* The commands of the sender: begin, then prepare, then dispatch, each    *)
(* issued once.  The caller may vanish at any time (the window reloads);   *)
(* a command that was issued runs to its end.                              *)

Issue(t, cmd, step, a) ==
  /\ ~Running(t)
  /\ Become(t, Start(cmd, step, a, BindingOf[a]))

Busy(a) ==
  \E t \in Thread : /\ Running(t)
                    /\ thread[t].attempt = a
                    /\ thread[t].cmd \in {"begin", "prepare", "dispatch"}

IssueBegin(t, a) ==
  /\ ~Requested(a)
  /\ ~Busy(a)
  /\ Issue(t, "begin", "begin", a)
  /\ UNCHANGED <<store, owner, runtime, asked, recoveries, crashes>>

IssueNext(t, a, from, cmd, step) ==
  /\ asked[a] = from
  /\ ~Busy(a)
  /\ asked' = [asked EXCEPT ![a] = cmd]
  /\ Issue(t, cmd, step, a)
  /\ UNCHANGED <<store, owner, runtime, recoveries, crashes>>

IssuePrepare(t, a) ==
  Requested(a) /\ IssueNext(t, a, "nothing", "prepare", "prepare")

IssueDispatch(t, a) ==
  Has(a, "deliveryPrepared") /\ IssueNext(t, a, "prepare", "dispatch", "check")

\* begin_turn_core.  An operation left unresolved, or a binding that a crash
\* left in creation, turns the call into a recovery mark or an early return.
BeginTurn(t) ==
  LET s == thread[t]
      b == s.binding
      open == {a \in Attempt : Unresolved(a)}
      Ends(c) == IF row[c].state = "creating"
                 THEN ToRecovery([s EXCEPT !.binding = c], "crash-window")
                 ELSE Idle
  IN
  /\ At(t, "begin")
  /\ MayLoad
  /\ \/ /\ open # {}
        /\ \E a \in open : Only(t, Ends(BindingOf[a]))
     \/ /\ open = {}
        /\ row[b].state \in {"creating", "recovery-required"}
        /\ Only(t, Ends(b))
     \/ /\ open = {}
        /\ row[b] = NoRow
        /\ gens' = gens + 1
        /\ Become(t, Plan(s, [gen |-> gens + 1, state |-> "prepared",
                              why |-> "none", native |-> FALSE,
                              trust |-> "dirty", pending |-> NoPending,
                              accepted |-> 0, committed |-> 0],
                          "turnRequested"))
        /\ UNCHANGED <<log, row, owner, runtime, asked, recoveries, crashes>>
     \/ /\ open = {}
        /\ row[b].state \in {"prepared", "ready"}
        /\ Only(t, Plan(s, [row[b] EXCEPT
                              !.state = IF row[b].native THEN "ready"
                                        ELSE "prepared",
                              !.why = "none"],
                        "turnRequested"))

\* shared_session_v2_prepare_delivery.  Compiling or writing the package may
\* fail, and a row with a pending delivery refuses another.
PrepareDelivery(t) ==
  LET s == thread[t]
      r == row[s.binding]
  IN
  /\ At(t, "prepare")
  /\ MayLoad
  /\ \/ Only(t, After(s, "error"))
     \/ /\ r.pending = NoPending
        /\ Only(t, Plan(s, [r EXCEPT !.pending =
                              PendingOf(s.attempt, "prepared")],
                        "deliveryPrepared"))

-----------------------------------------------------------------------------
(* shared_session_v2_dispatch_turn, from the check of the pending delivery *)
(* to the release of the events held back.                                 *)

\* The target must still exist, and the delivery be of this attempt and
\* prepared.
CheckDelivery(t) ==
  LET s == thread[t]
      a == s.attempt
  IN
  /\ At(t, "check")
  /\ MayLoad
  /\ \/ Only(t, ToCommit(s, "failed", "refused"))
     \/ /\ Current(a)
        /\ OwnsPending(a)
        /\ Only(t, IF PendingIs(a, "prepared") THEN Goto(s, "register")
                   ELSE ToRecovery(s, "ambiguous"))

\* The attempt becomes known to the coordinator, unless its artifact is gone
\* or it has settled.
RegisterAttempt(t) ==
  LET s == thread[t]
      a == s.attempt
  IN
  /\ At(t, "register")
  /\ \/ Only(t, ToCommit(s, "failed", "refused"))
     \/ /\ owner' = [owner EXCEPT ![a] =
                       IF @ = "absent" THEN "registered" ELSE @]
        /\ Become(t, IF Settled(a) THEN ToCommit(s, runtime[a], "runtime")
                     ELSE Goto(s, "creating"))
        /\ UNCHANGED <<store, runtime, asked, recoveries, crashes>>

\* Record, before a native session is made, that it is being made.
MarkCreating(t) ==
  LET s == thread[t]
      r == row[s.binding]
  IN
  /\ At(t, "creating")
  /\ MayLoad
  /\ Only(t, IF ~Current(s.attempt) THEN ToRecovery(s, "ambiguous")
             ELSE IF r.native THEN Goto(s, "create")
             ELSE Plan(s, [r EXCEPT !.gen = log[s.attempt].gen,
                                    !.state = "creating", !.why = "none"],
                       NoFact))

\* The engine makes or resumes the native session, or fails; its identity
\* is recorded (materialize_attempt_binding, persist_materialized_binding).
MaterializeBinding(t) ==
  LET s == thread[t]
      r == row[s.binding]
      known == s.binding \in EarlyIdentity
  IN
  /\ At(t, "create")
  /\ MayLoad
  /\ \/ Only(t, ToRecovery(s, "ambiguous"))
     \/ /\ Current(s.attempt)
        /\ Only(t, Plan(s, [r EXCEPT
                              !.gen = log[s.attempt].gen,
                              !.native = TRUE,
                              !.state = IF known THEN "ready" ELSE "creating",
                              !.why = "none"],
                        NoFact))

\* Mutant: the phase stays as it was.
StillPreparedRow(s) == [row[s.binding] EXCEPT !.native = TRUE]

SentRow(s) ==
  [row[s.binding] EXCEPT !.native = TRUE,
                         !.pending = PendingOf(s.attempt, "sent")]

\* mark_delivery_sent.  A row that changed hands fails the dispatch.
MarkSent(t) ==
  LET s == thread[t] IN
  /\ At(t, "sent")
  /\ MayLoad
  /\ Only(t, IF PendingIs(s.attempt, "prepared") THEN Plan(s, SentRow(s), NoFact)
             ELSE ToCommit(s, "failed", "dispatch"))

\* The prompt goes to the engine, which accepts it, rejects it, or gives no
\* answer that can be trusted.
Send(t) ==
  LET s == thread[t]
      a == s.attempt
  IN
  /\ At(t, "send")
  /\ \/ Only(t, ToCommit(s, "failed", "dispatch"))
     \/ /\ "missing" \in RuntimeOutcome
        /\ s.binding \notin EarlyIdentity
        /\ Only(t, ToCommit(s, "missing", "dispatchMissing"))
     \/ Only(t, ToRecovery(s, "ambiguous"))
     \/ /\ runtime' = [runtime EXCEPT ![a] = "running"]
        /\ \/ Become(t, Goto(s, "bind"))
           \/ Become(t, ToRecovery(s, "ambiguous"))
        /\ UNCHANGED <<store, owner, asked, recoveries, crashes>>

\* The exact turn is bound; its events are held back from here on.
BindRuntimeTurn(t) ==
  LET s == thread[t]
      a == s.attempt
  IN
  /\ At(t, "bind")
  /\ IF Registered(a)
     THEN /\ owner' = [owner EXCEPT ![a] = "held"]
          /\ Become(t, Goto(s, IF s.binding \in EarlyIdentity
                               THEN "acceptDelivery" ELSE "ack"))
          /\ UNCHANGED <<store, runtime, asked, recoveries, crashes>>
     ELSE Only(t, ToRecovery(s, "ambiguous"))

Ended(a) == runtime[a] \notin {"none", "running"}

\* wait_for_context_ack_or_settlement: the echo of the context, the end of
\* the turn before it, or neither in time.
AwaitContextAck(t) ==
  LET s == thread[t]
      a == s.attempt
  IN
  /\ At(t, "ack")
  /\ \/ /\ Registered(a)
        /\ Only(t, Goto(s, "acceptDelivery"))
     \/ Only(t, ToRecovery(s, "ambiguous"))
     \/ /\ Registered(a)
        /\ Ended(a)
        /\ owner' = [owner EXCEPT ![a] = "settled"]
        /\ Become(t, ToCommit(s, runtime[a], "runtime"))
        /\ UNCHANGED <<store, runtime, asked, recoveries, crashes>>

\* accept_delivery: the context cursor moves to what the package covered.
AcceptDelivery(t) ==
  LET s == thread[t]
      a == s.attempt
  IN
  /\ At(t, "acceptDelivery")
  /\ MayLoad
  /\ Only(t, IF ~PendingIs(a, "sent") THEN ToRecovery(s, "ambiguous")
             ELSE Plan(s, [row[s.binding] EXCEPT
                             !.native = TRUE,
                             !.pending = PendingOf(a, "accepted"),
                             !.accepted = log[a].after],
                       "deliveryAccepted"))

\* set_native_context_trust, when the package carried anything.
SetTrust(t) ==
  LET s == thread[t]
      r == row[s.binding]
  IN
  /\ At(t, "trust")
  /\ MayLoad
  /\ \/ Only(t, Goto(s, "acceptTurn"))
     \/ /\ r.trust = "dirty"
        /\ Only(t, Plan(s, [r EXCEPT !.trust = "trusted", !.why = "none"],
                        NoFact))

\* The row of a turn the engine accepted, of the generation of its attempt.
AcceptedRow(s) ==
  [row[s.binding] EXCEPT !.gen = log[s.attempt].gen, !.native = TRUE,
                         !.state = "ready", !.why = "none"]

\* Mutant: the generation is not compared before the row is written.
AcceptTurnUnfenced(t) ==
  LET s == thread[t] IN
  /\ At(t, "acceptTurn")
  /\ MayLoad
  /\ Only(t, Plan(s, AcceptedRow(s), "turnAccepted"))

\* accept_turn_for_attempt_core.
AcceptTurn(t) ==
  LET s == thread[t] IN
  /\ At(t, "acceptTurn")
  /\ MayLoad
  /\ Only(t, IF Current(s.attempt)
             THEN Plan(s, AcceptedRow(s), "turnAccepted")
             ELSE ToRecovery(s, "ambiguous"))

\* Mutant: nobody commits an end that was held back.
EndDropped(s) == Idle

\* An end among the events held back is committed.
CommitHeldEnd(s) ==
  IF Ended(s.attempt) THEN ToCommit(s, runtime[s.attempt], "runtime") ELSE Idle

\* The events held back are released; an end among them settles the turn
\* (drain_replay_barrier).
ReleaseEvents(t) ==
  LET s == thread[t]
      a == s.attempt
  IN
  /\ At(t, "drain")
  /\ IF owner[a] # "held" THEN Only(t, Idle)
     ELSE /\ owner' = [owner EXCEPT ![a] =
                         IF Ended(a) THEN "settled" ELSE "observed"]
          /\ Become(t, CommitHeldEnd(s))
          /\ UNCHANGED <<store, runtime, asked, recoveries, crashes>>

-----------------------------------------------------------------------------
(* The end of a turn.                                                      *)

\* The engine ends the turn, as it likes.
EndTurn(a, outcome) ==
  /\ runtime[a] = "running"
  /\ outcome = "missing" => BindingOf[a] \notin EarlyIdentity
  /\ runtime' = [runtime EXCEPT ![a] = outcome]
  /\ UNCHANGED <<store, owner, asked, thread, recoveries, crashes>>

\* The event sink sees the end, settles the attempt and commits it
\* (publish_shared_runtime_observation).
ObserveEnd(t, a) ==
  /\ owner[a] = "observed"
  /\ Ended(a)
  /\ ~Running(t)
  /\ owner' = [owner EXCEPT ![a] = "settled"]
  /\ Become(t, ToCommit(Start("observe", "commit", a, BindingOf[a]),
                        runtime[a], "runtime"))
  /\ UNCHANGED <<store, runtime, asked, recoveries, crashes>>

\* A waiter (await_turn_terminal), or a commit_turn, finds the settlement
\* and commits it as well.
AwaitTerminal(t, a) ==
  /\ Settled(a)
  /\ ~Committed(a)
  /\ ~Running(t)
  /\ Become(t, ToCommit(Start("observe", "commit", a, BindingOf[a]),
                        runtime[a], "runtime"))
  /\ UNCHANGED <<store, owner, runtime, asked, recoveries, crashes>>

Negative(outcome) == outcome \in {"failed", "missing", "cancelled", "replaced"}

\* Mutant: only a delivery that was accepted is consumed.
ConsumedIfAccepted(r, a) ==
  IF r.pending = PendingOf(a, "accepted") THEN NoPending ELSE r.pending

\* A terminal consumes the pending delivery of its attempt, accepted or not.
Consumed(r, a) == NoPending

\* The row a terminal leaves: the pending delivery is consumed, an accepted
\* one moves the committed cursor, a native session nobody acknowledged is
\* dropped, and only a completed turn keeps its history trusted.
TerminalRow(s) ==
  LET a == s.attempt
      r == row[s.binding]
      named == \/ s.end.by = "runtime"
               \/ s.end.by = "dispatch" /\ s.binding \in EarlyIdentity
               \/ Has(a, "turnAccepted")
      identity == named \/ r.state = "ready"
  IN [r EXCEPT !.gen = log[a].gen,
               !.state = IF identity THEN "ready" ELSE "prepared",
               !.why = "none",
               !.native = identity /\ (named \/ @),
               !.trust = IF s.end.outcome = "completed" THEN "trusted"
                                                        ELSE "dirty",
               !.committed = IF r.pending = PendingOf(a, "accepted")
                             THEN log[a].after ELSE @,
               !.pending = Consumed(r, a)]

\* Mutant: a completed turn need not have been accepted.
NeverEarly(s) == s.end.outcome \notin Outcome

\* A completed turn that was not accepted yet.
Early(s) == s.end.outcome = "completed" /\ ~Has(s.attempt, "turnAccepted")

\* commit_runtime_snapshot_core up to its append, with the reuse of a
\* negative terminal by a dispatch that failed.
CommitTurn(t) ==
  LET s == thread[t]
      a == s.attempt
      r == row[s.binding]
      reused == /\ s.end.by \in {"refused", "dispatch", "dispatchMissing"}
                /\ Negative(log[a].terminal.outcome)
      others == r.pending # NoPending /\ r.pending.attempt # a
      Return(result) == Only(t, After(s, result))
  IN
  /\ At(t, "commit")
  /\ MayLoad
  /\ IF reused THEN Return("ok")
     ELSE IF ~Current(a) THEN Return("stale")
     ELSE IF Early(s) THEN Return("error")
     ELSE IF Committed(a)
     THEN Return(IF log[a].terminal = s.end THEN "ok"
                 ELSE IF log[a].terminal.outcome \in {"cancelled", "replaced"}
                 THEN "stale" ELSE "error")
     ELSE IF others THEN Return("error")
     ELSE Only(t, Plan(s, TerminalRow(s), "turnCommitted"))

-----------------------------------------------------------------------------
(* Recovery.                                                               *)

\* Mutant: the row is written without the cursors it had.
RecoveryRowAnew(s) ==
  [row[s.binding] EXCEPT !.state = "recovery-required", !.why = s.why,
                         !.trust = "dirty", !.accepted = 0, !.committed = 0]

RecoveryRow(s) ==
  [row[s.binding] EXCEPT !.state = "recovery-required", !.why = s.why,
                         !.trust = "dirty"]

\* mark_recovery_core.
MarkRecovery(t) ==
  /\ At(t, "recovery")
  /\ MayLoad
  /\ Only(t, Plan(thread[t], RecoveryRow(thread[t]), NoFact))

\* remove_attempt.
RemoveAttempt(t) ==
  LET s == thread[t] IN
  /\ At(t, "remove") \/ At(t, "forget")
  /\ owner' = [owner EXCEPT ![s.attempt] = "absent"]
  /\ Become(t, IF s.step = "remove" THEN After(s, "ok")
               ELSE IF s.end = NoTerminal
               THEN ToCommit(s, "cancelled", "abandon")
               ELSE Goto(s, "commit"))
  /\ UNCHANGED <<store, runtime, asked, recoveries, crashes>>

Recover(t, a, cmd) ==
  /\ cmd \in RecoveryCommand
  /\ ~Running(t)
  /\ recoveries < MaxRecovery
  /\ recoveries' = recoveries + 1
  /\ Requested(a)
  /\ UNCHANGED <<store, owner, runtime, asked, crashes>>

Begun(cmd, a) == Start(cmd, "commit", a, BindingOf[a])

\* shared_session_v2_cancel_attempt: only a prepared attempt that nobody
\* registered.
CancelAttempt(t, a) ==
  /\ Recover(t, a, "cancel")
  /\ ~Committed(a)
  /\ ~Registered(a)
  /\ Current(a)
  /\ PendingIs(a, "prepared")
  /\ Become(t, ToCommit(Begun("cancel", a), "cancelled", "user"))

\* shared_session_v2_mark_recovery.
MarkRecoveryCommand(t, a) ==
  /\ Recover(t, a, "markRecovery")
  /\ ~Committed(a)
  /\ IF Settled(a)
     THEN Become(t, ToCommit(Begun("markRecovery", a), runtime[a], "runtime"))
     ELSE /\ Current(a)
          /\ ~(Has(a, "turnAccepted") /\ Registered(a))
          /\ Become(t, ToRecovery(Begun("markRecovery", a), "marked"))

\* shared_session_v2_recover_attempt: an attempt that was never sent is
\* cancelled; without evidence nothing happens.
RecoverAttempt(t, a) ==
  /\ Recover(t, a, "recover")
  /\ Unresolved(a)
  /\ IF Settled(a)
     THEN Become(t, ToCommit(Begun("recover", a), runtime[a], "runtime"))
     ELSE /\ ~Has(a, "turnAccepted")
          /\ Has(a, "deliveryPrepared") => PendingIs(a, "prepared")
          /\ Become(t, ToCommit(Begun("recover", a), "cancelled", "probe"))

\* shared_session_v2_rebuild_binding: refused while the engine works on the
\* attempt that is unresolved there.
RebuildCommand(t, a) ==
  LET b == BindingOf[a] IN
  /\ Recover(t, a, "rebuild")
  /\ row[b] # NoRow
  /\ UnresolvedOn(b) # {} => a \in UnresolvedOn(b)
  /\ IF Unresolved(a) /\ Settled(a)
     THEN Become(t, ToCommit(Begun("rebuild", a), runtime[a], "runtime"))
     ELSE /\ Unresolved(a) => ~Registered(a)
          /\ Become(t, Goto(Begun("rebuild", a), "rebuild"))

\* rebuild_binding_core: a new generation, and the unresolved attempt is
\* replaced in the same transaction.
RebuildBinding(t) ==
  LET s == thread[t]
      b == s.binding
      new == [gen |-> gens + 1, state |-> "prepared", why |-> "none",
              native |-> FALSE, trust |-> "dirty", pending |-> NoPending,
              accepted |-> 0, committed |-> 0]
      replaced == [outcome |-> "replaced", by |-> "rebuild"]
  IN
  /\ At(t, "rebuild")
  /\ MayLoad
  /\ \/ /\ UnresolvedOn(b) = {}
        /\ gens' = gens + 1
        /\ Become(t, Plan(s, new, NoFact))
        /\ UNCHANGED <<log, row, owner, runtime, asked, recoveries, crashes>>
     \/ \E a \in UnresolvedOn(b) :
          IF ~Current(a) THEN Only(t, Idle)
          ELSE /\ gens' = gens + 1
               /\ Become(t, [Plan(s, new, "turnCommitted") EXCEPT
                               !.attempt = a, !.end = replaced])
               /\ UNCHANGED <<log, row, owner, runtime, asked, recoveries,
                              crashes>>

\* shared_session_v2_abandon_unresolved_attempt, with force: the interrupt
\* may have any effect, and its failure stops nothing.
AbandonCommand(t, a) ==
  /\ Recover(t, a, "abandon")
  /\ Unresolved(a)
  /\ Become(t, Goto(Begun("abandon", a), "evidence"))

\* A settlement is read before the coordinator forgets the attempt.
ReadEvidence(t) ==
  LET s == thread[t]
      seen == [outcome |-> runtime[s.attempt], by |-> "runtime"]
  IN
  /\ At(t, "evidence")
  /\ Only(t, IF Settled(s.attempt)
             THEN [Goto(s, "forget") EXCEPT !.end = seen]
             ELSE Goto(s, "forget"))

\* clear_binding_recovery_if_idle.
ClearRecovery(t) ==
  LET s == thread[t]
      r == row[s.binding]
  IN
  /\ At(t, "clear")
  /\ MayLoad
  /\ IF UnresolvedOn(s.binding) # {} \/ r.state # "recovery-required"
     THEN Only(t, After(s, "ok"))
     ELSE Only(t, Plan(s, [r EXCEPT
                             !.state = IF r.native THEN "ready"
                                       ELSE "prepared",
                             !.why = "none",
                             !.trust = "dirty"],
                       NoFact))

\* The program dies and starts again: the store stays, the coordinator is
\* empty, and no command goes on.
Crash ==
  /\ crashes < MaxCrash
  /\ crashes' = crashes + 1
  /\ thread' = [t \in Thread |-> Idle]
  /\ owner' = [a \in Attempt |-> "absent"]
  /\ asked' = [a \in Attempt |-> IF Requested(a) THEN "dispatch" ELSE "nothing"]
  /\ UNCHANGED <<store, runtime, recoveries>>

Call(t) ==
  \/ Upsert(t) \/ Append(t) \/ Replay(t) \/ Refuse(t)

Proceed(t) ==
  \/ BeginTurn(t) \/ PrepareDelivery(t)
  \/ CheckDelivery(t) \/ RegisterAttempt(t) \/ MarkCreating(t)
  \/ MaterializeBinding(t) \/ MarkSent(t) \/ Send(t) \/ BindRuntimeTurn(t)
  \/ AwaitContextAck(t) \/ AcceptDelivery(t) \/ SetTrust(t) \/ AcceptTurn(t)
  \/ ReleaseEvents(t)
  \/ CommitTurn(t) \/ MarkRecovery(t) \/ RemoveAttempt(t)
  \/ RebuildBinding(t) \/ ReadEvidence(t) \/ ClearRecovery(t)

IssueRecovery(t, a) ==
  \/ CancelAttempt(t, a) \/ MarkRecoveryCommand(t, a) \/ RecoverAttempt(t, a)
  \/ RebuildCommand(t, a) \/ AbandonCommand(t, a)

IssueSend(t, a) == IssueBegin(t, a) \/ IssuePrepare(t, a) \/ IssueDispatch(t, a)

Next ==
  \/ \E t \in Thread : Call(t) \/ Proceed(t)
  \/ \E t \in Thread, a \in Attempt :
       IssueSend(t, a) \/ IssueRecovery(t, a) \/ ObserveEnd(t, a)
         \/ AwaitTerminal(t, a)
  \/ \E a \in Attempt, outcome \in RuntimeOutcome : EndTurn(a, outcome)
  \/ Crash

Spec == Init /\ [][Next]_vars

\* A command that was issued is polled until it returns, and every wait in it
\* has a time limit; the event sink reads every event of a turn it may
\* observe.  Nothing obliges the user to act or the engine to end a turn.
Fairness ==
  /\ \A t \in Thread : WF_vars(Call(t) \/ Proceed(t))
  /\ \A a \in Attempt : WF_vars(\E t \in Thread : ObserveEnd(t, a))

FairSpec == Spec /\ Fairness

-----------------------------------------------------------------------------
(* Properties.                                                             *)

ThreadState ==
  [cmd : Command, step : Step, io : {"load", "store"}, attempt : Attempt,
   binding : Binding, plan : Row \cup {NoRow}, fact : FactType,
   end : Terminal \cup {NoTerminal}, why : Reason, good : BOOLEAN]

\* Every variable has its type.
TypeOK ==
  /\ log \in [Attempt -> Facts]
  /\ row \in [Binding -> Row \cup {NoRow}]
  /\ gens \in Nat
  /\ owner \in [Attempt -> {"absent", "registered", "held", "observed",
                           "settled"}]
  /\ runtime \in [Attempt -> {"none", "running"} \cup RuntimeOutcome]
  /\ asked \in [Attempt -> {"nothing", "prepare", "dispatch"}]
  /\ thread \in [Thread -> ThreadState \cup {Idle}]
  /\ recoveries \in 0..MaxRecovery
  /\ crashes \in 0..MaxCrash

\* A session has at most one attempt that was requested and is not committed,
\* however the commands overlap: begin_turn_core checks before it appends,
\* and only the transaction of the append can make that hold.
OneUnresolved ==
  \A a, c \in Attempt : Unresolved(a) /\ Unresolved(c) => a = c

\* What an attempt was committed as never changes, whoever commits it again:
\* the sink, a waiter, a failed dispatch, a recovery command.
TerminalIsFinal ==
  [][\A a \in Attempt :
       Committed(a) => log'[a].terminal = log[a].terminal]_log

\* A terminal committed from a settlement is how the engine ended the turn,
\* and a completed one was accepted before.
TerminalIsTrue ==
  \A a \in Attempt :
    log[a].terminal.by = "runtime" =>
      /\ log[a].terminal.outcome = runtime[a]
      /\ runtime[a] = "completed" => Has(a, "turnAccepted")

\* A delivery recorded as prepared has not reached the engine: what dispatch
\* and recovery take as the one proof that a prompt may be dropped or sent
\* (mark_delivery_sent).
PreparedMeansUnsent ==
  \A a \in Attempt : PendingIs(a, "prepared") => runtime[a] = "none"

\* Once a binding was rebuilt, no attempt of before is ever of its current
\* generation again, so that a late terminal is recognised as stale
\* (require_attempt_binding_generation).
GenerationFence ==
  [][\A b \in Binding :
       row[b] # NoRow /\ row'[b] # row[b] =>
         \/ row'[b].gen = row[b].gen
         \/ \A a \in Attempt : log[a].gen # row'[b].gen]_row

\* What a binding has consumed and committed of the session only grows while
\* its generation lasts: a turn never hands over history a second time
\* because another command wrote an old row back.
CursorNeverRegresses ==
  [][\A b \in Binding :
       row[b] # NoRow /\ row'[b].gen = row[b].gen =>
         /\ row'[b].accepted >= row[b].accepted
         /\ row'[b].committed >= row[b].committed]_row

\* A delivery that is pending belongs to an attempt that is not committed:
\* another's would block every later commit on the binding.
PendingIsUnresolved ==
  \A b \in Binding :
    row[b] # NoRow /\ row[b].pending # NoPending
      => Unresolved(row[b].pending.attempt)

\* The coordinator forgets a settlement only when it is committed; until then
\* it holds the only copy of the answer (settled_for_attempt).
ForgottenWhenCommitted ==
  [][\A a \in Attempt :
       Settled(a) /\ owner'[a] = "absent" => Committed(a) \/ crashes' # crashes
    ]_owner

\* A turn that was accepted, and that its engine ended, is committed in the
\* end, if the program stays up.
AcceptedEndIsCommitted ==
  \A a \in Attempt :
    Has(a, "turnAccepted") /\ Ended(a) /\ Registered(a) ~> Committed(a)

\* An attempt that a probe or the user cancelled as never sent does not reach
\* the engine (shared_session_v2_recover_attempt,
\* shared_session_v2_cancel_attempt).
ProbedWasNotSent ==
  \A a \in Attempt :
    log[a].terminal.by \in {"probe", "user"} => runtime[a] = "none"

=============================================================================
