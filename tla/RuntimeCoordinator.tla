------------------------ MODULE RuntimeCoordinator ------------------------
(***************************************************************************)
(* The owner of the events that the engines send back:                     *)
(* src-tauri/src/shared_runtime_coordinator.rs, with the steps of a        *)
(* dispatch that drive it (shared_session_v2/dispatch_settlement.rs), the  *)
(* readers of the engines that feed it and the commands that wait on it.   *)
(*                                                                         *)
(* The turn of an attempt is known to its engine before the dispatch that  *)
(* asked for it learns its identity.  The events that come first are kept  *)
(* (unowned_events) for as long as the native session is on hold, moved    *)
(* behind a barrier when the turn is bound, and replayed after the prompt  *)
(* is durably accepted; the events that come meanwhile queue behind them.  *)
(*                                                                         *)
(* Each operation of the coordinator holds its lock and is one action, but *)
(* the waiters' and the two that commit a settlement and then forget it.   *)
(*                                                                         *)
(* Simplifications.                                                        *)
(*  - A turn has its own identity, and its events carry it; only the start *)
(*    of a session does not.  An event that carries the session alone      *)
(*    would go to the attempt that was bound to it last.                   *)
(*  - An event is its number in the turn: the blocks of a snapshot are     *)
(*    the events it was made from.                                         *)
(*  - The Codex sessions share one runtime, and so one provisioning hold.  *)
(*  - A settlement commits; TurnLifecycle has the commits that fail, and   *)
(*    the outcomes that an intent to cancel changes.                       *)
(*  - Abandoning takes one step: it removes the attempt before and after   *)
(*    it commits the cancellation.                                         *)
(***************************************************************************)
EXTENDS Integers, SequenceFilter

CONSTANTS
  Attempt,
  Session,       \* native sessions that attempts are bound to
  SessionOf,     \* the session of the binding of an attempt
  Codex,         \* the sessions of Codex, which announces a thread it starts
  Plain,         \* Codex threads that the user starts outside shared sessions
  Acks,          \* the attempts whose context is acknowledged by its echo
  Awaited,       \* bound: the attempts whose end a command awaits
  Troubled,      \* bound: the attempts that fail or are given up on the way
  MaxUnowned,    \* MAX_UNOWNED_EVENTS
  MaxText,       \* bound: the texts of each turn
  Twice          \* bound: the attempts whose end may be reported twice

ASSUME CoordinatorAssumption ==
  /\ Attempt \cap Session = {}
  /\ SessionOf \in [Attempt -> Session]
  /\ Codex \subseteq Session
  /\ Plain \cap (Attempt \cup Session) = {}
  /\ "none" \notin Attempt
  /\ Acks \subseteq {a \in Attempt : SessionOf[a] \notin Codex}
  /\ Awaited \subseteq Attempt /\ Troubled \subseteq Attempt
  /\ MaxUnowned \in Nat \ {0}
  /\ MaxText \in [Attempt -> Nat]
  /\ Twice \subseteq Attempt

None == "none"

VARIABLES
  attempts,      \* the attempts registered and not removed
  byTurn,        \* attempt_by_runtime_turn: a turn is named by its attempt
  byNative,      \* attempt_by_native_session
  held,          \* held_attempt_by_native_session
  provisioning,  \* held_provisioning_attempts_by_runtime, of Codex
  unowned,       \* unowned_events
  barrier,       \* replay_barriers: whether one is open
  pending,       \* ReplayBarrier.pending
  applied,       \* the events that the accumulator of an attempt took
  settled,       \* AttemptAccumulator.settled, settled_by_attempt
  acked,         \* context_ack
  step,          \* where the dispatch of each attempt is
  waiter,        \* where the command that awaits the end of each attempt is
  notified,      \* the waiters that notify_waiters reached
  closing,       \* the settlements being committed, by whom and how far
  committed,     \* durable: the end of each attempt
  created,       \* the Codex sessions whose thread was started
  announced,     \* the threads whose start was announced
  emitted,       \* the number of events of each turn that were read
  turn,          \* the turn of each attempt in its engine
  shown,         \* history: the events shown in the shared thread
  dropped,       \* history: the attempts that lost events at the limit
  strayed        \* history: the attempts whose events were not kept for them

vars == <<attempts, byTurn, byNative, held, provisioning, unowned, barrier,
          pending, applied, settled, acked, step, waiter, notified, closing,
          committed, created, announced, emitted, turn, shown, dropped, strayed>>

\* Groups for UNCHANGED.
index == <<attempts, byTurn, byNative>>
holds == <<held, provisioning>>
replay == <<barrier, pending>>
account == <<applied, settled, acked>>
waits == <<waiter, notified>>
ends == <<closing, committed>>
engine == <<created, announced, emitted, turn>>
history == <<shown, dropped, strayed>>

Event == [of : Attempt \cup Session \cup Plain, n : Nat,
          kind : {"started", "echo", "text", "end"}]

Scope(s) == s \in Codex \cup Plain
NativeOf(e) == IF e.of \in Attempt THEN SessionOf[e.of] ELSE e.of
HasTurn(e) == e.kind # "started"
Ends(e) == e.kind = "end"
NoEcho == {e \in Event : e.kind # "echo"}
Agents == {"reader", "dispatch", "waiter"}

Init ==
  /\ attempts = {} /\ byTurn = {}
  /\ byNative = [s \in Session |-> None]
  /\ held = [s \in Session |-> None]
  /\ provisioning = {}
  /\ unowned = <<>>
  /\ barrier = {}
  /\ pending = [a \in Attempt |-> <<>>]
  /\ applied = [a \in Attempt |-> <<>>]
  /\ settled = {} /\ acked = {}
  /\ step = [a \in Attempt |-> "none"]
  /\ waiter = [a \in Attempt |-> "none"]
  /\ notified = {} /\ closing = {}
  /\ committed = [a \in Attempt |-> [by |-> "nobody", blocks |-> <<>>]]
  /\ created = {} /\ announced = {}
  /\ emitted = [a \in Attempt |-> 0]
  /\ turn = [a \in Attempt |-> "none"]
  /\ shown = [a \in Attempt |-> <<>>]
  /\ dropped = {} /\ strayed = {}

----------------------------------------------------------------------------
(* Whose an event is.                                                       *)

\* is_exact_native_held_ingress, is_provisioning_held_ingress
ExactlyHeld(e, hold) == NativeOf(e) \in Session /\ hold[NativeOf(e)] \in attempts
ProvisioningHeld(e, P) == e.kind = "started" /\ Scope(NativeOf(e)) /\ P # {}
Claimant(e) ==
  IF e.of \in Attempt THEN e.of ELSE IF ExactlyHeld(e, held) THEN held[e.of] ELSE None
Held(e) == ExactlyHeld(e, held) \/ ProvisioningHeld(e, provisioning \cap attempts)

\* Mutant of Owner: an event of a turn that is over goes with its session.
OwnerBySession(e, turns, native) ==
  IF HasTurn(e) /\ e.of \in turns THEN e.of
  ELSE IF NativeOf(e) \in Session /\ native[NativeOf(e)] \in attempts
  THEN native[NativeOf(e)]
  ELSE None

\* The turn decides; the session does where an event names no turn, or the
\* attempt that was bound to the session last has none (resolve_attempt_id).
Owner(e, turns, native) ==
  IF HasTurn(e) /\ e.of \in turns THEN e.of
  ELSE IF NativeOf(e) \in Session /\ native[NativeOf(e)] \in attempts
            /\ ~ (HasTurn(e) /\ native[NativeOf(e)] \in turns)
  THEN native[NativeOf(e)]
  ELSE None

UpToEnd(q) ==
  IF \E i \in DOMAIN q : Ends(q[i])
  THEN SubSeq(q, 1, CHOOSE i \in DOMAIN q :
                      Ends(q[i]) /\ \A j \in 1 .. i - 1 : ~Ends(q[j]))
  ELSE q

\* What the accumulator takes of a sequence: nothing after its end (apply).
Takes(a, q) == IF a \in settled THEN <<>> ELSE UpToEnd(q)
Settles(a, q) == a \notin settled /\ \E i \in DOMAIN q : Ends(q[i])

\* What the thread shows of a batch: an end of a settled attempt is a
\* duplicate (drain_replay_barrier).
Shows(a, q) == Takes(a, q) \o
  Filter(SubSeq(q, Len(Takes(a, q)) + 1, Len(q)), {e \in Event : ~Ends(e)})

Apply(a, q) ==
  /\ applied' = [applied EXCEPT ![a] = @ \o Takes(a, q)]
  /\ IF Settles(a, q)
     THEN settled' = settled \cup {a} /\ notified' = notified \cup {a}
     ELSE UNCHANGED <<settled, notified>>

\* Mutant of QueueBehind: an event goes before those that wait.
BehindEverything(a, q) ==
  /\ pending' = [pending EXCEPT ![a] = Filter(q, NoEcho) \o @]
  /\ acked' = IF \E i \in DOMAIN q : q[i].kind = "echo" THEN acked \cup {a} ELSE acked

\* The echo of the context is taken out of the line (queue_behind_replay_barrier).
QueueBehind(a, q) ==
  /\ pending' = [pending EXCEPT ![a] = @ \o Filter(q, NoEcho)]
  /\ acked' = IF \E i \in DOMAIN q : q[i].kind = "echo" THEN acked \cup {a} ELSE acked

----------------------------------------------------------------------------
(* The readers of the engines (ingest_or_buffer, apply_ingress).            *)

\* Mutant of Keep: the queue has no limit.
KeepAll(e) ==
  /\ unowned' = Append(unowned, e)
  /\ UNCHANGED <<index, replay, account, waits, closing, history>>

Keep(e) ==
  /\ unowned' = Append(IF Len(unowned) >= MaxUnowned THEN Tail(unowned) ELSE unowned, e)
  /\ dropped' = IF Len(unowned) >= MaxUnowned /\ Head(unowned).of \in Attempt
                THEN dropped \cup {Head(unowned).of} ELSE dropped
  /\ UNCHANGED <<index, replay, account, waits, closing, shown, strayed>>

\* An event that nobody holds is a native one.
PassBy(e) ==
  /\ strayed' = IF e.of \in attempts THEN strayed \cup {e.of} ELSE strayed
  /\ UNCHANGED <<index, unowned, replay, account, waits, closing, shown, dropped>>

Queue(a, e) ==
  /\ QueueBehind(a, <<e>>)
  /\ UNCHANGED <<index, unowned, barrier, applied, settled, waits, closing, history>>

TakeLive(a, e) ==
  /\ byNative' = [byNative EXCEPT ![NativeOf(e)] = a]
  /\ IF e.kind = "echo"
     THEN /\ acked' = acked \cup {a}
          /\ UNCHANGED <<applied, settled, notified, closing, shown>>
     ELSE /\ Apply(a, <<e>>)
          /\ shown' = [shown EXCEPT ![a] = Append(@, e)]
          /\ closing' = IF Settles(a, <<e>>)
                        THEN closing \cup {[by |-> "reader", of |-> a, to |-> "commit"]}
                        ELSE closing
          /\ UNCHANGED acked
  /\ UNCHANGED <<attempts, byTurn, unowned, replay, waiter, dropped, strayed>>

\* Mutant of Ingest: what comes once the turn is bound does not queue.
IngestPastBarrier(e) ==
  /\ LET a == Owner(e, byTurn, byNative)
     IN  IF a # None THEN TakeLive(a, e)
         ELSE IF Held(e) THEN Keep(e) ELSE PassBy(e)
  /\ UNCHANGED <<holds, step, committed, created>>

Ingest(e) ==
  /\ LET a == Owner(e, byTurn, byNative)
     IN  IF a = None THEN IF Held(e) THEN Keep(e) ELSE PassBy(e)
         ELSE IF a \in barrier THEN Queue(a, e)
         ELSE TakeLive(a, e)
  /\ UNCHANGED <<holds, step, committed, created>>

\* A reader commits a settlement before it reads on.
ReaderIsFree(s) == \A c \in closing : c.by = "reader" => SessionOf[c.of] # s

MayRead(a) ==
  /\ ReaderIsFree(SessionOf[a])
  /\ SessionOf[a] \in Codex => SessionOf[a] \in announced

ReadTurn(a, kind) ==
  /\ MayRead(a)
  /\ emitted' = [emitted EXCEPT ![a] = @ + 1]
  /\ Ingest([of |-> a, n |-> emitted[a] + 1, kind |-> kind])
  /\ UNCHANGED announced

\* The echo of the context comes first, and is no part of what the turn says.
ReadEcho(a) ==
  /\ turn[a] = "running" /\ a \in Acks /\ emitted[a] = 0
  /\ MayRead(a)
  /\ turn' = [turn EXCEPT ![a] = "echoed"]
  /\ Ingest([of |-> a, n |-> 0, kind |-> "echo"])
  /\ UNCHANGED <<announced, emitted>>

ReadText(a) ==
  /\ turn[a] \in {"running", "echoed"} /\ emitted[a] < MaxText[a]
  /\ ReadTurn(a, "text") /\ UNCHANGED turn

\* Claude reports an end by its result and again when its process is done.
ReadEnd(a) ==
  /\ \/ turn[a] \in {"running", "echoed"}
     \/ turn[a] = "ended" /\ a \in Twice
  /\ turn' = [turn EXCEPT ![a] = IF @ = "ended" THEN "done" ELSE "ended"]
  /\ ReadTurn(a, "end")

ReadStart(s) ==
  /\ s \in (created \cup Plain) \ announced
  /\ announced' = announced \cup {s}
  /\ Ingest([of |-> s, n |-> 0, kind |-> "started"])
  /\ UNCHANGED <<emitted, turn>>

----------------------------------------------------------------------------
(* A dispatch, up to the turn.                                              *)

Open(a) == step[a] # "none" /\ committed[a].by = "nobody"

Goes(a, to) == step' = [step EXCEPT ![a] = to]

\* register_attempt, without identities (begin admits one open attempt only),
\* and hold_native_provisioning, before a thread is started.
Register(a) ==
  /\ step[a] = "none"
  /\ \A b \in Attempt : SessionOf[b] = SessionOf[a] => ~Open(b)
  /\ attempts' = attempts \cup {a}
  /\ IF SessionOf[a] \in Codex \ created
     THEN provisioning' = provisioning \cup {a} /\ Goes(a, "starting")
     ELSE UNCHANGED provisioning /\ Goes(a, "materialized")
  /\ UNCHANGED <<byTurn, byNative, held, unowned, replay, account, waits, ends,
                 engine, history>>

ThreadStarts(a) ==
  /\ step[a] = "starting"
  /\ created' = created \cup {SessionOf[a]}
  /\ Goes(a, "materialized")
  /\ UNCHANGED <<index, holds, unowned, replay, account, waits, ends, announced,
                 emitted, turn, history>>

\* Mutant of FinishProvisioning: the hold goes, what it kept stays.
FinishHoldOnly(a, hold) ==
  /\ provisioning' = provisioning \ {a}
  /\ UNCHANGED unowned

\* The starts that no hold keeps are released (finish_native_provisioning).
FinishProvisioning(a, hold) ==
  LET P == provisioning \ {a}
      released(e) == e.kind = "started" /\ Scope(NativeOf(e)) /\ ~ExactlyHeld(e, hold)
                       /\ ~ProvisioningHeld(e, P \cap attempts)
  IN  /\ provisioning' = P
      /\ unowned' = IF a \in provisioning
                    THEN Filter(unowned, {e \in Event : ~released(e)}) ELSE unowned

\* hold_native_session, the end of the provisioning hold, and the prompt.
Send(a) ==
  /\ step[a] = "materialized" /\ a \in attempts
  /\ held[SessionOf[a]] \in {None, a}
  /\ LET hold == [held EXCEPT ![SessionOf[a]] = a]
     IN  held' = hold /\ FinishProvisioning(a, hold)
  /\ Goes(a, "sent")
  /\ turn' = [turn EXCEPT ![a] = "running"]
  /\ UNCHANGED <<index, replay, account, waits, ends, created, announced, emitted,
                 history>>

\* The thread cannot be started or held: the attempt stays, to be recovered.
MaterializeFails(a) ==
  /\ step[a] \in {"starting", "materialized"} /\ a \in attempts
  /\ FinishProvisioning(a, held)
  /\ Goes(a, "failed")
  /\ UNCHANGED <<index, held, replay, account, waits, ends, engine, history>>

\* An answer that says nothing, an attempt that is gone, an acceptance that
\* is not recorded, no echo in time: ambiguous-runtime.
Ambiguous(a) ==
  /\ \/ step[a] \in {"sent", "bound", "acknowledged"}
     \/ step[a] = "materialized" /\ a \notin attempts
  /\ Goes(a, "failed")
  /\ UNCHANGED <<index, holds, unowned, replay, account, waits, ends, engine, history>>

----------------------------------------------------------------------------
(* Binding, replay and removal.                                             *)

\* What is left of the early events, and what the attempt gets of them.
Stays(e, a, native) ==
  /\ Owner(e, byTurn \cup {a}, native) # a
  /\ \/ ProvisioningHeld(e, (provisioning \ {a}) \cap attempts)
     \/ ~ExactlyHeld(e, held) /\ e.kind # "started"

Gets(e, a, native) == Owner(e, byTurn \cup {a}, native) = a

\* bind_runtime_turn, open_replay_barrier
BindRuntimeTurn(a) ==
  /\ step[a] = "sent" /\ a \in attempts
  /\ LET native == [byNative EXCEPT ![SessionOf[a]] = a]
         others == {b \in attempts \ {a} : \E i \in DOMAIN unowned :
                      /\ Claimant(unowned[i]) = b
                      /\ ~Stays(unowned[i], a, native)
                      /\ ~Gets(unowned[i], a, native)}
     IN  /\ byNative' = native
         /\ byTurn' = byTurn \cup {a}
         /\ unowned' = Filter(unowned, {e \in Event : Stays(e, a, native)})
         /\ QueueBehind(a, Filter(unowned, {e \in Event : Gets(e, a, native)}))
         /\ strayed' = strayed \cup others
  /\ barrier' = barrier \cup {a}
  /\ provisioning' = provisioning \ {a}
  /\ held' = [s \in Session |-> IF held[s] = a THEN None ELSE held[s]]
  /\ Goes(a, IF a \in Acks THEN "bound" ELSE "acknowledged")
  /\ UNCHANGED <<attempts, applied, settled, waits, ends, engine, shown, dropped>>

\* wait_for_context_ack_or_settlement
ContextIsAcknowledged(a) ==
  /\ step[a] = "bound" /\ a \in attempts
  /\ a \in acked
  /\ Goes(a, "acknowledged")
  /\ UNCHANGED <<index, holds, unowned, replay, account, waits, ends, engine, history>>

\* The turn ended before its echo: what is held back is applied, not shown.
EndBeforeAcknowledgement(a) ==
  /\ step[a] = "bound" /\ a \in attempts \ acked
  /\ \E i \in DOMAIN pending[a] : Ends(pending[a][i])
  /\ Apply(a, pending[a])
  /\ pending' = [pending EXCEPT ![a] = <<>>]
  /\ barrier' = barrier \ {a}
  /\ closing' = closing \cup {[by |-> "dispatch", of |-> a, to |-> "commit"]}
  /\ byNative' = [byNative EXCEPT ![SessionOf[a]] = a]
  /\ Goes(a, "done")
  /\ UNCHANGED <<attempts, byTurn, holds, unowned, acked, waiter, committed, engine,
                 history>>

\* accept_turn_for_attempt_core: an attempt that has its end is not accepted.
Accept(a) ==
  /\ step[a] = "acknowledged" /\ Open(a)
  /\ Goes(a, "accepted")
  /\ UNCHANGED <<index, holds, unowned, replay, account, waits, ends, engine, history>>

DispatchIsFree(a) == \A c \in closing : ~(c.by = "dispatch" /\ c.of = a)

\* drain_replay_barrier: a batch is shown before the next is taken, and the
\* barrier goes only when there was nothing left.
Drain(a) ==
  /\ step[a] = "accepted" /\ DispatchIsFree(a)
  /\ a \in barrier /\ pending[a] # <<>>
  /\ Apply(a, pending[a])
  /\ shown' = [shown EXCEPT ![a] = @ \o Shows(a, pending[a])]
  /\ closing' = IF Settles(a, pending[a])
                THEN closing \cup {[by |-> "dispatch", of |-> a, to |-> "commit"]}
                ELSE closing
  /\ pending' = [pending EXCEPT ![a] = <<>>]
  /\ byNative' = [byNative EXCEPT ![SessionOf[a]] = a]
  /\ UNCHANGED <<attempts, byTurn, holds, unowned, barrier, acked, step, waiter,
                 committed, engine, dropped, strayed>>

ClearBarrier(a) ==
  /\ step[a] = "accepted" /\ DispatchIsFree(a)
  /\ pending[a] = <<>>
  /\ barrier' = barrier \ {a}
  /\ Goes(a, "done")
  /\ UNCHANGED <<index, holds, unowned, pending, account, waits, ends, engine, history>>

\* remove_attempt.  The start of a session that no hold keeps any more goes.
RemoveAttempt(a) ==
  LET gone(e) ==
        \/ NativeOf(e) \in Session /\ held[NativeOf(e)] = a
        \/ /\ a \in attempts /\ e.kind = "started"
           /\ Scope(NativeOf(e)) = Scope(SessionOf[a])
           /\ ~(Scope(SessionOf[a]) /\ provisioning \ {a} # {})
  IN  /\ notified' = IF a \in attempts THEN notified \cup {a} ELSE notified
      /\ attempts' = attempts \ {a}
      /\ settled' = settled \ {a}
      /\ acked' = acked \ {a}
      /\ applied' = [applied EXCEPT ![a] = <<>>]
      /\ barrier' = barrier \ {a}
      /\ pending' = [pending EXCEPT ![a] = <<>>]
      /\ held' = [s \in Session |-> IF held[s] = a THEN None ELSE held[s]]
      /\ byTurn' = byTurn \ {a}
      /\ byNative' = [s \in Session |-> IF byNative[s] = a THEN None ELSE byNative[s]]
      /\ provisioning' = provisioning \ {a}
      /\ unowned' = Filter(unowned, {e \in Event : ~gone(e)})

\* The engine refused, or the send was never marked: the failure is recorded
\* and the attempt forgotten (persist_not_accepted_dispatch_and_cleanup).
NotAccepted(a) ==
  /\ step[a] = "sent" /\ Open(a)
  /\ RemoveAttempt(a)
  /\ committed' = [committed EXCEPT ![a].by = "dispatch"]
  /\ Goes(a, "failed")
  /\ turn' = [turn EXCEPT ![a] = "done"]
  /\ UNCHANGED <<waiter, closing, created, announced, emitted, history>>

\* shared_session_v2_abandon_attempt, and the probe of one not accepted.
Abandon(a) ==
  /\ Open(a) /\ a \in attempts
  /\ RemoveAttempt(a)
  /\ committed' = [committed EXCEPT ![a] =
       IF a \in settled THEN [by |-> "runtime", blocks |-> applied[a]]
       ELSE [by |-> "user", blocks |-> <<>>]]
  /\ UNCHANGED <<step, waiter, closing, engine, history>>

----------------------------------------------------------------------------
(* Settlements and the commands that wait for them.                         *)

\* commit_observed_runtime_settlement: the first end of an attempt stays.
Commit(c) ==
  /\ c \in closing /\ c.to = "commit"
  /\ committed' = IF Open(c.of)
                  THEN [committed EXCEPT ![c.of] =
                          [by |-> "runtime", blocks |-> applied[c.of]]]
                  ELSE committed
  /\ closing' = (closing \ {c}) \cup {[c EXCEPT !.to = "remove"]}
  /\ UNCHANGED <<index, holds, unowned, replay, account, step, waits, engine, history>>

Forget(c) ==
  /\ c \in closing /\ c.to = "remove"
  /\ RemoveAttempt(c.of)
  /\ closing' = closing \ {c}
  /\ UNCHANGED <<step, waiter, committed, engine, history>>

Waits(a, to) == waiter' = [waiter EXCEPT ![a] = to]

\* The command that awaits the end of an accepted attempt looks first
\* (shared_session_v2_await_turn_terminal, wait_for_settlement).
Looks(a, else) ==
  \/ /\ a \in settled
     /\ Waits(a, "done")
     /\ closing' = closing \cup {[by |-> "waiter", of |-> a, to |-> "commit"]}
  \/ /\ a \notin attempts \cup settled
     /\ Waits(a, "done") /\ UNCHANGED closing
  \/ /\ a \in attempts \ settled
     /\ Waits(a, else) /\ UNCHANGED closing

AwaitSettlement(a) ==
  /\ \/ waiter[a] = "none" /\ step[a] \in {"accepted", "done"} /\ Open(a)
     \/ waiter[a] = "asleep" /\ a \in notified
  /\ Looks(a, "looked")
  /\ UNCHANGED <<index, holds, unowned, replay, account, step, notified, committed,
                 engine, history>>

\* From here on notify_waiters reaches it (enable).
Listen(a) ==
  /\ waiter[a] = "looked"
  /\ notified' = notified \ {a}
  /\ Waits(a, "listening")
  /\ UNCHANGED <<index, holds, unowned, replay, account, step, ends, engine, history>>

\* Mutant of LookAgain: the waiter sleeps on what it saw before it listened.
SleepAtOnce(a) ==
  /\ waiter[a] = "listening"
  /\ Waits(a, "asleep")
  /\ UNCHANGED <<index, holds, unowned, replay, account, step, notified, ends,
                 engine, history>>

LookAgain(a) ==
  /\ waiter[a] = "listening"
  /\ Looks(a, "asleep")
  /\ UNCHANGED <<index, holds, unowned, replay, account, step, notified, committed,
                 engine, history>>

----------------------------------------------------------------------------
Dispatch(a) ==
  \/ Register(a) \/ ThreadStarts(a) \/ Send(a)
  \/ BindRuntimeTurn(a) \/ ContextIsAcknowledged(a) \/ EndBeforeAcknowledgement(a)
  \/ Accept(a) \/ Drain(a) \/ ClearBarrier(a)

Fails(a) == MaterializeFails(a) \/ Ambiguous(a) \/ NotAccepted(a) \/ Abandon(a)

Read(a) == ReadEcho(a) \/ ReadText(a) \/ ReadEnd(a)

Wait(a) == AwaitSettlement(a) \/ Listen(a) \/ LookAgain(a)

Next ==
  \/ \E a \in Attempt : Dispatch(a) \/ Read(a)
  \/ \E a \in Troubled : Fails(a)
  \/ \E a \in Awaited : Wait(a)
  \/ \E s \in Codex \cup Plain : ReadStart(s)
  \/ \E c \in closing : Commit(c) \/ Forget(c)

Spec == Init /\ [][Next]_vars

----------------------------------------------------------------------------
(* Properties.                                                              *)

TypeOK ==
  /\ attempts \subseteq Attempt /\ byTurn \subseteq attempts
  /\ byNative \in [Session -> attempts \cup {None}]
  /\ held \in [Session -> attempts \cup {None}]
  /\ provisioning \subseteq attempts
  /\ unowned \in Seq(Event) /\ Len(unowned) <= MaxUnowned
  /\ barrier \subseteq byTurn
  /\ pending \in [Attempt -> Seq(Event)] /\ applied \in [Attempt -> Seq(Event)]
  /\ \A a \in Attempt : pending[a] # <<>> => a \in barrier
  /\ settled \cup acked \subseteq attempts
  /\ closing \subseteq [by : Agents, of : Attempt, to : {"commit", "remove"}]
  /\ \A a \in Attempt : committed[a].by \in {"nobody", "dispatch", "user", "runtime"}
  /\ shown \in [Attempt -> Seq(Event)]
  /\ notified \cup dropped \cup strayed \subseteq Attempt

Own(a, q) == \A i \in DOMAIN q : q[i].of \in {a, SessionOf[a]}
InLine(q) == \A i \in 1 .. Len(q) - 1 : q[i + 1].n = q[i].n + 1
Said(q) == Filter(q, {e \in Event : e.kind \in {"text", "end"}})
Waiting(a) == Filter(unowned, {e \in Event : e.of = a})

\* Until an attempt is settled, what was applied, what is behind its barrier
\* and what waits for its owner are the events of its turn in their order:
\* all of them, or the last of them if the limit dropped some.  (What
\* another attempt's binding let go is the matter of KeptEventsAreReplayed.)
OrderIsKept ==
  \A a \in attempts \ (settled \cup strayed) :
    LET line == applied[a] \o pending[a] \o Waiting(a)
        said == Said(line)
    IN  /\ Own(a, line) /\ InLine(said)
        /\ said # <<>> => said[Len(said)].n = emitted[a]
        /\ a \notin dropped => Len(said) = emitted[a]

\* A turn that its engine ended is recorded with all it said up to its end,
\* and nothing that another turn of the session said (settled_by_attempt).
EndIsTheTurns ==
  \A a \in Attempt \ strayed :
    committed[a].by = "runtime" =>
      LET said == Said(committed[a].blocks)
      IN  /\ Own(a, said) /\ InLine(said)
          /\ said # <<>> /\ Ends(said[Len(said)])
          /\ a \notin dropped => said[1].n = 1

\* The shared thread shows the events of its turn, each once and in order,
\* the replayed ones before the live ones (replay_barriers).
ShownInOrder ==
  \A a \in Attempt \ strayed : Own(a, shown[a]) /\ InLine(shown[a])

\* An event is kept only while somebody has it on hold: the start of a thread
\* that no shared session claims is let go (finish_native_provisioning,
\* remove_attempt).
KeptEventsAreOnHold ==
  \A i \in DOMAIN unowned : Held(unowned[i])

\* Who waits for the end of an attempt is woken when it is there, and when
\* the attempt is gone (settlement_notify).
WaitersAreWoken ==
  \A a \in Attempt :
    waiter[a] = "asleep" /\ a \notin notified => a \in attempts \ settled

\* The events that are kept for an attempt are replayed to that attempt, and
\* leave in no other way (ui_fanout_deferred).
KeptEventsAreReplayed == strayed = {}

=============================================================================
