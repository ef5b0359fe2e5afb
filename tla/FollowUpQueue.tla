--------------------------- MODULE FollowUpQueue ---------------------------
(***************************************************************************)
(* The follow-ups a user writes while an engine is at work:                *)
(* threads/hooks/useQueuedSend.ts, useQueueDrainEffects.ts and             *)
(* useQueuedFusion.ts.                                                     *)
(*                                                                         *)
(* A message waits in the queue of its thread.  Effects of the component   *)
(* send the head of a queue when its thread is at rest, put it back when   *)
(* that fails, and fuse a message into the running turn, or in its place,  *)
(* when the user asks for it.  The engine, the user, the timers and the    *)
(* promises of the sends that are under way come in any order.             *)
(*                                                                         *)
(* The effects run when the state that they depend on has changed (due),   *)
(* and before anything else happens.  An effect that changes the state is  *)
(* followed by a render and the effects run again: each step below is one  *)
(* effect that does something, in the order in which the hooks list them.  *)
(*                                                                         *)
(* Simplifications.                                                        *)
(*  - A review, a question to the user and a compaction hold a thread as a *)
(*    running turn does, and are not told apart from it.  For a shared     *)
(*    thread the running turn stands for a send state that is not idle.    *)
(*  - A thread keeps its name, and so a message its owner.                 *)
(*  - The start-up gate has been released.                                 *)
(***************************************************************************)
EXTENDS Integers, SequencesExt, SequenceFilter

CONSTANTS
  Threads,
  Shared,        \* the threads of shared sessions
  SameRun,       \* the threads whose engine takes input during a turn
  OpenCode,      \* the threads whose engine is opencode
  MaxMessages,   \* bound: messages the user writes
  MaxTurns       \* bound: turns of a thread

ASSUME FollowUpAssumption ==
  /\ Shared \subseteq Threads
  /\ SameRun \subseteq Threads
  /\ OpenCode \subseteq Threads \ Shared
  /\ MaxMessages \in Nat
  /\ MaxTurns \in Nat

Message == 1 .. MaxMessages
None == 0
NoGate == -1
Never == MaxTurns + 1      \* Number.MAX_SAFE_INTEGER

VARIABLES
  active,      \* the thread in view
  made,        \* messages written so far; they are numbered
  queue,       \* queuedByThread
  pendingAck,  \* the messages whose sharedDispatchState is pending-ack
  inFlight,    \* inFlightByThread
  fusion,      \* fusionByThread
  busy,        \* whether a turn of the thread is running
  pulse,       \* terminalPulse: the turns of the thread that ended
  started,     \* hasStartedByThreadRef
  since,       \* nativeInFlightSinceRef: whether it has an entry
  completed,   \* completedQueueDispatchIdsRef
  gate,        \* queuedAfterTerminalPulseRef
  revGate,     \* queuedAfterSharedRevisionRef: the revision has not moved since
  sending,     \* the sends of the drain under way (queueDispatchingRef)
  fusing,      \* the sends of a fusion under way (fusionDispatchingRef)
  fallback,    \* the settle timers of accepted messages
  due,         \* whether the effects have to run
  sent,        \* history: accepted by the engine, and not asked for again
  removed,     \* history: removed by the user
  again,       \* history: put back by the stall timer, to be sent again
  abandoned    \* history: given up by the user although it may have been sent

vars == <<active, made, queue, pendingAck, inFlight, fusion, busy, pulse, started,
          since, completed, gate, revGate, sending, fusing, fallback, due, sent,
          removed, again, abandoned>>

\* Groups for UNCHANGED.
engine == <<busy, pulse>>
flight == <<inFlight, started, since>>
gates == <<completed, gate, revGate>>
sends == <<sending, fusing, fallback>>
user == <<active, made, removed, again, abandoned>>

NoFusion == [stage |-> "none"]
Fusion == [message : Message, mode : {"same-run", "cutover"},
           stage : {"awaiting-predecessor-settlement", "dispatching",
                    "awaiting-continuation"},
           turn : 0 .. MaxTurns, continued : BOOLEAN]

Init ==
  /\ active \in Threads
  /\ made = 0
  /\ queue = [t \in Threads |-> <<>>]
  /\ pendingAck = {}
  /\ inFlight = [t \in Threads |-> None]
  /\ fusion = [t \in Threads |-> NoFusion]
  /\ busy = [t \in Threads |-> FALSE]
  /\ pulse = [t \in Threads |-> 0]
  /\ started = [t \in Threads |-> FALSE]
  /\ since = [t \in Threads |-> FALSE]
  /\ completed = {}
  /\ gate = [m \in Message |-> NoGate]
  /\ revGate = {}
  /\ sending = {}
  /\ fusing = {}
  /\ fallback = {}
  /\ due = FALSE
  /\ sent = {}
  /\ removed = {}
  /\ again = {}
  /\ abandoned = {}

-----------------------------------------------------------------------------
Queued(t) == {m \in Message : Contains(queue[t], m)}
Without(t, m) == Filter(queue[t], Message \ {m})

\* A send: of which message, to which thread, and how many turns of the thread
\* had ended when it began.
Send(t, m) == [thread |-> t, message |-> m, pulse |-> pulse[t]]
UnderWay(t, m, S) == \E d \in S : d.thread = t /\ d.message = m
Dispatched == {d.message : d \in sending \cup fusing}

\* Everything but the effects: it happens when they have run, and they run
\* after it.
Event == ~due /\ due' = TRUE

-----------------------------------------------------------------------------
(* The user.                                                               *)

\* queueMessage, and handleSend when it queues.
queueMessage ==
  /\ Event
  /\ made < MaxMessages
  /\ made' = made + 1
  /\ queue' = [queue EXCEPT ![active] = Append(@, made')]
  /\ gate' = IF busy[active] THEN [gate EXCEPT ![made'] = pulse[active]] ELSE gate
  /\ UNCHANGED <<active, pendingAck, flight, fusion, engine, completed, revGate,
                 sends, sent, removed, again, abandoned>>

\* The entry of m leaves the queue, and what was kept of it.
Forget(t, m) ==
  /\ queue' = [queue EXCEPT ![t] = Without(t, m)]
  /\ gate' = [gate EXCEPT ![m] = NoGate]
  /\ revGate' = revGate \ {m}

\* Mutant: a message may be removed while it is being fused.
RemovesWhileFused(m) ==
  /\ Event
  /\ m \in Queued(active) \ pendingAck
  /\ inFlight[active] # m
  /\ Forget(active, m)
  /\ removed' = removed \cup {m}
  /\ UNCHANGED <<active, made, again, abandoned, pendingAck, flight, fusion, engine,
                 completed, sends, sent>>

\* removeQueuedMessage, for the thread in view.  The button of a message that is
\* being fused is disabled.
removeQueuedMessage(m) ==
  LET t == active IN
  /\ Event
  /\ m \in Queued(t) \ pendingAck
  /\ inFlight[t] # m
  /\ fusion[t] # NoFusion => fusion[t].message # m
  /\ Forget(t, m)
  /\ removed' = removed \cup {m}
  /\ UNCHANGED <<active, made, pendingAck, flight, fusion, engine, completed,
                 sends, sent, again, abandoned>>

\* removeQueuedMessage for a message whose acknowledgement is missing: the user
\* confirms, and the attempt is abandoned in the event log.
abandonQueuedMessage(m) ==
  LET t == active IN
  /\ Event
  /\ m \in Queued(t) \cap pendingAck
  /\ fusion[t] # NoFusion => fusion[t].message # m
  /\ Forget(t, m)
  /\ inFlight' = [inFlight EXCEPT ![t] = IF @ = m THEN None ELSE @]
  /\ abandoned' = abandoned \cup {m}
  /\ UNCHANGED <<active, made, pendingAck, fusion, engine, started, since,
                 completed, sends, sent, removed, again>>

SwitchThread(t) ==
  /\ Event
  /\ t # active
  /\ active' = t
  /\ UNCHANGED <<made, queue, pendingAck, flight, fusion, engine, gates, sends,
                 sent, removed, again, abandoned>>

-----------------------------------------------------------------------------
(* The engine, as the status of the thread shows it.                       *)

TurnStarts(t) ==
  /\ Event
  /\ ~busy[t]
  /\ pulse[t] < MaxTurns
  /\ busy' = [busy EXCEPT ![t] = TRUE]
  /\ revGate' = IF t \in Shared THEN revGate \ Queued(t) ELSE revGate
  /\ UNCHANGED <<user, queue, pendingAck, flight, fusion, pulse, completed, gate,
                 sends, sent>>

TurnEnds(t) ==
  /\ Event
  /\ busy[t]
  /\ busy' = [busy EXCEPT ![t] = FALSE]
  /\ pulse' = [pulse EXCEPT ![t] = @ + 1]
  /\ revGate' = IF t \in Shared THEN revGate \ Queued(t) ELSE revGate
  /\ UNCHANGED <<user, queue, pendingAck, flight, fusion, completed, gate, sends,
                 sent>>

\* The turn goes on after it took some input: activeContinuationPulse.
TurnContinues(t) ==
  /\ Event
  /\ busy[t]
  /\ fusion[t].stage = "awaiting-continuation"
  /\ fusion' = [fusion EXCEPT ![t].continued = TRUE]
  /\ UNCHANGED <<user, queue, pendingAck, flight, engine, gates, sends, sent>>

\* The identity of the running turn, 0 when there is none.
TurnOf(t) == IF busy[t] THEN pulse[t] + 1 ELSE 0

-----------------------------------------------------------------------------
(* Fusion.                                                                 *)

\* dispatchFusionSuccessor up to its await.
dispatchFusionSuccessor(t, m, f) ==
  /\ ~UnderWay(t, m, fusing)
  /\ m \in Queued(t)
  /\ fusing' = fusing \cup {Send(t, m)}
  /\ pendingAck' = IF t \in Shared THEN pendingAck \cup {m} ELSE pendingAck
  /\ fusion' = [fusion EXCEPT ![t] =
       [f EXCEPT !.stage = "dispatching", !.turn = TurnOf(t), !.continued = FALSE]]

\* fuseQueuedMessage: into the running turn at once, or in the place of the
\* running turn, which it interrupts.  A message that was asked for again is
\* not held against the queue when it is sent again.
fuseQueuedMessage(m) ==
  LET t == active
      mode == IF t \in SameRun THEN "same-run" ELSE "cutover"
      f == [message |-> m, mode |-> mode, turn |-> TurnOf(t), continued |-> FALSE,
            stage |-> "awaiting-predecessor-settlement"]
  IN
  /\ Event
  /\ busy[t]
  /\ fusion[t] = NoFusion /\ inFlight[t] = None
  /\ m \in Queued(t) \ pendingAck
  /\ \/ mode = "same-run" /\ dispatchFusionSuccessor(t, m, f)
     \/ /\ mode = "cutover"
        /\ fusion' = [fusion EXCEPT ![t] = f]
        /\ UNCHANGED <<fusing, pendingAck>>
  /\ sent' = sent \ {m}
  /\ UNCHANGED <<user, queue, flight, engine, gates, sending, fallback>>

\* The engine, or for a shared thread the event log, has the message.
FusionAccepted(d) ==
  LET t == d.thread
      m == d.message
  IN
  /\ Event
  /\ d \in fusing
  /\ fusing' = fusing \ {d}
  /\ sent' = sent \cup {m}
  /\ IF t \in Shared
     THEN /\ Forget(t, m)
          /\ fusion' = [fusion EXCEPT ![t] = NoFusion]
     ELSE /\ fusion' = [fusion EXCEPT ![t] =
                          IF @ # NoFusion /\ @.message = m
                          THEN [@ EXCEPT !.stage = "awaiting-continuation"] ELSE @]
          /\ UNCHANGED <<queue, gate, revGate>>
  /\ UNCHANGED <<user, pendingAck, flight, engine, completed, sending, fallback>>

\* The send fails.  A shared one may be known not to have been sent (blocked);
\* otherwise its message waits for its acknowledgement.
FusionFails(d, blocked) ==
  LET t == d.thread
      m == d.message
  IN
  /\ Event
  /\ d \in fusing
  /\ blocked => t \in Shared
  /\ fusing' = fusing \ {d}
  /\ pendingAck' = IF blocked THEN pendingAck \ {m} ELSE pendingAck
  /\ revGate' = IF blocked THEN revGate \cup {m} ELSE revGate
  /\ gate' = [gate EXCEPT ![m] = d.pulse]
  /\ fusion' = [fusion EXCEPT ![t] = NoFusion]
  /\ UNCHANGED <<user, queue, flight, engine, completed, sending, fallback, sent>>

\* Mutant: nothing keeps the message from being sent again.
FusionForgotten ==
  LET f == fusion[active] IN
  /\ Event
  /\ f.stage \in {"awaiting-predecessor-settlement", "awaiting-continuation"}
  /\ fusion' = [fusion EXCEPT ![active] = NoFusion]
  /\ UNCHANGED <<user, queue, pendingAck, flight, engine, gates, sends, sent>>

\* The time limit of a fusion of the thread in view.
FusionTimesOut ==
  LET f == fusion[active] IN
  /\ Event
  /\ f.stage \in {"awaiting-predecessor-settlement", "awaiting-continuation"}
  /\ gate' = [gate EXCEPT ![f.message] = Never]
  /\ fusion' = [fusion EXCEPT ![active] = NoFusion]
  /\ UNCHANGED <<user, queue, pendingAck, flight, engine, completed, revGate,
                 sends, sent>>

Settled(t, f) == t \in Shared \/ pulse[t] >= f.turn

Continued(t, f) ==
  IF f.mode = "same-run" THEN f.continued ELSE busy[t] /\ TurnOf(t) # f.turn

\* The effects of useQueuedFusion, for the thread in view: a message whose
\* predecessor has ended; one that the engine has gone on with.
SuccessorDue ==
  LET f == fusion[active] IN
  /\ f.stage = "awaiting-predecessor-settlement"
  /\ ~busy[active]
  /\ Settled(active, f)

Succeeds ==
  LET f == fusion[active] IN
  /\ SuccessorDue
  /\ dispatchFusionSuccessor(active, f.message, f)
  /\ UNCHANGED <<user, queue, flight, engine, gates, sending, fallback, due, sent>>

ContinuationDue ==
  LET f == fusion[active] IN
  f.stage = "awaiting-continuation" /\ Continued(active, f)

Continues ==
  LET f == fusion[active] IN
  /\ ContinuationDue
  /\ Forget(active, f.message)
  /\ fusion' = [fusion EXCEPT ![active] = NoFusion]
  /\ UNCHANGED <<user, pendingAck, flight, engine, completed, sends, due, sent>>

FusionEffect == Succeeds \/ Continues

-----------------------------------------------------------------------------
(* The drain.                                                              *)

\* What clears the mark of the message in flight.
ClearFlight(T) ==
  /\ inFlight' = [t \in Threads |-> IF t \in T THEN None ELSE inFlight[t]]
  /\ started' = [t \in Threads |-> t \notin T /\ started[t]]
  /\ since' = [t \in Threads |-> t \notin T /\ since[t]]

\* The settlement effect: the turn of a message in flight has begun; or it has
\* ended, or never shows within the time limit.
Starts(t) ==
  /\ t \notin Shared
  /\ inFlight[t] # None /\ busy[t] /\ ~started[t]
  /\ started' = [started EXCEPT ![t] = TRUE]
  /\ UNCHANGED <<user, queue, pendingAck, inFlight, since, fusion, engine, gates,
                 sends, due, sent>>

Settles(t) ==
  /\ t \notin Shared
  /\ inFlight[t] # None /\ ~busy[t]
  /\ started[t] \/ (since[t] /\ inFlight[t] \in completed)
  /\ ClearFlight({t})
  /\ UNCHANGED <<user, queue, pendingAck, fusion, engine, gates, sends, due, sent>>

SettlementEffect == \E t \in Threads : Starts(t) \/ Settles(t)

\* tryDrainThread: the reasons to hold a thread, and to hold its head.
Held(t) ==
  \/ busy[t]
  \/ fusion[t] # NoFusion
  \/ inFlight[t] # None
  \/ queue[t] = <<>>

HeadHeld(t) ==
  LET m == Head(queue[t]) IN
  \/ m \in pendingAck
  \/ m \in completed          \* the code would drop it; it never waits here
  \/ UnderWay(t, m, sending)
  \/ IF t \in Shared THEN m \in revGate ELSE gate[m] >= pulse[t]

Drainable(t) == ~Held(t) /\ ~HeadHeld(t)

\* tryDrainThread up to its await.
DrainThread(t) ==
  LET m == Head(queue[t]) IN
  /\ Drainable(t)
  /\ IF t \in Shared
     THEN /\ pendingAck' = pendingAck \cup {m}
          /\ UNCHANGED queue
     ELSE /\ queue' = [queue EXCEPT ![t] = Without(t, m)]
          /\ UNCHANGED pendingAck
  /\ inFlight' = [inFlight EXCEPT ![t] = m]
  /\ started' = [started EXCEPT ![t] = FALSE]
  /\ since' = [since EXCEPT ![t] = FALSE]
  /\ sending' = sending \cup {Send(t, m)}
  /\ UNCHANGED <<user, fusion, engine, gates, fusing, fallback, due, sent>>

\* One thread out of view at a time.
MayDrain(t) == t = active \/ \A u \in Threads \ {active} : inFlight[u] = None

DrainEffect == \E t \in Threads : MayDrain(t) /\ DrainThread(t)

Effects ==
  /\ due
  /\ IF SuccessorDue \/ ContinuationDue THEN FusionEffect
                                       ELSE SettlementEffect \/ DrainEffect

\* The effects have nothing left to do; or the user clicked a moment ago, and
\* those of the drain return at once.
Rest ==
  /\ due
  /\ ~SuccessorDue /\ ~ContinuationDue
  /\ due' = FALSE
  /\ UNCHANGED <<user, queue, pendingAck, flight, fusion, engine, gates, sends,
                 sent>>

\* Mutant: the time of the acceptance is not kept.
AcceptedWithoutTime(d) ==
  LET t == d.thread IN
  /\ Event
  /\ d \in sending
  /\ sending' = sending \ {d}
  /\ completed' = completed \cup {d.message}
  /\ sent' = sent \cup {d.message}
  /\ Forget(t, d.message)
  /\ IF t \in Shared THEN ClearFlight({t}) ELSE UNCHANGED flight
  /\ UNCHANGED <<user, pendingAck, fusion, engine, fusing, fallback>>

\* The send of a message is accepted: native threads keep the mark in flight
\* until the turn has shown itself, and set a timer in case it never does.
SendAccepted(d) ==
  LET t == d.thread
      m == d.message
  IN
  /\ Event
  /\ d \in sending
  /\ sending' = sending \ {d}
  /\ completed' = completed \cup {m}
  /\ sent' = sent \cup {m}
  /\ Forget(t, m)
  /\ IF t \in Shared
     THEN /\ ClearFlight({t})
          /\ UNCHANGED fallback
     ELSE /\ since' = [since EXCEPT ![t] = TRUE]
          /\ started' = [started EXCEPT ![t] = @ \/ busy[t]]
          /\ fallback' = fallback \cup {d}
          /\ UNCHANGED inFlight
  /\ UNCHANGED <<user, pendingAck, fusion, engine, fusing>>

\* Mutant: the message of a send that fails is not put back.
FailsForGood(d) ==
  /\ Event
  /\ d \in sending
  /\ sending' = sending \ {d}
  /\ ClearFlight({d.thread})
  /\ UNCHANGED <<user, queue, pendingAck, fusion, engine, gates, fusing, fallback,
                 sent>>

\* It fails: the message of a native thread goes back, behind a gate that the
\* next end of a turn opens.
SendFails(d) ==
  LET t == d.thread
      m == d.message
  IN
  /\ Event
  /\ d \in sending
  /\ sending' = sending \ {d}
  /\ ClearFlight({t})
  /\ IF t \in Shared
     THEN UNCHANGED <<queue, gate>>
     ELSE /\ queue' = [queue EXCEPT ![t] = <<m>> \o @]
          /\ gate' = [gate EXCEPT ![m] = pulse[t]]
  /\ UNCHANGED <<user, pendingAck, fusion, engine, completed, revGate, fusing,
                 fallback, sent>>

\* A shared message is known not to have been sent.
SendBlocked(d) ==
  LET m == d.message IN
  /\ Event
  /\ d \in sending
  /\ d.thread \in Shared
  /\ sending' = sending \ {d}
  /\ ClearFlight({d.thread})
  /\ pendingAck' = pendingAck \ {m}
  /\ revGate' = revGate \cup {m}
  /\ UNCHANGED <<user, queue, fusion, engine, completed, gate, fusing, fallback,
                 sent>>

\* The settle timer: the turn of an accepted message was never seen.
FallbackFires(d) ==
  LET t == d.thread IN
  /\ Event
  /\ d \in fallback
  /\ fallback' = fallback \ {d}
  /\ IF inFlight[t] = d.message /\ d.message \in completed /\ ~busy[t]
     THEN ClearFlight({t})
     ELSE UNCHANGED flight
  /\ UNCHANGED <<user, queue, pendingAck, fusion, engine, gates, sending, fusing,
                 sent>>

\* The stall timer of opencode: a message in flight without a turn is put back,
\* to be sent again.
Stalls ==
  LET t == active
      m == inFlight[t]
  IN
  /\ Event
  /\ t \in OpenCode
  /\ m # None /\ ~busy[t] /\ ~started[t]
  /\ ClearFlight({t})
  /\ completed' = completed \ {m}
  /\ gate' = [gate EXCEPT ![m] = NoGate]
  /\ queue' = [queue EXCEPT ![t] = <<m>> \o @]
  /\ again' = again \cup {m}
  /\ UNCHANGED <<active, made, removed, abandoned, pendingAck, fusion, engine,
                 revGate, sends, sent>>

-----------------------------------------------------------------------------
Next ==
  \/ queueMessage
  \/ \E m \in Message :
       removeQueuedMessage(m) \/ abandonQueuedMessage(m) \/ fuseQueuedMessage(m)
  \/ \E t \in Threads :
       SwitchThread(t) \/ TurnStarts(t) \/ TurnEnds(t) \/ TurnContinues(t)
  \/ \E d \in sending : SendAccepted(d) \/ SendFails(d) \/ SendBlocked(d)
  \/ \E d \in fusing :
       FusionAccepted(d) \/ FusionFails(d, TRUE) \/ FusionFails(d, FALSE)
  \/ \E d \in fallback : FallbackFires(d)
  \/ FusionTimesOut
  \/ Stalls
  \/ Effects
  \/ Rest

Spec == Init /\ [][Next]_vars

-----------------------------------------------------------------------------
(* Properties.                                                             *)

\* The types of the state: among others, a turn in progress is one of those the
\* bound allows.
TypeOK ==
  /\ active \in Threads
  /\ made \in 0 .. MaxMessages
  /\ queue \in [Threads -> Seq(Message)]
  /\ inFlight \in [Threads -> Message \cup {None}]
  /\ fusion \in [Threads -> Fusion \cup {NoFusion}]
  /\ busy \in [Threads -> BOOLEAN] /\ pulse \in [Threads -> 0 .. MaxTurns]
  /\ \A t \in Threads : busy[t] => pulse[t] < MaxTurns
  /\ started \in [Threads -> BOOLEAN] /\ since \in [Threads -> BOOLEAN]
  /\ gate \in [Message -> {NoGate} \cup 0 .. Never]
  /\ sending \cup fusing \cup fallback
       \subseteq [thread : Threads, message : Message, pulse : 0 .. MaxTurns]
  /\ pendingAck \cup completed \cup revGate \cup sent \cup removed \cup again
       \cup abandoned \subseteq Message
  /\ due \in BOOLEAN

\* A message that the engine has accepted is not being sent again, by the drain
\* or by a fusion, whatever became of its turn, its timers and its place in the
\* queue; and no message is sent by both at once.  (To fuse it again, or the
\* stall of opencode, asks for it.)
NothingIsSentTwice ==
  /\ Dispatched \cap sent \subseteq again
  /\ \A d \in sending, e \in fusing : d.message = e.message => d.message \in again

\* Of two sends of a thread that are under way, a turn has ended since the first
\* began: a message is not sent before the one in front of it has been answered
\* or has had its turn.  (Not counting what the user abandoned.)
OneAtATime ==
  \A d, e \in sending :
    /\ d.thread = e.thread /\ d.pulse = e.pulse
    /\ {d.message, e.message} \cap abandoned = {}
    => d = e

\* What the user has removed from the queue is not sent, nor does it come back.
RemovedStaysRemoved ==
  \A m \in removed \ again :
    m \notin Dispatched /\ \A t \in Threads : m \notin Queued(t)

\* The mark that holds a thread comes off: it belongs to a send under way, or to
\* an accepted message that the settlement will find.
InFlightIsBacked ==
  \A t \in Threads :
    inFlight[t] # None =>
      \/ UnderWay(t, inFlight[t], sending)
      \/ since[t] /\ inFlight[t] \in completed

\* A message is queued, or being sent, or was accepted, or the user gave it up:
\* no failure, time limit or late answer drops it.
NothingIsLost ==
  \A m \in 1 .. made :
    \/ \E t \in Threads : m \in Queued(t)
    \/ m \in Dispatched \cup sent \cup removed \cup abandoned

=============================================================================
