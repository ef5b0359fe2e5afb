------------------------ MODULE FollowUpQueueProofs ------------------------
(***************************************************************************)
(* What the follow-up queue keeps, for any threads, engines, messages and  *)
(* turns: proofs of the safety properties of FollowUpQueue.                *)
(*                                                                         *)
(* No property is inductive.  What a message is, queued, being sent,       *)
(* accepted, held, is spread over the queue, two sets of promises, the     *)
(* entry of a fusion, two gates and the marks of the thread, and each      *)
(* hook looks at some of them: the invariant says which combinations of    *)
(* them there are.                                                         *)
(***************************************************************************)
EXTENDS FollowUpQueue, SequenceFilterProofs

-----------------------------------------------------------------------------
(* The inductive invariant.                                                *)

\* A message that a thread still has to do with.
Concerns(t, m) ==
  \/ m \in Queued(t)
  \/ UnderWay(t, m, sending) \/ UnderWay(t, m, fusing)
  \/ fusion[t] # NoFusion /\ fusion[t].message = m
  \/ inFlight[t] = m

\* A message belongs to one thread.
Home ==
  \A t, u \in Threads : \A m \in Message : Concerns(t, m) /\ Concerns(u, m) => t = u

\* Whatever is kept of a message is about one that was written.
Known ==
  /\ \A t \in Threads : \A m \in Message : Concerns(t, m) => m <= made
  /\ pendingAck \cup completed \cup sent \cup removed \cup again \cup abandoned
       \subseteq 1 .. made

\* A fusion that is being sent belongs to the entry of its thread, one at a time,
\* and its message stays in the queue until it is accepted.
FusionSends ==
  /\ \A e \in fusing :
       /\ fusion[e.thread] # NoFusion
       /\ fusion[e.thread].stage = "dispatching"
       /\ fusion[e.thread].message = e.message
       /\ e.message \in Queued(e.thread) \cup sent
  /\ \A d, e \in fusing : d.thread = e.thread => d = e

\* The stages of a fusion: before its send, and after it.
FusionStages ==
  \A t \in Threads : fusion[t] # NoFusion =>
    LET m == fusion[t].message IN
    /\ fusion[t].stage = "awaiting-predecessor-settlement" =>
         m \notin pendingAck /\ (m \in Dispatched \cup sent => m \in again)
    /\ fusion[t].stage = "awaiting-continuation" => m \in sent

\* A message has one send of the drain at a time.
SendsOnce == \A d, e \in sending : d.message = e.message => d = e

\* A shared message that is being sent waits for its acknowledgement, and stays in
\* the queue until it is accepted.
SharedSends ==
  /\ \A d \in sending \cup fusing : d.thread \in Shared => d.message \in pendingAck
  /\ \A d \in sending : d.thread \in Shared =>
       /\ d.message \in Queued(d.thread) \cup abandoned \cup sent
       /\ \A e \in fusing : e.message # d.message

\* A native message that is being sent has left the queue.
NativeSends ==
  \A d \in sending :
    d.thread \notin Shared /\ d.message \notin again => d.message \notin Queued(d.thread)

\* A message that was accepted has left the queue, or is kept from being sent.
SentIsHeld ==
  \A t \in Threads : \A m \in Queued(t) \cap (sent \ again) :
    /\ t \notin Shared
    /\ \/ /\ fusion[t] # NoFusion
          /\ fusion[t].message = m /\ fusion[t].stage = "awaiting-continuation"
       \/ gate[m] = Never

IInv ==
  /\ TypeOK /\ Home /\ Known
  /\ FusionSends /\ FusionStages
  /\ SendsOnce /\ SharedSends /\ NativeSends /\ SentIsHeld
  /\ NothingIsSentTwice /\ RemovedStaysRemoved /\ InFlightIsBacked /\ NothingIsLost

-----------------------------------------------------------------------------
(* Constants, sequences and records.                                       *)

LEMMA Constants ==
  /\ MaxTurns \in Nat /\ MaxMessages \in Nat /\ Never \in Nat /\ Never > MaxTurns
  /\ Message \subseteq Nat /\ None \notin Message
  /\ OpenCode \subseteq Threads \ Shared
BY FollowUpAssumption DEF Never, Message, None

LEMMA AppendHolds ==
  ASSUME NEW q \in Seq(Message), NEW m \in Message
  PROVE  /\ Append(q, m) \in Seq(Message)
         /\ \A x : Contains(Append(q, m), x) <=> Contains(q, x) \/ x = m
<1>1. /\ Append(q, m) \in Seq(Message) /\ Len(Append(q, m)) = Len(q) + 1
      /\ Append(q, m)[Len(q) + 1] = m /\ Len(q) \in Nat
      /\ \A i \in 1 .. Len(q) : Append(q, m)[i] = q[i]
  BY AppendProperties, LenProperties
<1>2. QED BY <1>1 DEF Contains

LEMMA PutBackHolds ==
  ASSUME NEW q \in Seq(Message), NEW m \in Message
  PROVE  /\ <<m>> \o q \in Seq(Message)
         /\ \A x : Contains(<<m>> \o q, x) <=> Contains(q, x) \/ x = m
<1> DEFINE r == <<m>> \o q
<1>1. /\ r \in Seq(Message) /\ Len(r) = Len(q) + 1 /\ Len(q) \in Nat /\ r[1] = m
      /\ \A i \in 1 .. Len(q) : r[i + 1] = q[i]
      /\ \A i \in 2 .. Len(r) : r[i] = q[i - 1]
  OBVIOUS
<1> HIDE DEF r
<1>2. \A x : Contains(r, x) => Contains(q, x) \/ x = m
  <2>1. SUFFICES ASSUME NEW i \in 1 .. Len(r), i # 1
                 PROVE  i \in 2 .. Len(r) /\ i - 1 \in 1 .. Len(q)
    BY <1>1 DEF Contains
  <2>2. QED BY <1>1, <2>1
<1>3. \A x : Contains(q, x) => Contains(r, x)
  <2>1. SUFFICES ASSUME NEW i \in 1 .. Len(q)
                 PROVE  i + 1 \in 1 .. Len(r)
    BY <1>1 DEF Contains
  <2>2. QED BY <1>1, <2>1
<1>4. Contains(r, m)
  BY <1>1 DEF Contains
<1>5. QED BY <1>1, <1>2, <1>3, <1>4 DEF r

LEMMA FilteredHolds ==
  ASSUME NEW q \in Seq(Message), NEW m \in Message
  PROVE  /\ Filter(q, Message \ {m}) \in Seq(Message)
         /\ \A x \in Message : Contains(Filter(q, Message \ {m}), x) <=> Contains(q, x) /\ x # m
<1> DEFINE S == Message \ {m}
<1>1. Message \cap S \subseteq Message
  OBVIOUS
<1> HIDE DEF S
<1>2. Filter(q, S) \in Seq(Message \cap S)
  BY FilterType
<1>3. Filter(q, S) \in Seq(Message)
  BY <1>1, <1>2, SeqMonotonic
<1>4. ASSUME NEW x
      PROVE  Contains(Filter(q, S), x) <=> x \in S /\ Contains(q, x)
  <2>1. (\E k \in 1 .. Len(Filter(q, S)) : Filter(q, S)[k] = x)
          <=> x \in S /\ \E i \in 1 .. Len(q) : q[i] = x
    BY FilterHolds
  <2>2. QED BY <2>1 DEF Contains
<1>5. QED BY <1>3, <1>4 DEF S

\* The entries of a fusion.
LEMMA FusionTypes ==
  ASSUME NEW f \in Fusion \cup {NoFusion}
  PROVE  /\ f # NoFusion => f \in Fusion /\ f.message \in Message
         /\ f = NoFusion => f.stage = "none"
         /\ f.stage # "none" => f # NoFusion
BY DEF Fusion, NoFusion

\* The queues after each kind of change.
LEMMA QueuedMessages ==
  \A t : Queued(t) \subseteq Message
BY DEF Queued

LEMMA QueuedSame ==
  ASSUME queue' = queue
  PROVE  \A t : Queued(t)' = Queued(t)
BY DEF Queued

LEMMA QueuedWithout ==
  ASSUME TypeOK, NEW t \in Threads, NEW m \in Message,
         queue' = [queue EXCEPT ![t] = Without(t, m)]
  PROVE  /\ queue' \in [Threads -> Seq(Message)]
         /\ \A u \in Threads : Queued(u)' = IF u = t THEN Queued(u) \ {m} ELSE Queued(u)
<1>1. queue \in [Threads -> Seq(Message)] /\ queue[t] \in Seq(Message)
  BY DEF TypeOK
<1>2. Without(t, m) \in Seq(Message)
  BY <1>1, FilteredHolds DEF Without
<1>3. \A x \in Message : Contains(Without(t, m), x) <=> Contains(queue[t], x) /\ x # m
  BY <1>1, FilteredHolds DEF Without
<1>4. queue'[t] = Without(t, m) /\ \A u \in Threads \ {t} : queue'[u] = queue[u]
  BY <1>1
<1>5. ASSUME NEW u \in Threads
      PROVE  Queued(u)' = IF u = t THEN Queued(u) \ {m} ELSE Queued(u)
  BY <1>3, <1>4 DEF Queued
<1>6. QED BY <1>1, <1>2, <1>5

LEMMA QueuedAppend ==
  ASSUME TypeOK, NEW t \in Threads, NEW m \in Message,
         queue' = [queue EXCEPT ![t] = Append(@, m)]
  PROVE  /\ queue' \in [Threads -> Seq(Message)]
         /\ \A u \in Threads : Queued(u)' = IF u = t THEN Queued(u) \cup {m} ELSE Queued(u)
<1>1. queue \in [Threads -> Seq(Message)] /\ queue[t] \in Seq(Message)
  BY DEF TypeOK
<1> DEFINE r == Append(queue[t], m)
<1>2. r \in Seq(Message) /\ \A x : Contains(r, x) <=> Contains(queue[t], x) \/ x = m
  BY <1>1, AppendHolds
<1>3. queue' = [queue EXCEPT ![t] = r]
  OBVIOUS
<1> HIDE DEF r
<1>4. queue'[t] = r /\ \A u \in Threads \ {t} : queue'[u] = queue[u]
  BY <1>1, <1>3
<1>5. ASSUME NEW u \in Threads
      PROVE  Queued(u)' = IF u = t THEN Queued(u) \cup {m} ELSE Queued(u)
  BY <1>2, <1>4 DEF Queued
<1>6. QED BY <1>1, <1>2, <1>3, <1>5

LEMMA QueuedBack ==
  ASSUME TypeOK, NEW t \in Threads, NEW m \in Message,
         queue' = [queue EXCEPT ![t] = <<m>> \o @]
  PROVE  /\ queue' \in [Threads -> Seq(Message)]
         /\ \A u \in Threads : Queued(u)' = IF u = t THEN Queued(u) \cup {m} ELSE Queued(u)
<1>1. queue \in [Threads -> Seq(Message)] /\ queue[t] \in Seq(Message)
  BY DEF TypeOK
<1> DEFINE r == <<m>> \o queue[t]
<1>2. r \in Seq(Message) /\ \A x : Contains(r, x) <=> Contains(queue[t], x) \/ x = m
  BY <1>1, PutBackHolds
<1>3. queue' = [queue EXCEPT ![t] = r]
  OBVIOUS
<1> HIDE DEF r
<1>4. queue'[t] = r /\ \A u \in Threads \ {t} : queue'[u] = queue[u]
  BY <1>1, <1>3
<1>5. ASSUME NEW u \in Threads
      PROVE  Queued(u)' = IF u = t THEN Queued(u) \cup {m} ELSE Queued(u)
  BY <1>2, <1>4 DEF Queued
<1>6. QED BY <1>1, <1>2, <1>3, <1>5

LEMMA HeadQueued ==
  ASSUME TypeOK, NEW t \in Threads, queue[t] # <<>>
  PROVE  Head(queue[t]) \in Queued(t) /\ Head(queue[t]) \in Message
<1>1. queue[t] \in Seq(Message)
  BY DEF TypeOK
<1>2. Len(queue[t]) \in Nat /\ Len(queue[t]) # 0
  BY <1>1, EmptySeq, LenProperties
<1>3. Head(queue[t]) = queue[t][1] /\ 1 \in 1 .. Len(queue[t]) /\ queue[t][1] \in Message
  BY <1>1, <1>2
<1>4. QED BY <1>3 DEF Queued, Contains

\* The record types of a send and of a fusion are opened where they are needed.
SendRecord == [thread : Threads, message : Message, pulse : 0 .. MaxTurns]

LEMMA SendTypes ==
  ASSUME TypeOK
  PROVE  /\ \A d \in sending \cup fusing \cup fallback :
              /\ d.thread \in Threads /\ d.message \in Message
              /\ d.pulse \in 0 .. MaxTurns
         /\ \A t \in Threads : \A m \in Message :
              /\ Send(t, m) \in SendRecord
              /\ Send(t, m).thread = t /\ Send(t, m).message = m
BY DEF TypeOK, Send, SendRecord

LEMMA ConcernsSend ==
  ASSUME TypeOK, NEW d \in sending \cup fusing
  PROVE  Concerns(d.thread, d.message)
BY DEF Concerns, UnderWay

\* Steps of the engine, of the timers and of the settlement, which take nothing
\* but marks away.
LEMMA Quiet ==
  ASSUME IInv, TypeOK',
         UNCHANGED <<queue, pendingAck, sending, fusing, sent, removed, again,
                     abandoned, made, fusion, gate, completed>>,
         \A t \in Threads :
           \/ inFlight'[t] = None
           \/ inFlight'[t] = inFlight[t] /\ since'[t] = since[t]
  PROVE  IInv'
<1> USE DEF IInv
<1>1. \A t : Queued(t)' = Queued(t)
  BY QueuedSame
<1>2. \A t \in Threads : \A m \in Message : Concerns(t, m)' => Concerns(t, m)
  BY <1>1, Constants DEF Concerns, UnderWay
<1>3. Home'
  BY <1>2 DEF Home
<1>4. Known'
  BY <1>2 DEF Known
<1>5. FusionSends'
  BY <1>1 DEF FusionSends
<1>6. FusionStages'
  BY <1>1 DEF FusionStages, Dispatched
<1>7. SendsOnce' /\ SharedSends' /\ NativeSends'
  BY <1>1 DEF SendsOnce, SharedSends, NativeSends
<1>8. SentIsHeld'
  BY <1>1 DEF SentIsHeld
<1>9. NothingIsSentTwice'
  BY DEF NothingIsSentTwice, Dispatched
<1>10. RemovedStaysRemoved'
  BY <1>1 DEF RemovedStaysRemoved, Dispatched
<1>11. InFlightIsBacked'
  BY DEF InFlightIsBacked, UnderWay
<1>12. NothingIsLost'
  BY <1>1 DEF NothingIsLost, Dispatched
<1>13. QED BY <1>3, <1>4, <1>5, <1>6, <1>7, <1>8, <1>9, <1>10, <1>11, <1>12

LEMMA SwitchThreadKeeps ==
  ASSUME IInv, NEW t \in Threads, SwitchThread(t)
  PROVE  IInv'
<1>1. TypeOK'
  BY DEF IInv, TypeOK, SwitchThread, Event, flight, engine, gates, sends
<1>2. QED BY <1>1, Quiet DEF SwitchThread, flight, engine, gates, sends

LEMMA TurnStartsKeeps ==
  ASSUME IInv, NEW t \in Threads, TurnStarts(t)
  PROVE  IInv'
<1>1. TypeOK'
  BY Constants DEF IInv, TypeOK, TurnStarts, Event, flight, user, sends
<1>2. QED BY <1>1, Quiet DEF TurnStarts, flight, user, sends

LEMMA TurnEndsKeeps ==
  ASSUME IInv, NEW t \in Threads, TurnEnds(t)
  PROVE  IInv'
<1>1. TypeOK'
  BY Constants DEF IInv, TypeOK, TurnEnds, Event, flight, user, sends
<1>2. QED BY <1>1, Quiet DEF TurnEnds, flight, user, sends

LEMMA ClearFlightIs ==
  ASSUME TypeOK, NEW t \in Threads, ClearFlight({t})
  PROVE  /\ inFlight' \in [Threads -> Message \cup {None}]
         /\ started' \in [Threads -> BOOLEAN] /\ since' \in [Threads -> BOOLEAN]
         /\ inFlight'[t] = None
         /\ \A u \in Threads \ {t} :
              inFlight'[u] = inFlight[u] /\ since'[u] = since[u]
BY DEF TypeOK, ClearFlight

LEMMA FallbackFiresKeeps ==
  ASSUME IInv, NEW d \in fallback, FallbackFires(d)
  PROVE  IInv'
<1> DEFINE t == d.thread
<1>1. t \in Threads
  BY SendTypes DEF IInv
<1>2. /\ inFlight' \in [Threads -> Message \cup {None}]
      /\ started' \in [Threads -> BOOLEAN] /\ since' \in [Threads -> BOOLEAN]
      /\ \A u \in Threads :
           \/ inFlight'[u] = None
           \/ inFlight'[u] = inFlight[u] /\ since'[u] = since[u]
  <2>1. CASE ClearFlight({t})
    BY <1>1, <2>1, ClearFlightIs DEF IInv
  <2>2. CASE UNCHANGED flight
    BY <2>2 DEF IInv, TypeOK, flight
  <2>3. QED BY <2>1, <2>2 DEF FallbackFires
<1>3. TypeOK'
  BY <1>2 DEF IInv, TypeOK, FallbackFires, Event, engine, gates, user
<1>4. QED BY <1>2, <1>3, Quiet DEF FallbackFires, engine, gates, user

LEMMA SettlementEffectKeeps ==
  ASSUME IInv, SettlementEffect
  PROVE  IInv'
<1>1. SUFFICES ASSUME NEW t \in Threads, Starts(t) \/ Settles(t)
               PROVE  IInv'
  BY DEF SettlementEffect
<1>2. CASE Starts(t)
  <2>1. TypeOK'
    BY <1>2 DEF IInv, TypeOK, Starts, user, engine, gates, sends
  <2>2. QED BY <1>2, <2>1, Quiet DEF Starts, user, engine, gates, sends
<1>3. CASE Settles(t)
  <2>1. ClearFlight({t})
    BY <1>3 DEF Settles
  <2>2. /\ inFlight' \in [Threads -> Message \cup {None}]
        /\ started' \in [Threads -> BOOLEAN] /\ since' \in [Threads -> BOOLEAN]
        /\ \A u \in Threads :
             \/ inFlight'[u] = None
             \/ inFlight'[u] = inFlight[u] /\ since'[u] = since[u]
    BY <2>1, ClearFlightIs DEF IInv
  <2>3. TypeOK'
    BY <1>3, <2>2 DEF IInv, TypeOK, Settles, user, engine, gates, sends
  <2>4. QED BY <1>3, <2>2, <2>3, Quiet DEF Settles, user, engine, gates, sends
<1>4. QED BY <1>1, <1>2, <1>3

LEMMA RestKeeps ==
  ASSUME IInv, Rest
  PROVE  IInv'
<1>1. TypeOK'
  BY DEF IInv, TypeOK, Rest, user, flight, engine, gates, sends
<1>2. QED BY <1>1, Quiet DEF Rest, user, flight, engine, gates, sends

LEMMA TurnContinuesKeeps ==
  ASSUME IInv, NEW t \in Threads, TurnContinues(t)
  PROVE  IInv'
<1> USE DEF IInv
<1>1. /\ fusion[t] \in Fusion /\ fusion[t].stage = "awaiting-continuation"
      /\ fusion'[t] \in Fusion /\ fusion'[t] # NoFusion
      /\ fusion'[t].message = fusion[t].message /\ fusion'[t].stage = fusion[t].stage
      /\ \A u \in Threads \ {t} : fusion'[u] = fusion[u]
      /\ fusion' \in [Threads -> Fusion \cup {NoFusion}]
  <2>1. fusion[t] \in Fusion /\ fusion[t].stage = "awaiting-continuation"
    BY FusionTypes DEF TurnContinues, TypeOK
  <2>2. fusion' = [fusion EXCEPT ![t] = [fusion[t] EXCEPT !.continued = TRUE]]
    BY DEF TurnContinues
  <2>3. [fusion[t] EXCEPT !.continued = TRUE] \in Fusion
    BY <2>1 DEF Fusion
  <2>4. QED BY <2>1, <2>2, <2>3 DEF TypeOK, Fusion, NoFusion
<1>2. /\ UNCHANGED <<queue, pendingAck, sending, fusing, fallback, sent, removed, again,
                    abandoned, made, gate, completed, inFlight, since, started, busy,
                    pulse, revGate, active>>
      /\ due' \in BOOLEAN
  BY DEF TurnContinues, user, flight, engine, gates, sends, Event
<1>3. TypeOK'
  BY <1>1, <1>2 DEF TypeOK
<1>4. \A u : Queued(u)' = Queued(u)
  BY <1>2, QueuedSame
<1>5. \A u \in Threads : \A m \in Message : Concerns(u, m)' => Concerns(u, m)
  BY <1>1, <1>2, <1>4, FusionTypes DEF Concerns, UnderWay, TypeOK
<1>6. Home'
  BY <1>5 DEF Home
<1>7. Known'
  BY <1>2, <1>5 DEF Known
<1>8. FusionSends'
  BY <1>1, <1>2, <1>4, SendTypes DEF FusionSends
<1>9. FusionStages'
  BY <1>1, <1>2, FusionTypes DEF FusionStages, Dispatched, TypeOK
<1>10. SendsOnce' /\ SharedSends' /\ NativeSends'
  BY <1>2, <1>4 DEF SendsOnce, SharedSends, NativeSends
<1>11. SentIsHeld'
  BY <1>1, <1>2, <1>4 DEF SentIsHeld
<1>12. NothingIsSentTwice' /\ RemovedStaysRemoved' /\ InFlightIsBacked' /\ NothingIsLost'
  BY <1>2, <1>4
     DEF NothingIsSentTwice, RemovedStaysRemoved, InFlightIsBacked, NothingIsLost,
         Dispatched, UnderWay
<1>13. QED
  BY <1>3, <1>6, <1>7, <1>8, <1>9, <1>10, <1>11, <1>12

LEMMA queueMessageKeeps ==
  ASSUME IInv, queueMessage
  PROVE  IInv'
<1> USE DEF IInv
<1> DEFINE m == made + 1
           t == active
<1>1. /\ made' = m /\ m \in Message /\ made \in Nat /\ m > made /\ t \in Threads
      /\ \A x \in 1 .. m : x \in 1 .. made \/ x = m
  BY FollowUpAssumption DEF queueMessage, TypeOK, Message
<1> HIDE DEF m
<1>2. queue' = [queue EXCEPT ![t] = Append(@, m)]
  BY <1>1 DEF queueMessage
<1>3. /\ queue' \in [Threads -> Seq(Message)]
      /\ \A u \in Threads : Queued(u)' = IF u = t THEN Queued(u) \cup {m} ELSE Queued(u)
  BY <1>1, <1>2, QueuedAppend
<1>4. /\ UNCHANGED <<pendingAck, sending, fusing, fallback, sent, removed, again, fusion,
                    abandoned, completed, inFlight, since, started, busy, pulse, revGate,
                    active>>
      /\ due' \in BOOLEAN
  BY DEF queueMessage, flight, engine, sends, Event
<1>5. /\ gate' \in [Message -> {NoGate} \cup 0 .. Never]
      /\ \A x \in Message \ {m} : gate'[x] = gate[x]
  BY <1>1, Constants DEF queueMessage, TypeOK
<1>6. TypeOK'
  BY <1>1, <1>3, <1>4, <1>5 DEF TypeOK, Message
<1>7. /\ \A u \in Threads : ~Concerns(u, m)
      /\ m \notin pendingAck \cup completed \cup sent \cup removed \cup again \cup abandoned
  <2>1. ~(m <= made) /\ m \notin 1 .. made
    BY <1>1, Constants
  <2>2. QED BY <1>1, <2>1 DEF Known
<1>8. \A u \in Threads : \A x \in Message :
        Concerns(u, x)' => Concerns(u, x) \/ (u = t /\ x = m)
  BY <1>3, <1>4 DEF Concerns, UnderWay
<1>9. Home'
  BY <1>7, <1>8 DEF Home
<1>10. Known'
  BY <1>1, <1>4, <1>8, Constants DEF Known
<1>11. FusionSends'
  BY <1>3, <1>4, SendTypes DEF FusionSends
<1>12. FusionStages'
  BY <1>4 DEF FusionStages, Dispatched
<1>13. SendsOnce' /\ SharedSends'
  BY <1>3, <1>4, SendTypes DEF SendsOnce, SharedSends
<1>14. NativeSends'
  <2>1. \A d \in sending : d.message # m
    BY <1>7, ConcernsSend, SendTypes
  <2>2. QED BY <1>3, <1>4, <2>1, SendTypes DEF NativeSends
<1>15. SentIsHeld'
  BY <1>3, <1>4, <1>5, <1>7, QueuedMessages DEF SentIsHeld
<1>16. NothingIsSentTwice' /\ InFlightIsBacked'
  BY <1>4 DEF NothingIsSentTwice, InFlightIsBacked, Dispatched, UnderWay
<1>17. RemovedStaysRemoved'
  BY <1>3, <1>4, <1>7 DEF RemovedStaysRemoved, Dispatched
<1>18. NothingIsLost'
  BY <1>1, <1>3, <1>4 DEF NothingIsLost, Dispatched
<1>19. QED
  BY <1>6, <1>9, <1>10, <1>11, <1>12, <1>13, <1>14, <1>15, <1>16, <1>17, <1>18

\* The entry of m leaves the queue.
LEMMA ForgetIs ==
  ASSUME TypeOK, NEW t \in Threads, NEW m \in Message, Forget(t, m)
  PROVE  /\ queue' \in [Threads -> Seq(Message)]
         /\ \A u \in Threads : Queued(u)' = IF u = t THEN Queued(u) \ {m} ELSE Queued(u)
         /\ gate' \in [Message -> {NoGate} \cup 0 .. Never]
         /\ \A x \in Message \ {m} : gate'[x] = gate[x]
         /\ revGate' \subseteq Message
<1>1. queue' = [queue EXCEPT ![t] = Without(t, m)]
  BY DEF Forget
<1>2. QED BY <1>1, QueuedWithout DEF Forget, TypeOK

LEMMA removeQueuedMessageKeeps ==
  ASSUME IInv, NEW m \in Message, removeQueuedMessage(m)
  PROVE  IInv'
<1> USE DEF IInv
<1> DEFINE t == active
<1>1. /\ t \in Threads /\ m \in Queued(t) /\ m \notin pendingAck /\ inFlight[t] # m
      /\ fusion[t] # NoFusion => fusion[t].message # m
      /\ removed' = removed \cup {m}
  BY DEF removeQueuedMessage, TypeOK
<1>2. /\ queue' \in [Threads -> Seq(Message)]
      /\ \A u \in Threads : Queued(u)' = IF u = t THEN Queued(u) \ {m} ELSE Queued(u)
      /\ gate' \in [Message -> {NoGate} \cup 0 .. Never]
      /\ \A x \in Message \ {m} : gate'[x] = gate[x]
      /\ revGate' \subseteq Message
  BY <1>1, ForgetIs DEF removeQueuedMessage
<1>3. /\ UNCHANGED <<made, pendingAck, sending, fusing, fallback, sent, again, fusion,
                    abandoned, completed, inFlight, since, started, busy, pulse, active>>
      /\ due' \in BOOLEAN
  BY DEF removeQueuedMessage, flight, engine, sends, Event
<1>4. TypeOK'
  BY <1>1, <1>2, <1>3 DEF TypeOK
<1>5. Concerns(t, m) /\ \A u \in Threads : Concerns(u, m) => u = t
  BY <1>1 DEF Concerns, Home
<1>6. \A u \in Threads : \A x \in Message : Concerns(u, x)' => Concerns(u, x)
  BY <1>2, <1>3 DEF Concerns, UnderWay
<1>7. Home'
  BY <1>6 DEF Home
<1>8. Known'
  <2>1. m \in 1 .. made
    BY <1>1, <1>5 DEF Known, Message
  <2>2. QED BY <1>1, <1>3, <1>6, <2>1 DEF Known
<1>9. \A e \in fusing : e.message # m
  BY <1>1, <1>5, ConcernsSend, SendTypes DEF FusionSends
<1>10. FusionSends'
  BY <1>2, <1>3, <1>9, SendTypes DEF FusionSends
<1>11. FusionStages'
  BY <1>3 DEF FusionStages, Dispatched
<1>12. SendsOnce'
  BY <1>3 DEF SendsOnce
<1>13. \A d \in sending : d.message = m => d.thread = t /\ t \notin Shared /\ m \in again
  BY <1>1, <1>5, ConcernsSend, SendTypes DEF SharedSends, NativeSends
<1>14. SharedSends'
  BY <1>2, <1>3, <1>13, SendTypes DEF SharedSends
<1>15. NativeSends'
  BY <1>2, <1>3, SendTypes DEF NativeSends
<1>16. SentIsHeld'
  <2>1. \A u \in Threads : Queued(u)' \subseteq Queued(u) \ {m}
    BY <1>2, <1>5 DEF Concerns
  <2>2. QED BY <1>2, <1>3, <2>1, QueuedMessages DEF SentIsHeld
<1>17. NothingIsSentTwice' /\ InFlightIsBacked'
  BY <1>3 DEF NothingIsSentTwice, InFlightIsBacked, Dispatched, UnderWay
<1>18. RemovedStaysRemoved'
  <2>1. m \in Dispatched => m \in again
    BY <1>9, <1>13 DEF Dispatched
  <2>2. \A u \in Threads : m \notin Queued(u)'
    BY <1>2, <1>5 DEF Concerns
  <2>3. QED BY <1>1, <1>2, <1>3, <2>1, <2>2 DEF RemovedStaysRemoved, Dispatched
<1>19. NothingIsLost'
  BY <1>1, <1>2, <1>3 DEF NothingIsLost, Dispatched
<1>20. QED
  BY <1>4, <1>7, <1>8, <1>10, <1>11, <1>12, <1>14, <1>15, <1>16, <1>17, <1>18, <1>19

LEMMA abandonQueuedMessageKeeps ==
  ASSUME IInv, NEW m \in Message, abandonQueuedMessage(m)
  PROVE  IInv'
<1> USE DEF IInv
<1> DEFINE t == active
<1>1. /\ t \in Threads /\ m \in Queued(t) /\ m \in pendingAck
      /\ fusion[t] # NoFusion => fusion[t].message # m
      /\ abandoned' = abandoned \cup {m}
  BY DEF abandonQueuedMessage, TypeOK
<1>2. /\ queue' \in [Threads -> Seq(Message)]
      /\ \A u \in Threads : Queued(u)' = IF u = t THEN Queued(u) \ {m} ELSE Queued(u)
      /\ gate' \in [Message -> {NoGate} \cup 0 .. Never]
      /\ \A x \in Message \ {m} : gate'[x] = gate[x]
      /\ revGate' \subseteq Message
  BY <1>1, ForgetIs DEF abandonQueuedMessage
<1>3. /\ UNCHANGED <<made, pendingAck, sending, fusing, fallback, sent, again, fusion,
                    removed, completed, since, started, busy, pulse, active>>
      /\ due' \in BOOLEAN
  BY DEF abandonQueuedMessage, engine, sends, Event
<1>4. /\ inFlight' \in [Threads -> Message \cup {None}]
      /\ \A u \in Threads : inFlight'[u] \in {inFlight[u], None}
  BY DEF abandonQueuedMessage, TypeOK
<1>5. TypeOK'
  BY <1>1, <1>2, <1>3, <1>4 DEF TypeOK
<1>6. Concerns(t, m) /\ \A u \in Threads : Concerns(u, m) => u = t
  BY <1>1 DEF Concerns, Home
<1>7. \A u \in Threads : \A x \in Message : Concerns(u, x)' => Concerns(u, x)
  BY <1>2, <1>3, <1>4, Constants DEF Concerns, UnderWay
<1>8. Home'
  BY <1>7 DEF Home
<1>9. Known'
  <2>1. m \in 1 .. made
    BY <1>1, <1>6 DEF Known, Message
  <2>2. QED BY <1>1, <1>3, <1>7, <2>1 DEF Known
<1>10. \A e \in fusing : e.message # m
  BY <1>1, <1>6, ConcernsSend, SendTypes DEF FusionSends
<1>11. FusionSends'
  BY <1>2, <1>3, <1>10, SendTypes DEF FusionSends
<1>12. FusionStages' /\ SendsOnce'
  BY <1>3 DEF FusionStages, Dispatched, SendsOnce
<1>13. SharedSends'
  <2>1. \A d \in sending : d.thread \in Threads /\ d.message \in Message
    BY SendTypes
  <2>2. \A d \in sending : d.thread \in Shared =>
          /\ d.message \in Queued(d.thread)' \cup abandoned' \cup sent
          /\ \A e \in fusing : e.message # d.message
    BY <1>1, <1>2, <2>1 DEF SharedSends
  <2>3. QED BY <1>3, <2>2 DEF SharedSends
<1>14. NativeSends'
  BY <1>2, <1>3, SendTypes DEF NativeSends
<1>15. SentIsHeld'
  <2>1. \A u \in Threads : Queued(u)' \subseteq Queued(u) \ {m}
    BY <1>2, <1>6 DEF Concerns
  <2>2. QED BY <1>2, <1>3, <2>1, QueuedMessages DEF SentIsHeld
<1>16. NothingIsSentTwice'
  BY <1>3 DEF NothingIsSentTwice, Dispatched
<1>17. InFlightIsBacked'
  BY <1>3, <1>4 DEF InFlightIsBacked, UnderWay
<1>18. RemovedStaysRemoved'
  BY <1>2, <1>3 DEF RemovedStaysRemoved, Dispatched
<1>19. NothingIsLost'
  BY <1>1, <1>2, <1>3 DEF NothingIsLost, Dispatched
<1>20. QED
  BY <1>5, <1>8, <1>9, <1>11, <1>12, <1>13, <1>14, <1>15, <1>16, <1>17, <1>18, <1>19

\* A fusion is taken off the thread, or made, or changes its stage.
LEMMA FusionTimesOutKeeps ==
  ASSUME IInv, FusionTimesOut
  PROVE  IInv'
<1> USE DEF IInv
<1> DEFINE t == active
           m == fusion[t].message
<1>1. /\ t \in Threads /\ fusion[t] # NoFusion /\ m \in Message
      /\ fusion[t].stage \in {"awaiting-predecessor-settlement", "awaiting-continuation"}
      /\ fusion' = [fusion EXCEPT ![t] = NoFusion]
      /\ gate' = [gate EXCEPT ![m] = Never]
  BY FusionTypes DEF FusionTimesOut, TypeOK
<1>2. /\ UNCHANGED <<queue, pendingAck, sending, fusing, fallback, sent, removed, again,
                    abandoned, made, completed, inFlight, since, started, busy,
                    pulse, revGate, active>>
      /\ due' \in BOOLEAN
  BY DEF FusionTimesOut, user, flight, engine, sends, Event
<1>3. /\ fusion'[t] = NoFusion
      /\ \A u \in Threads \ {t} : fusion'[u] = fusion[u]
      /\ gate'[m] = Never
      /\ \A x \in Message \ {m} : gate'[x] = gate[x]
  BY <1>1 DEF TypeOK
<1> HIDE DEF m
<1>4. TypeOK'
  BY <1>1, <1>2, Constants DEF TypeOK
<1>5. \A u : Queued(u)' = Queued(u)
  BY <1>2, QueuedSame
<1>6. \A u \in Threads : \A x \in Message : Concerns(u, x)' => Concerns(u, x)
  BY <1>2, <1>3, <1>5 DEF Concerns, UnderWay
<1>7. Home'
  BY <1>6 DEF Home
<1>8. Known'
  BY <1>2, <1>6 DEF Known
<1>9. FusionSends'
  BY <1>1, <1>2, <1>3, <1>5, SendTypes DEF FusionSends
<1>10. FusionStages'
  BY <1>2, <1>3 DEF FusionStages, Dispatched
<1>11. SendsOnce' /\ SharedSends' /\ NativeSends'
  BY <1>2, <1>5 DEF SendsOnce, SharedSends, NativeSends
<1>12. SentIsHeld'
  BY <1>1, <1>2, <1>3, <1>5, QueuedMessages DEF SentIsHeld, m
<1>13. NothingIsSentTwice' /\ RemovedStaysRemoved' /\ InFlightIsBacked' /\ NothingIsLost'
  BY <1>2, <1>5
     DEF NothingIsSentTwice, RemovedStaysRemoved, InFlightIsBacked, NothingIsLost,
         Dispatched, UnderWay
<1>14. QED
  BY <1>4, <1>7, <1>8, <1>9, <1>10, <1>11, <1>12, <1>13

LEMMA ContinuesKeeps ==
  ASSUME IInv, Continues
  PROVE  IInv'
<1> USE DEF IInv
<1> DEFINE t == active
           m == fusion[t].message
<1>1. /\ t \in Threads /\ fusion[t] # NoFusion /\ m \in Message
      /\ fusion[t].stage = "awaiting-continuation"
      /\ fusion' = [fusion EXCEPT ![t] = NoFusion]
      /\ Forget(t, m)
  BY FusionTypes DEF Continues, ContinuationDue, TypeOK
<1>2. /\ UNCHANGED <<pendingAck, sending, fusing, fallback, sent, removed, again,
                    abandoned, made, completed, inFlight, since, started, busy,
                    pulse, active, due>>
  BY DEF Continues, user, flight, engine, sends
<1>3. /\ fusion'[t] = NoFusion
      /\ \A u \in Threads \ {t} : fusion'[u] = fusion[u]
  BY <1>1 DEF TypeOK
<1> HIDE DEF m
<1>4. /\ queue' \in [Threads -> Seq(Message)]
      /\ \A u \in Threads : Queued(u)' = IF u = t THEN Queued(u) \ {m} ELSE Queued(u)
      /\ gate' \in [Message -> {NoGate} \cup 0 .. Never]
      /\ \A x \in Message \ {m} : gate'[x] = gate[x]
      /\ revGate' \subseteq Message
  BY <1>1, ForgetIs
<1>5. TypeOK'
  BY <1>1, <1>2, <1>4 DEF TypeOK
<1>6. /\ m \in sent
      /\ Concerns(t, m) /\ \A u \in Threads : Concerns(u, m) => u = t
  BY <1>1 DEF FusionStages, Concerns, Home, m
<1>7. \A u \in Threads : \A x \in Message : Concerns(u, x)' => Concerns(u, x)
  BY <1>2, <1>3, <1>4 DEF Concerns, UnderWay
<1>8. Home'
  BY <1>7 DEF Home
<1>9. Known'
  BY <1>2, <1>7 DEF Known
<1>10. FusionSends'
  BY <1>1, <1>2, <1>3, <1>4, <1>6, SendTypes DEF FusionSends
<1>11. FusionStages'
  BY <1>2, <1>3 DEF FusionStages, Dispatched
<1>12. SendsOnce' /\ NativeSends'
  BY <1>2, <1>4, SendTypes DEF SendsOnce, NativeSends
<1>13. SharedSends'
  BY <1>2, <1>4, <1>6, SendTypes DEF SharedSends
<1>14. SentIsHeld'
  <2>1. \A u \in Threads : Queued(u)' \subseteq Queued(u) \ {m}
    BY <1>4, <1>6 DEF Concerns
  <2>2. \A u \in Threads : u = t => fusion[u].message = m
    BY DEF m
  <2>3. QED BY <1>1, <1>2, <1>3, <1>4, <2>1, <2>2, QueuedMessages DEF SentIsHeld
<1>15. NothingIsSentTwice' /\ InFlightIsBacked'
  BY <1>2 DEF NothingIsSentTwice, InFlightIsBacked, Dispatched, UnderWay
<1>16. RemovedStaysRemoved'
  BY <1>2, <1>4 DEF RemovedStaysRemoved, Dispatched
<1>17. NothingIsLost'
  <2>1. \A u \in Threads : \A x \in Queued(u) : x \in Queued(u)' \/ x \in sent
    BY <1>4, <1>6
  <2>2. QED BY <1>2, <2>1 DEF NothingIsLost, Dispatched
<1>18. QED
  BY <1>5, <1>8, <1>9, <1>10, <1>11, <1>12, <1>13, <1>14, <1>15, <1>16, <1>17

LEMMA FusionFailsKeeps ==
  ASSUME IInv, NEW d \in fusing, NEW blocked \in BOOLEAN, FusionFails(d, blocked)
  PROVE  IInv'
<1> USE DEF IInv
<1> DEFINE t == d.thread
           m == d.message
<1>1. /\ t \in Threads /\ m \in Message /\ d.pulse \in 0 .. MaxTurns
      /\ fusing' = fusing \ {d}
      /\ pendingAck' = IF blocked THEN pendingAck \ {m} ELSE pendingAck
      /\ revGate' = IF blocked THEN revGate \cup {m} ELSE revGate
      /\ gate' = [gate EXCEPT ![m] = d.pulse]
      /\ fusion' = [fusion EXCEPT ![t] = NoFusion]
  BY SendTypes DEF FusionFails
<1>2. /\ UNCHANGED <<queue, sending, fallback, sent, removed, again,
                    abandoned, made, completed, inFlight, since, started, busy,
                    pulse, active>>
      /\ due' \in BOOLEAN
  BY DEF FusionFails, user, flight, engine, Event
<1>3. /\ fusion[t] # NoFusion /\ fusion[t].stage = "dispatching"
      /\ fusion[t].message = m
      /\ m \in Queued(t) \cup sent
      /\ \A e \in fusing : e.thread = t => e = d
  BY <1>1 DEF FusionSends
<1>4. /\ fusion'[t] = NoFusion
      /\ \A u \in Threads \ {t} : fusion'[u] = fusion[u]
      /\ \A x \in Message \ {m} : gate'[x] = gate[x]
      /\ gate' \in [Message -> {NoGate} \cup 0 .. Never]
  BY <1>1, Constants DEF TypeOK
<1>5. TypeOK'
  BY <1>1, <1>2, <1>4 DEF TypeOK
<1>6. \A u : Queued(u)' = Queued(u)
  BY <1>2, QueuedSame
<1>7. Concerns(t, m) /\ \A u \in Threads : Concerns(u, m) => u = t
  BY <1>1, <1>3 DEF Concerns, Home
<1>8. \A u \in Threads : \A x \in Message : Concerns(u, x)' => Concerns(u, x)
  BY <1>1, <1>2, <1>4, <1>6 DEF Concerns, UnderWay
<1>9. Home'
  BY <1>8 DEF Home
<1>10. Known'
  BY <1>1, <1>2, <1>8 DEF Known
<1>11. \A e \in fusing' : e \in fusing /\ e.thread \in Threads /\ e.thread # t
                          /\ e.message # m
  BY <1>1, <1>3, <1>7, ConcernsSend, SendTypes
<1>12. FusionSends'
  BY <1>2, <1>4, <1>6, <1>11 DEF FusionSends
<1>13. FusionStages'
  BY <1>1, <1>2, <1>4 DEF FusionStages, Dispatched
<1>14. SendsOnce' /\ NativeSends'
  BY <1>2, <1>6, SendTypes DEF SendsOnce, NativeSends
<1>15. SharedSends'
  <2>1. blocked => t \in Shared
    BY DEF FusionFails
  <2>2. ASSUME NEW e \in sending, e.thread \in Shared
        PROVE  e.message # m
    BY <2>2 DEF SharedSends
  <2>3. \A e \in sending \cup fusing' : e.thread \in Shared => e.message \in pendingAck'
    BY <1>1, <1>11, <2>2 DEF SharedSends
  <2>4. QED BY <1>2, <1>6, <1>11, <2>3 DEF SharedSends
<1>16. m \in sent => m \in again
  BY DEF NothingIsSentTwice, Dispatched
<1>17. SentIsHeld'
  <2>1. ASSUME NEW u \in Threads, NEW x \in Queued(u), x \in sent, x \notin again
        PROVE  /\ gate'[x] = gate[x] /\ u \notin Shared
               /\ \/ /\ fusion'[u] # NoFusion
                     /\ fusion'[u].message = x /\ fusion'[u].stage = "awaiting-continuation"
                  \/ gate[x] = Never
    BY <1>3, <1>4, <1>16, <2>1, QueuedMessages DEF SentIsHeld
  <2>2. QED BY <1>2, <1>6, <2>1 DEF SentIsHeld
<1>18. NothingIsSentTwice'
  BY <1>2, <1>11 DEF NothingIsSentTwice, Dispatched
<1>19. RemovedStaysRemoved' /\ InFlightIsBacked'
  BY <1>2, <1>6, <1>11 DEF RemovedStaysRemoved, InFlightIsBacked, Dispatched, UnderWay
<1>20. NothingIsLost'
  <2>1. ASSUME NEW x \in 1 .. made, x \in Dispatched
        PROVE  (\E u \in Threads : x \in Queued(u)) \/ x \in Dispatched' \cup sent
    BY <1>1, <1>2, <1>3, <2>1 DEF Dispatched
  <2>2. QED BY <1>2, <1>6, <2>1 DEF NothingIsLost
<1>21. QED
  BY <1>5, <1>9, <1>10, <1>12, <1>13, <1>14, <1>15, <1>17, <1>18, <1>19, <1>20

\* A fusion is sent: by the user's click into a running turn, or once the turn that
\* it replaces has ended.
LEMMA DispatchIs ==
  ASSUME TypeOK, NEW t \in Threads, NEW m \in Message, NEW f \in Fusion,
         f.message = m, dispatchFusionSuccessor(t, m, f)
  PROVE  /\ m \in Queued(t)
         /\ fusing' = fusing \cup {Send(t, m)}
         /\ pendingAck' = IF t \in Shared THEN pendingAck \cup {m} ELSE pendingAck
         /\ fusion' \in [Threads -> Fusion \cup {NoFusion}]
         /\ \A u \in Threads \ {t} : fusion'[u] = fusion[u]
         /\ fusion'[t] # NoFusion /\ fusion'[t].message = m
         /\ fusion'[t].stage = "dispatching"
<1> DEFINE g == [f EXCEPT !.stage = "dispatching", !.turn = TurnOf(t), !.continued = FALSE]
<1>1. TurnOf(t) \in 0 .. MaxTurns
  BY Constants DEF TypeOK, TurnOf
<1>2. g \in Fusion /\ g.message = m /\ g.stage = "dispatching"
  BY <1>1 DEF Fusion
<1>3. fusion' = [fusion EXCEPT ![t] = g]
  BY DEF dispatchFusionSuccessor
<1> HIDE DEF g
<1>4. g # NoFusion
  BY <1>2, FusionTypes
<1>5. QED BY <1>2, <1>3, <1>4 DEF TypeOK, dispatchFusionSuccessor

\* What a send of a fusion needs, and what it keeps.
LEMMA DispatchKeeps ==
  ASSUME IInv, NEW t \in Threads, NEW m \in Message, NEW f \in Fusion,
         f.message = m, dispatchFusionSuccessor(t, m, f),
         fusion[t] # NoFusion =>
           fusion[t].message = m /\ fusion[t].stage = "awaiting-predecessor-settlement",
         inFlight[t] = None \/ fusion[t] # NoFusion,
         m \in Dispatched => m \in again,
         m \notin pendingAck,
         sent' \in {sent, sent \ {m}}, m \in sent' => m \in again,
         UNCHANGED <<queue, sending, fallback, removed, again, abandoned, made, gate,
                     completed, inFlight, since, started, busy, pulse, revGate, active>>,
         due' \in BOOLEAN
  PROVE  IInv'
<1> USE DEF IInv
<1> DEFINE s == Send(t, m)
<1>1. /\ m \in Queued(t)
      /\ fusing' = fusing \cup {s}
      /\ pendingAck' = IF t \in Shared THEN pendingAck \cup {m} ELSE pendingAck
      /\ fusion' \in [Threads -> Fusion \cup {NoFusion}]
      /\ \A u \in Threads \ {t} : fusion'[u] = fusion[u]
      /\ fusion'[t] # NoFusion /\ fusion'[t].message = m
      /\ fusion'[t].stage = "dispatching"
  BY DispatchIs
<1>2. s \in SendRecord /\ s.thread = t /\ s.message = m
  BY SendTypes
<1> HIDE DEF s
<1>3. TypeOK'
  BY <1>1, <1>2 DEF TypeOK, SendRecord
<1>4. \A u : Queued(u)' = Queued(u)
  BY QueuedSame
<1>5. Concerns(t, m) /\ \A u \in Threads : Concerns(u, m) => u = t
  BY <1>1 DEF Concerns, Home
<1>6. \A u \in Threads : \A x \in Message : Concerns(u, x)' => Concerns(u, x)
  BY <1>1, <1>2, <1>4, <1>5 DEF Concerns, UnderWay
<1>7. Home'
  BY <1>6 DEF Home
<1>8. m \in 1 .. made
  BY <1>5 DEF Known, Message
<1>9. Known'
  BY <1>1, <1>6, <1>8 DEF Known
<1>10. \A e \in fusing : e.thread \in Threads \ {t} /\ e.message \in Message \ {m}
  BY <1>5, ConcernsSend, SendTypes DEF FusionSends
<1>11. FusionSends'
  <2>1. \A e \in fusing : e.message \in Queued(e.thread) \cup sent'
    BY <1>10 DEF FusionSends
  <2>2. \A e \in fusing' : e \in fusing \/ e = s
    BY <1>1
  <2>3. \A e \in fusing :
          /\ fusion'[e.thread] # NoFusion
          /\ fusion'[e.thread].stage = "dispatching"
          /\ fusion'[e.thread].message = e.message
    BY <1>1, <1>10 DEF FusionSends
  <2>4. \A d, e \in fusing' : d.thread = e.thread => d = e
    BY <1>2, <1>10, <2>2 DEF FusionSends
  <2>5. \A e \in fusing' : e.message \in Queued(e.thread)' \cup sent'
    BY <1>1, <1>2, <1>4, <2>1, <2>2
  <2>6. QED BY <1>1, <1>2, <2>2, <2>3, <2>4, <2>5 DEF FusionSends
<1>12. FusionStages'
  <2>1. ASSUME NEW u \in Threads \ {t}, fusion[u] # NoFusion
        PROVE  fusion[u].message # m
    BY <1>5, <2>1 DEF Concerns
  <2>2. ASSUME NEW u \in Threads \ {t}, fusion[u] # NoFusion
        PROVE  LET x == fusion[u].message IN
               /\ x \in pendingAck' => x \in pendingAck
               /\ x \in Dispatched' => x \in Dispatched
               /\ x \in sent' <=> x \in sent
    BY <1>1, <1>2, <2>1, <2>2 DEF Dispatched
  <2>3. QED BY <1>1, <2>2 DEF FusionStages
<1>13. SendsOnce' /\ NativeSends'
  BY <1>4, SendTypes DEF SendsOnce, NativeSends
<1>14. \A e \in sending : e.message = m => e.thread \notin Shared
  BY DEF SharedSends
<1>15. SharedSends'
  <2>1. \A e \in fusing' : e \in fusing \/ e = s
    BY <1>1
  <2>2. \A e \in sending : e.thread \in Shared =>
          e.message \in Queued(e.thread)' \cup abandoned \cup sent'
    BY <1>4, <1>14 DEF SharedSends
  <2>3. \A d \in sending : d.thread \in Shared => \A e \in fusing' : e.message # d.message
    BY <1>2, <1>14, <2>1 DEF SharedSends
  <2>4. \A d \in sending \cup fusing' : d.thread \in Shared => d.message \in pendingAck'
    BY <1>1, <1>2, <2>1 DEF SharedSends
  <2>5. QED BY <2>2, <2>3, <2>4 DEF SharedSends
<1>16. SentIsHeld'
  <2>1. ASSUME NEW u \in Threads, NEW x \in Queued(u), x \in sent', x \notin again
        PROVE  /\ x # m /\ x \in sent
               /\ fusion'[u] # fusion[u] => u = t
               /\ u = t /\ fusion[t] # NoFusion => fusion[t].message # x
    BY <1>1, <2>1
  <2>2. QED BY <1>4, <1>1, <2>1 DEF SentIsHeld
<1>17. NothingIsSentTwice'
  <2>1. \A e \in fusing' : e \in fusing \/ e = s
    BY <1>1
  <2>2. \A x \in Dispatched' : x \in Dispatched \/ x = m
    BY <1>2, <2>1 DEF Dispatched
  <2>3. \A d \in sending : d.message = m => m \in again
    BY DEF Dispatched
  <2>4. QED BY <1>2, <2>1, <2>2, <2>3 DEF NothingIsSentTwice
<1>18. RemovedStaysRemoved'
  BY <1>1, <1>2, <1>4 DEF RemovedStaysRemoved, Dispatched
<1>19. InFlightIsBacked'
  BY DEF InFlightIsBacked, UnderWay
<1>20. NothingIsLost'
  <2>1. Dispatched \subseteq Dispatched'
    BY <1>1 DEF Dispatched
  <2>2. QED BY <1>1, <1>4, <2>1 DEF NothingIsLost
<1>21. QED
  BY <1>3, <1>7, <1>9, <1>11, <1>12, <1>13, <1>15, <1>16, <1>17, <1>18, <1>19, <1>20

LEMMA SucceedsKeeps ==
  ASSUME IInv, Succeeds
  PROVE  IInv'
<1> DEFINE t == active
           f == fusion[t]
           m == f.message
<1>1. /\ t \in Threads /\ f # NoFusion /\ f \in Fusion /\ m \in Message
      /\ f.stage = "awaiting-predecessor-settlement"
      /\ dispatchFusionSuccessor(t, m, f)
  BY FusionTypes DEF Succeeds, SuccessorDue, IInv, TypeOK
<1>2. m \notin pendingAck /\ (m \in Dispatched \cup sent => m \in again)
  BY <1>1 DEF IInv, FusionStages
<1>3. /\ UNCHANGED <<queue, sending, fallback, removed, again, abandoned, made, gate, sent,
                     completed, inFlight, since, started, busy, pulse, revGate, active, due>>
      /\ due \in BOOLEAN
  BY DEF Succeeds, user, flight, engine, gates, IInv, TypeOK
<1> HIDE DEF f, m
<1>4. QED BY <1>1, <1>2, <1>3, DispatchKeeps DEF f, m

LEMMA fuseQueuedMessageKeeps ==
  ASSUME IInv, NEW m \in Message, fuseQueuedMessage(m)
  PROVE  IInv'
<1> USE DEF IInv
<1> DEFINE t == active
           mode == IF t \in SameRun THEN "same-run" ELSE "cutover"
           f == [message |-> m, mode |-> mode, turn |-> TurnOf(t), continued |-> FALSE,
                 stage |-> "awaiting-predecessor-settlement"]
<1>1. /\ t \in Threads /\ fusion[t] = NoFusion /\ inFlight[t] = None
      /\ m \in Queued(t) /\ m \notin pendingAck
      /\ sent' = sent \ {m}
      /\ \/ dispatchFusionSuccessor(t, m, f)
         \/ fusion' = [fusion EXCEPT ![t] = f] /\ UNCHANGED <<fusing, pendingAck>>
  BY DEF fuseQueuedMessage, TypeOK
<1>2. /\ UNCHANGED <<queue, sending, fallback, removed, again, abandoned, made, gate,
                     completed, inFlight, since, started, busy, pulse, revGate, active>>
      /\ due' \in BOOLEAN
  BY DEF fuseQueuedMessage, user, flight, engine, gates, Event
<1>3. TurnOf(t) \in 0 .. MaxTurns
  BY Constants DEF TypeOK, TurnOf
<1>4. f \in Fusion /\ f.message = m /\ f.stage = "awaiting-predecessor-settlement"
  BY <1>3 DEF Fusion
<1> HIDE DEF f
<1>5. f # NoFusion
  BY <1>4, FusionTypes
<1>6. Concerns(t, m) /\ \A u \in Threads : Concerns(u, m) => u = t
  BY <1>1 DEF Concerns, Home
<1>7. \A e \in fusing : e.thread \in Threads \ {t} /\ e.message \in Message \ {m}
  BY <1>1, <1>6, ConcernsSend, SendTypes DEF FusionSends
<1>8. m \in Dispatched => m \in again
  BY <1>1, <1>6, <1>7, ConcernsSend, SendTypes DEF Dispatched, SharedSends, NativeSends
<1>9. CASE dispatchFusionSuccessor(t, m, f)
  BY <1>1, <1>2, <1>4, <1>8, <1>9, DispatchKeeps
<1>10. CASE fusion' = [fusion EXCEPT ![t] = f] /\ UNCHANGED <<fusing, pendingAck>>
  <2>1. /\ fusion'[t] = f /\ \A u \in Threads \ {t} : fusion'[u] = fusion[u]
        /\ fusion' \in [Threads -> Fusion \cup {NoFusion}]
    BY <1>1, <1>4, <1>10 DEF TypeOK
  <2>2. TypeOK'
    BY <1>1, <1>2, <1>10, <2>1 DEF TypeOK
  <2>3. \A u : Queued(u)' = Queued(u)
    BY <1>2, QueuedSame
  <2>4. \A u \in Threads : \A x \in Message : Concerns(u, x)' => Concerns(u, x)
    BY <1>2, <1>4, <1>6, <1>10, <2>1, <2>3 DEF Concerns, UnderWay
  <2>5. Home'
    BY <2>4 DEF Home
  <2>6. Known'
    BY <1>1, <1>2, <1>10, <2>4 DEF Known
  <2>7. FusionSends'
    BY <1>1, <1>7, <1>10, <2>1, <2>3 DEF FusionSends
  <2>8. FusionStages'
    <3>1. ASSUME NEW u \in Threads \ {t}, fusion[u] # NoFusion
          PROVE  fusion[u].message # m
      BY <1>6, <3>1 DEF Concerns
    <3>2. Dispatched' = Dispatched
      BY <1>2, <1>10 DEF Dispatched
    <3>3. QED BY <1>1, <1>2, <1>4, <1>8, <1>10, <2>1, <3>1, <3>2 DEF FusionStages
  <2>9. SendsOnce' /\ NativeSends'
    BY <1>2, <2>3, SendTypes DEF SendsOnce, NativeSends
  <2>10. SharedSends'
    BY <1>1, <1>2, <1>10, <2>3, SendTypes DEF SharedSends
  <2>11. SentIsHeld'
    BY <1>1, <1>2, <2>1, <2>3 DEF SentIsHeld
  <2>12. NothingIsSentTwice' /\ RemovedStaysRemoved' /\ InFlightIsBacked'
    BY <1>1, <1>2, <1>10, <2>3
       DEF NothingIsSentTwice, RemovedStaysRemoved, InFlightIsBacked, Dispatched, UnderWay
  <2>13. NothingIsLost'
    BY <1>1, <1>2, <1>10, <2>3 DEF NothingIsLost, Dispatched
  <2>14. QED BY <2>2, <2>5, <2>6, <2>7, <2>8, <2>9, <2>10, <2>11, <2>12, <2>13
<1>11. QED BY <1>1, <1>9, <1>10

LEMMA FusionAcceptedKeeps ==
  ASSUME IInv, NEW d \in fusing, FusionAccepted(d)
  PROVE  IInv'
<1> USE DEF IInv
<1> DEFINE t == d.thread
           m == d.message
<1>1. /\ t \in Threads /\ m \in Message
      /\ fusing' = fusing \ {d}
      /\ sent' = sent \cup {m}
  BY SendTypes DEF FusionAccepted
<1>2. /\ UNCHANGED <<pendingAck, sending, fallback, removed, again,
                    abandoned, made, completed, inFlight, since, started, busy,
                    pulse, active>>
      /\ due' \in BOOLEAN
  BY DEF FusionAccepted, user, flight, engine, Event
<1>3. /\ fusion[t] # NoFusion /\ fusion[t] \in Fusion
      /\ fusion[t].stage = "dispatching" /\ fusion[t].message = m
      /\ \A e \in fusing : e.thread = t => e = d
  BY <1>1, FusionTypes DEF FusionSends, TypeOK
<1>4. /\ queue' \in [Threads -> Seq(Message)]
      /\ \A u \in Threads :
           Queued(u)' = IF u = t /\ t \in Shared THEN Queued(u) \ {m} ELSE Queued(u)
      /\ gate' \in [Message -> {NoGate} \cup 0 .. Never]
      /\ \A x \in Message \ {m} : gate'[x] = gate[x]
      /\ revGate' \subseteq Message
  <2>1. CASE t \in Shared
    <3>1. Forget(t, m)
      BY <2>1 DEF FusionAccepted
    <3>2. QED BY <1>1, <2>1, <3>1, ForgetIs
  <2>2. CASE t \notin Shared
    <3>1. UNCHANGED <<queue, gate, revGate>>
      BY <2>2 DEF FusionAccepted
    <3>2. QED BY <2>2, <3>1, QueuedSame DEF TypeOK
  <2>3. QED BY <2>1, <2>2
<1>5. /\ fusion' \in [Threads -> Fusion \cup {NoFusion}]
      /\ \A u \in Threads \ {t} : fusion'[u] = fusion[u]
      /\ t \in Shared => fusion'[t] = NoFusion
      /\ t \notin Shared =>
           /\ fusion'[t] # NoFusion /\ fusion'[t].message = m
           /\ fusion'[t].stage = "awaiting-continuation"
  <2>1. CASE t \in Shared
    BY <1>1, <2>1 DEF FusionAccepted, TypeOK
  <2>2. CASE t \notin Shared
    <3> DEFINE g == [fusion[t] EXCEPT !.stage = "awaiting-continuation"]
    <3>1. g \in Fusion /\ g.message = m /\ g.stage = "awaiting-continuation"
      BY <1>3 DEF Fusion
    <3>2. fusion' = [fusion EXCEPT ![t] = g]
      BY <1>3, <2>2 DEF FusionAccepted
    <3> HIDE DEF g
    <3>3. g # NoFusion
      BY <3>1, FusionTypes
    <3>4. QED BY <1>1, <2>2, <3>1, <3>2, <3>3 DEF TypeOK
  <2>3. QED BY <2>1, <2>2
<1>6. TypeOK'
  BY <1>1, <1>2, <1>4, <1>5 DEF TypeOK
<1>7. Concerns(t, m) /\ \A u \in Threads : Concerns(u, m) => u = t
  BY <1>1, <1>3 DEF Concerns, Home
<1>8. \A u \in Threads : \A x \in Message : Concerns(u, x)' => Concerns(u, x)
  BY <1>1, <1>2, <1>3, <1>4, <1>5 DEF Concerns, UnderWay
<1>9. Home'
  BY <1>8 DEF Home
<1>10. Known'
  <2>1. m \in 1 .. made
    BY <1>1, <1>7 DEF Known, Message
  <2>2. QED BY <1>1, <1>2, <1>8, <2>1 DEF Known
<1>11. \A e \in fusing' : e \in fusing /\ e.thread \in Threads /\ e.thread # t
                          /\ e.message # m
  BY <1>1, <1>3, <1>7, ConcernsSend, SendTypes
<1>12. \A e \in sending : e.message = m => m \in again
  BY DEF NothingIsSentTwice
<1>13. FusionSends'
  BY <1>1, <1>2, <1>4, <1>5, <1>11 DEF FusionSends
<1>14. FusionStages'
  <2>1. ASSUME NEW u \in Threads \ {t}, fusion[u] # NoFusion
        PROVE  fusion[u].message # m
    BY <1>7, <2>1 DEF Concerns
  <2>2. Dispatched' \subseteq Dispatched
    BY <1>1, <1>2 DEF Dispatched
  <2>3. QED BY <1>1, <1>2, <1>5, <2>1, <2>2 DEF FusionStages
<1>15. SendsOnce' /\ NativeSends'
  BY <1>2, <1>4, SendTypes DEF SendsOnce, NativeSends
<1>16. SharedSends'
  <2>1. \A e \in sending : e.thread \in Shared =>
          e.message \in Queued(e.thread)' \cup abandoned \cup sent'
    BY <1>1, <1>4, SendTypes DEF SharedSends
  <2>2. QED BY <1>2, <1>11, <2>1 DEF SharedSends
<1>17. SentIsHeld'
  <2>1. ASSUME NEW u \in Threads, NEW x \in Queued(u)', x \in sent \cup {m}, x \notin again
        PROVE  /\ u \notin Shared
               /\ \/ /\ fusion'[u] # NoFusion
                     /\ fusion'[u].message = x /\ fusion'[u].stage = "awaiting-continuation"
                  \/ gate'[x] = Never
    <3>1. x \in Queued(u) /\ x \in Message
      BY <1>4, QueuedMessages
    <3>2. CASE x = m
      <4>1. u = t
        BY <1>7, <3>1, <3>2 DEF Concerns
      <4>2. QED BY <1>4, <1>5, <3>2, <4>1
    <3>3. CASE x # m
      BY <1>3, <1>4, <1>5, <2>1, <3>1, <3>3 DEF SentIsHeld
    <3>4. QED BY <3>2, <3>3
  <2>2. QED BY <1>1, <1>2, <2>1 DEF SentIsHeld
<1>18. NothingIsSentTwice'
  BY <1>1, <1>2, <1>11, <1>12 DEF NothingIsSentTwice, Dispatched
<1>19. RemovedStaysRemoved' /\ InFlightIsBacked'
  BY <1>2, <1>4, <1>11 DEF RemovedStaysRemoved, InFlightIsBacked, Dispatched, UnderWay
<1>20. NothingIsLost'
  <2>1. Dispatched \subseteq Dispatched' \cup sent'
    BY <1>1, <1>2 DEF Dispatched
  <2>2. \A u \in Threads : Queued(u) \subseteq Queued(u)' \cup sent'
    BY <1>1, <1>4
  <2>3. QED BY <1>1, <1>2, <2>1, <2>2 DEF NothingIsLost
<1>21. QED
  BY <1>6, <1>9, <1>10, <1>13, <1>14, <1>15, <1>16, <1>17, <1>18, <1>19, <1>20

LEMMA DrainEffectKeeps ==
  ASSUME IInv, DrainEffect
  PROVE  IInv'
<1> USE DEF IInv
<1>1. PICK t \in Threads : DrainThread(t)
  BY DEF DrainEffect
<1> DEFINE m == Head(queue[t])
           s == Send(t, m)
<1>2. /\ ~busy[t] /\ fusion[t] = NoFusion /\ inFlight[t] = None
      /\ m \in Queued(t) /\ m \in Message
      /\ m \notin pendingAck /\ m \notin completed /\ ~UnderWay(t, m, sending)
      /\ t \notin Shared => ~(gate[m] >= pulse[t])
  BY <1>1, HeadQueued DEF DrainThread, Drainable, Held, HeadHeld
<1>3. /\ queue' = IF t \in Shared THEN queue ELSE [queue EXCEPT ![t] = Without(t, m)]
      /\ pendingAck' = IF t \in Shared THEN pendingAck \cup {m} ELSE pendingAck
      /\ inFlight' = [inFlight EXCEPT ![t] = m]
      /\ started' = [started EXCEPT ![t] = FALSE]
      /\ since' = [since EXCEPT ![t] = FALSE]
      /\ sending' = sending \cup {s}
  BY <1>1 DEF DrainThread
<1>4. s \in SendRecord /\ s.thread = t /\ s.message = m
  BY <1>2, SendTypes
<1>5. UNCHANGED <<fusing, fallback, sent, removed, again, abandoned, made, completed,
                  fusion, gate, revGate, busy, pulse, active, due>>
  BY <1>1 DEF DrainThread, user, engine, gates
<1> HIDE DEF m, s
<1>6. /\ queue' \in [Threads -> Seq(Message)]
      /\ \A u \in Threads :
           Queued(u)' = IF u = t /\ t \notin Shared THEN Queued(u) \ {m} ELSE Queued(u)
  <2>1. CASE t \in Shared
    BY <1>3, <2>1, QueuedSame DEF TypeOK
  <2>2. CASE t \notin Shared
    BY <1>2, <1>3, <2>2, QueuedWithout
  <2>3. QED BY <2>1, <2>2
<1>7. TypeOK'
  BY <1>2, <1>3, <1>4, <1>5, <1>6 DEF TypeOK, SendRecord
<1>8. Concerns(t, m) /\ \A u \in Threads : Concerns(u, m) => u = t
  BY <1>2 DEF Concerns, Home
<1>9. \A u \in Threads : \A x \in Message : Concerns(u, x)' => Concerns(u, x)
  <2>1. inFlight'[t] = m /\ \A u \in Threads \ {t} : inFlight'[u] = inFlight[u]
    BY <1>3 DEF TypeOK
  <2>2. QED BY <1>3, <1>4, <1>5, <1>6, <1>8, <2>1 DEF Concerns, UnderWay
<1>10. Home'
  BY <1>9 DEF Home
<1>11. Known'
  <2>1. m \in 1 .. made
    BY <1>2, <1>8 DEF Known, Message
  <2>2. QED BY <1>3, <1>5, <1>9, <2>1 DEF Known
<1>12. \A e \in fusing : e.thread # t /\ e.message # m
  BY <1>2, <1>8, ConcernsSend, SendTypes DEF FusionSends
<1>13. \A d \in sending : d.message # m
  BY <1>2, <1>8, ConcernsSend, SendTypes DEF UnderWay
<1>14. \A d \in sending' : d \in sending \/ d = s
  BY <1>3
<1>15. FusionSends'
  BY <1>5, <1>6, <1>12, SendTypes DEF FusionSends
<1>16. FusionStages'
  <2>1. ASSUME NEW u \in Threads, fusion[u] # NoFusion
        PROVE  fusion[u].message # m
    BY <1>2, <1>8, <2>1 DEF Concerns
  <2>2. \A x \in Dispatched' : x \in Dispatched \/ x = m
    BY <1>4, <1>5, <1>14 DEF Dispatched
  <2>3. QED BY <1>3, <1>5, <2>1, <2>2 DEF FusionStages
<1>17. SendsOnce'
  BY <1>4, <1>13, <1>14 DEF SendsOnce
<1>18. SharedSends'
  <2>1. \A d \in sending' \cup fusing : d.thread \in Shared => d.message \in pendingAck'
    BY <1>3, <1>4, <1>14 DEF SharedSends
  <2>2. \A d \in sending' : d.thread \in Shared =>
          d.message \in Queued(d.thread)' \cup abandoned \cup sent
    BY <1>2, <1>4, <1>6, <1>14, SendTypes DEF SharedSends
  <2>3. \A d \in sending' : d.thread \in Shared => \A e \in fusing : e.message # d.message
    BY <1>4, <1>12, <1>14 DEF SharedSends
  <2>4. QED BY <1>5, <2>1, <2>2, <2>3 DEF SharedSends
<1>19. NativeSends'
  BY <1>4, <1>5, <1>6, <1>14, SendTypes DEF NativeSends
<1>20. SentIsHeld'
  BY <1>5, <1>6 DEF SentIsHeld
<1>21. m \in sent => m \in again
  <2>1. gate[m] = Never => gate[m] >= pulse[t]
    BY Constants DEF TypeOK
  <2>2. QED BY <1>2, <2>1 DEF SentIsHeld
<1>22. NothingIsSentTwice'
  <2>1. \A x \in Dispatched' : x \in Dispatched \/ x = m
    BY <1>4, <1>5, <1>14 DEF Dispatched
  <2>2. QED BY <1>4, <1>5, <1>12, <1>14, <1>21, <2>1 DEF NothingIsSentTwice
<1>23. RemovedStaysRemoved'
  <2>1. \A x \in Dispatched' : x \in Dispatched \/ x = m
    BY <1>4, <1>5, <1>14 DEF Dispatched
  <2>2. QED BY <1>2, <1>5, <1>6, <2>1 DEF RemovedStaysRemoved
<1>24. InFlightIsBacked'
  <2>1. /\ inFlight'[t] = m
        /\ \A u \in Threads \ {t} : inFlight'[u] = inFlight[u] /\ since'[u] = since[u]
    BY <1>3 DEF TypeOK
  <2>2. UnderWay(t, m, sending')
    BY <1>3, <1>4 DEF UnderWay
  <2>3. \A u, x : UnderWay(u, x, sending) => UnderWay(u, x, sending')
    BY <1>3 DEF UnderWay
  <2>4. QED BY <1>5, <2>1, <2>2, <2>3 DEF InFlightIsBacked
<1>25. NothingIsLost'
  <2>1. Dispatched \cup {m} \subseteq Dispatched'
    BY <1>3, <1>4, <1>5 DEF Dispatched
  <2>2. \A u \in Threads : Queued(u) \subseteq Queued(u)' \cup {m}
    BY <1>6
  <2>3. QED BY <1>5, <2>1, <2>2 DEF NothingIsLost
<1>26. QED
  BY <1>7, <1>10, <1>11, <1>15, <1>16, <1>17, <1>18, <1>19, <1>20, <1>22, <1>23, <1>24,
     <1>25

LEMMA SendAcceptedKeeps ==
  ASSUME IInv, NEW d \in sending, SendAccepted(d)
  PROVE  IInv'
<1> USE DEF IInv
<1> DEFINE t == d.thread
           m == d.message
<1>1. /\ t \in Threads /\ m \in Message
      /\ sending' = sending \ {d}
      /\ completed' = completed \cup {m}
      /\ sent' = sent \cup {m}
  BY SendTypes DEF SendAccepted
<1>2. /\ UNCHANGED <<pendingAck, fusing, removed, again, fusion, abandoned, made,
                    busy, pulse, active>>
      /\ due' \in BOOLEAN
  BY DEF SendAccepted, user, engine, Event
<1>3. /\ queue' \in [Threads -> Seq(Message)]
      /\ \A u \in Threads : Queued(u)' = IF u = t THEN Queued(u) \ {m} ELSE Queued(u)
      /\ gate' \in [Message -> {NoGate} \cup 0 .. Never]
      /\ \A x \in Message \ {m} : gate'[x] = gate[x]
      /\ revGate' \subseteq Message
  BY <1>1, ForgetIs DEF SendAccepted
<1>4. /\ inFlight' \in [Threads -> Message \cup {None}]
      /\ started' \in [Threads -> BOOLEAN] /\ since' \in [Threads -> BOOLEAN]
      /\ \A u \in Threads \ {t} : inFlight'[u] = inFlight[u] /\ since'[u] = since[u]
      /\ \/ inFlight'[t] = None
         \/ inFlight'[t] = inFlight[t] /\ since'[t]
      /\ fallback' \subseteq fallback \cup {d}
  <2>1. CASE t \in Shared
    <3>1. ClearFlight({t}) /\ fallback' = fallback
      BY <2>1 DEF SendAccepted
    <3>2. QED BY <1>1, <3>1, ClearFlightIs
  <2>2. CASE t \notin Shared
    BY <1>1, <2>2 DEF SendAccepted, TypeOK
  <2>3. QED BY <2>1, <2>2
<1>5. TypeOK'
  <2>1. d \in [thread : Threads, message : Message, pulse : 0 .. MaxTurns]
    BY DEF TypeOK
  <2>2. QED BY <1>1, <1>2, <1>3, <1>4, <2>1 DEF TypeOK
<1>6. Concerns(t, m) /\ \A u \in Threads : Concerns(u, m) => u = t
  BY <1>1, ConcernsSend DEF Home
<1>7. \A u \in Threads : \A x \in Message : Concerns(u, x)' => Concerns(u, x)
  BY <1>1, <1>2, <1>3, <1>4, Constants DEF Concerns, UnderWay
<1>8. Home'
  BY <1>7 DEF Home
<1>9. Known'
  <2>1. m \in 1 .. made
    BY <1>1, <1>6 DEF Known, Message
  <2>2. QED BY <1>1, <1>2, <1>7, <2>1 DEF Known
<1>10. \A e \in sending' : e \in sending /\ e.message # m /\ e.thread \in Threads
  BY <1>1, SendTypes DEF SendsOnce
<1>11. \A e \in fusing : e.message = m => m \in again
  BY DEF NothingIsSentTwice
<1>12. FusionSends'
  BY <1>1, <1>2, <1>3, SendTypes DEF FusionSends
<1>13. FusionStages'
  <2>1. m \in Dispatched /\ Dispatched' \subseteq Dispatched
    BY <1>1, <1>2 DEF Dispatched
  <2>2. QED BY <1>1, <1>2, <2>1 DEF FusionStages
<1>14. SendsOnce' /\ NativeSends'
  BY <1>2, <1>3, <1>10 DEF SendsOnce, NativeSends
<1>15. SharedSends'
  BY <1>1, <1>2, <1>3, <1>10 DEF SharedSends
<1>16. SentIsHeld'
  <2>1. \A u \in Threads : Queued(u)' \subseteq Queued(u) \ {m}
    BY <1>3, <1>6 DEF Concerns
  <2>2. QED BY <1>1, <1>2, <1>3, <2>1, QueuedMessages DEF SentIsHeld
<1>17. NothingIsSentTwice'
  BY <1>1, <1>2, <1>10, <1>11 DEF NothingIsSentTwice, Dispatched
<1>18. RemovedStaysRemoved'
  BY <1>2, <1>3, <1>10 DEF RemovedStaysRemoved, Dispatched
<1>19. InFlightIsBacked'
  <2>1. ASSUME NEW u \in Threads, inFlight'[u] # None
        PROVE  \/ UnderWay(u, inFlight'[u], sending')
               \/ since'[u] /\ inFlight'[u] \in completed'
    <3>1. CASE u = t
      <4>1. inFlight'[t] = inFlight[t] /\ since'[t]
        BY <1>4, <2>1, <3>1
      <4>2. CASE UnderWay(t, inFlight[t], sending)
        <5>1. PICK e \in sending : e.thread = t /\ e.message = inFlight[t]
          BY <4>2 DEF UnderWay
        <5>2. QED BY <1>1, <3>1, <4>1, <5>1 DEF UnderWay
      <4>3. CASE since[t] /\ inFlight[t] \in completed
        BY <1>1, <3>1, <4>1, <4>3
      <4>4. QED BY <1>1, <2>1, <3>1, <4>1, <4>2, <4>3 DEF InFlightIsBacked
    <3>2. CASE u # t
      <4>1. inFlight'[u] = inFlight[u] /\ since'[u] = since[u]
        BY <1>4, <3>2
      <4>2. UnderWay(u, inFlight[u], sending) => UnderWay(u, inFlight[u], sending')
        BY <1>1, <3>2 DEF UnderWay
      <4>3. QED BY <1>1, <2>1, <4>1, <4>2 DEF InFlightIsBacked
    <3>3. QED BY <3>1, <3>2
  <2>2. QED BY <2>1 DEF InFlightIsBacked
<1>20. NothingIsLost'
  <2>1. Dispatched \subseteq Dispatched' \cup sent'
    BY <1>1, <1>2 DEF Dispatched
  <2>2. \A u \in Threads : Queued(u) \subseteq Queued(u)' \cup sent'
    BY <1>1, <1>3
  <2>3. QED BY <1>1, <1>2, <2>1, <2>2 DEF NothingIsLost
<1>21. QED
  BY <1>5, <1>8, <1>9, <1>12, <1>13, <1>14, <1>15, <1>16, <1>17, <1>18, <1>19, <1>20

LEMMA SendFailsKeeps ==
  ASSUME IInv, NEW d \in sending, SendFails(d)
  PROVE  IInv'
<1> USE DEF IInv
<1> DEFINE t == d.thread
           m == d.message
<1>1. /\ t \in Threads /\ m \in Message
      /\ sending' = sending \ {d}
      /\ ClearFlight({t})
  BY SendTypes DEF SendFails
<1>2. /\ UNCHANGED <<pendingAck, fusing, fallback, removed, again, fusion, abandoned, made,
                     sent, completed, revGate, busy, pulse, active>>
      /\ due' \in BOOLEAN
  BY DEF SendFails, user, engine, Event
<1>3. /\ inFlight' \in [Threads -> Message \cup {None}]
      /\ started' \in [Threads -> BOOLEAN] /\ since' \in [Threads -> BOOLEAN]
      /\ inFlight'[t] = None
      /\ \A u \in Threads \ {t} : inFlight'[u] = inFlight[u] /\ since'[u] = since[u]
  BY <1>1, ClearFlightIs
<1>4. /\ queue' \in [Threads -> Seq(Message)]
      /\ \A u \in Threads :
           Queued(u)' = IF u = t /\ t \notin Shared THEN Queued(u) \cup {m} ELSE Queued(u)
      /\ gate' \in [Message -> {NoGate} \cup 0 .. Never]
      /\ \A x \in Message \ {m} : gate'[x] = gate[x]
      /\ t \in Shared => gate'[m] = gate[m]
  <2>1. CASE t \in Shared
    <3>1. UNCHANGED <<queue, gate>>
      BY <2>1 DEF SendFails
    <3>2. QED BY <2>1, <3>1, QueuedSame DEF TypeOK
  <2>2. CASE t \notin Shared
    <3>1. queue' = [queue EXCEPT ![t] = <<m>> \o @] /\ gate' = [gate EXCEPT ![m] = pulse[t]]
      BY <2>2 DEF SendFails
    <3>2. gate' \in [Message -> {NoGate} \cup 0 .. Never]
      BY <1>1, <3>1, Constants DEF TypeOK
    <3>3. QED BY <1>1, <2>2, <3>1, <3>2, QueuedBack DEF TypeOK
  <2>3. QED BY <2>1, <2>2
<1>5. TypeOK'
  BY <1>1, <1>2, <1>3, <1>4 DEF TypeOK
<1>6. Concerns(t, m) /\ \A u \in Threads : Concerns(u, m) => u = t
  BY <1>1, ConcernsSend DEF Home
<1>7. \A u \in Threads : \A x \in Message : Concerns(u, x)' => Concerns(u, x)
  BY <1>1, <1>2, <1>3, <1>4, <1>6, Constants DEF Concerns, UnderWay
<1>8. Home'
  BY <1>7 DEF Home
<1>9. Known'
  BY <1>2, <1>7 DEF Known
<1>10. \A e \in sending' : e \in sending /\ e.message # m /\ e.thread \in Threads
  BY <1>1, SendTypes DEF SendsOnce
<1>11. m \in Dispatched /\ Dispatched' \subseteq Dispatched
  BY <1>1, <1>2 DEF Dispatched
<1>12. FusionSends'
  <2>1. \A e \in fusing : Queued(e.thread) \subseteq Queued(e.thread)'
    BY <1>4, SendTypes
  <2>2. QED BY <1>2, <2>1 DEF FusionSends
<1>13. FusionStages'
  BY <1>2, <1>11 DEF FusionStages
<1>14. SendsOnce' /\ NativeSends'
  BY <1>2, <1>4, <1>10 DEF SendsOnce, NativeSends
<1>15. SharedSends'
  BY <1>2, <1>4, <1>10 DEF SharedSends
<1>16. m \in sent => m \in again
  BY <1>11 DEF NothingIsSentTwice
<1>17. SentIsHeld'
  <2>1. ASSUME NEW u \in Threads, NEW x \in Queued(u)', x \in sent, x \notin again
        PROVE  x \in Queued(u) /\ gate'[x] = gate[x]
    BY <1>4, <1>16, <2>1, QueuedMessages
  <2>2. QED BY <1>2, <2>1 DEF SentIsHeld
<1>18. NothingIsSentTwice'
  BY <1>2, <1>10, <1>11 DEF NothingIsSentTwice
<1>19. RemovedStaysRemoved'
  BY <1>2, <1>4, <1>11 DEF RemovedStaysRemoved
<1>20. InFlightIsBacked'
  <2>1. ASSUME NEW u \in Threads \ {t}
        PROVE  UnderWay(u, inFlight[u], sending) => UnderWay(u, inFlight[u], sending')
    BY <1>1 DEF UnderWay
  <2>2. QED BY <1>2, <1>3, <2>1 DEF InFlightIsBacked
<1>21. NothingIsLost'
  <2>1. \A x \in Dispatched : x \in Dispatched' \/ x = m
    BY <1>1, <1>2 DEF Dispatched
  <2>2. m \in Queued(t)' \cup abandoned \cup sent
    BY <1>1, <1>4 DEF SharedSends
  <2>3. QED BY <1>1, <1>2, <1>4, <2>1, <2>2 DEF NothingIsLost
<1>22. QED
  BY <1>5, <1>8, <1>9, <1>12, <1>13, <1>14, <1>15, <1>17, <1>18, <1>19, <1>20, <1>21

LEMMA SendBlockedKeeps ==
  ASSUME IInv, NEW d \in sending, SendBlocked(d)
  PROVE  IInv'
<1> USE DEF IInv
<1> DEFINE t == d.thread
           m == d.message
<1>1. /\ t \in Threads /\ t \in Shared /\ m \in Message
      /\ sending' = sending \ {d}
      /\ ClearFlight({t})
      /\ pendingAck' = pendingAck \ {m}
      /\ revGate' = revGate \cup {m}
  BY SendTypes DEF SendBlocked
<1>2. /\ UNCHANGED <<queue, gate, fusing, fallback, removed, again, fusion, abandoned, made,
                     sent, completed, busy, pulse, active>>
      /\ due' \in BOOLEAN
  BY DEF SendBlocked, user, engine, Event
<1>3. /\ inFlight' \in [Threads -> Message \cup {None}]
      /\ started' \in [Threads -> BOOLEAN] /\ since' \in [Threads -> BOOLEAN]
      /\ inFlight'[t] = None
      /\ \A u \in Threads \ {t} : inFlight'[u] = inFlight[u] /\ since'[u] = since[u]
  BY <1>1, ClearFlightIs
<1>4. \A u : Queued(u)' = Queued(u)
  BY <1>2, QueuedSame
<1>5. TypeOK'
  BY <1>1, <1>2, <1>3 DEF TypeOK
<1>6. \A u \in Threads : \A x \in Message : Concerns(u, x)' => Concerns(u, x)
  BY <1>1, <1>2, <1>3, <1>4, Constants DEF Concerns, UnderWay
<1>7. Home'
  BY <1>6 DEF Home
<1>8. Known'
  BY <1>1, <1>2, <1>6 DEF Known
<1>9. \A e \in sending' : e \in sending /\ e.message # m /\ e.thread \in Threads
  BY <1>1, SendTypes DEF SendsOnce
<1>10. \A e \in fusing : e.message # m
  BY <1>1 DEF SharedSends
<1>11. Dispatched' \subseteq Dispatched
  BY <1>1, <1>2 DEF Dispatched
<1>12. FusionSends'
  BY <1>2, <1>4 DEF FusionSends
<1>13. FusionStages'
  BY <1>1, <1>2, <1>11 DEF FusionStages
<1>14. SendsOnce' /\ NativeSends'
  BY <1>2, <1>4, <1>9 DEF SendsOnce, NativeSends
<1>15. SharedSends'
  BY <1>1, <1>2, <1>4, <1>9, <1>10 DEF SharedSends
<1>16. SentIsHeld'
  BY <1>2, <1>4 DEF SentIsHeld
<1>17. NothingIsSentTwice' /\ RemovedStaysRemoved'
  BY <1>2, <1>4, <1>9, <1>11 DEF NothingIsSentTwice, RemovedStaysRemoved
<1>18. InFlightIsBacked'
  <2>1. ASSUME NEW u \in Threads \ {t}
        PROVE  UnderWay(u, inFlight[u], sending) => UnderWay(u, inFlight[u], sending')
    BY <1>1 DEF UnderWay
  <2>2. QED BY <1>2, <1>3, <2>1 DEF InFlightIsBacked
<1>19. NothingIsLost'
  <2>1. \A x \in Dispatched : x \in Dispatched' \/ x = m
    BY <1>1, <1>2 DEF Dispatched
  <2>2. m \in Queued(t) \cup abandoned \cup sent
    BY <1>1 DEF SharedSends
  <2>3. QED BY <1>1, <1>2, <1>4, <2>1, <2>2 DEF NothingIsLost
<1>20. QED
  BY <1>5, <1>7, <1>8, <1>12, <1>13, <1>14, <1>15, <1>16, <1>17, <1>18, <1>19

LEMMA StallsKeeps ==
  ASSUME IInv, Stalls
  PROVE  IInv'
<1> USE DEF IInv
<1> DEFINE t == active
           m == inFlight[t]
<1>1. /\ t \in Threads /\ t \notin Shared /\ m \in Message
      /\ ClearFlight({t})
      /\ completed' = completed \ {m}
      /\ gate' = [gate EXCEPT ![m] = NoGate]
      /\ queue' = [queue EXCEPT ![t] = <<m>> \o @]
      /\ again' = again \cup {m}
  BY Constants DEF Stalls, TypeOK
<1>2. /\ UNCHANGED <<pendingAck, sending, fusing, fallback, removed, fusion, abandoned, made,
                     sent, revGate, busy, pulse, active>>
      /\ due' \in BOOLEAN
  BY DEF Stalls, sends, engine, Event
<1>3. /\ inFlight' \in [Threads -> Message \cup {None}]
      /\ started' \in [Threads -> BOOLEAN] /\ since' \in [Threads -> BOOLEAN]
      /\ inFlight'[t] = None
      /\ \A u \in Threads \ {t} : inFlight'[u] = inFlight[u] /\ since'[u] = since[u]
  BY <1>1, ClearFlightIs
<1>4. Concerns(t, m) /\ \A u \in Threads : Concerns(u, m) => u = t
  BY <1>1 DEF Concerns, Home
<1> HIDE DEF m
<1>5. /\ queue' \in [Threads -> Seq(Message)]
      /\ \A u \in Threads : Queued(u)' = IF u = t THEN Queued(u) \cup {m} ELSE Queued(u)
  BY <1>1, QueuedBack
<1>6. /\ gate' \in [Message -> {NoGate} \cup 0 .. Never]
      /\ \A x \in Message \ {m} : gate'[x] = gate[x]
  BY <1>1 DEF TypeOK
<1>7. TypeOK'
  BY <1>1, <1>2, <1>3, <1>5, <1>6 DEF TypeOK
<1>8. \A u \in Threads : \A x \in Message : Concerns(u, x)' => Concerns(u, x)
  BY <1>1, <1>2, <1>3, <1>4, <1>5, Constants DEF Concerns, UnderWay
<1>9. Home'
  BY <1>8 DEF Home
<1>10. Known'
  <2>1. m \in 1 .. made
    BY <1>1, <1>4 DEF Known, Message
  <2>2. QED BY <1>1, <1>2, <1>8, <2>1 DEF Known
<1>11. FusionSends'
  BY <1>2, <1>5, SendTypes DEF FusionSends
<1>12. FusionStages'
  BY <1>1, <1>2 DEF FusionStages, Dispatched
<1>13. SendsOnce' /\ NativeSends'
  BY <1>1, <1>2, <1>5, SendTypes DEF SendsOnce, NativeSends
<1>14. SharedSends'
  BY <1>2, <1>5, SendTypes DEF SharedSends
<1>15. SentIsHeld'
  BY <1>1, <1>2, <1>5, <1>6, QueuedMessages DEF SentIsHeld
<1>16. NothingIsSentTwice'
  BY <1>1, <1>2 DEF NothingIsSentTwice, Dispatched
<1>17. RemovedStaysRemoved'
  BY <1>1, <1>2, <1>5 DEF RemovedStaysRemoved, Dispatched
<1>18. InFlightIsBacked'
  <2>1. ASSUME NEW u \in Threads \ {t}, inFlight[u] # None
        PROVE  inFlight[u] # m
    BY <1>1, <1>4, <2>1 DEF Concerns
  <2>2. QED BY <1>1, <1>2, <1>3, <2>1 DEF InFlightIsBacked, UnderWay
<1>19. NothingIsLost'
  <2>1. \A u \in Threads : Queued(u) \subseteq Queued(u)'
    BY <1>5
  <2>2. QED BY <1>2, <2>1 DEF NothingIsLost, Dispatched
<1>20. QED
  BY <1>7, <1>9, <1>10, <1>11, <1>12, <1>13, <1>14, <1>15, <1>16, <1>17, <1>18, <1>19

-----------------------------------------------------------------------------
(* The specification.                                                      *)

LEMMA InitHolds ==
  ASSUME Init
  PROVE  IInv
<1> USE DEF Init
<1>1. \A t \in Threads : Queued(t) = {}
  BY DEF Queued, Contains
<1>2. TypeOK
  <2>1. <<>> \in Seq(Message)
    OBVIOUS
  <2>2. /\ made \in 0 .. MaxMessages /\ 0 \in 0 .. MaxTurns
        /\ \A t \in Threads : ~busy[t]
    BY Constants
  <2>3. QED BY <2>1, <2>2 DEF TypeOK
<1>3. \A t \in Threads : \A m \in Message : ~Concerns(t, m)
  BY <1>1, Constants DEF Concerns, UnderWay
<1>4. Home /\ Known
  BY <1>3 DEF Home, Known
<1>5. FusionSends /\ FusionStages /\ SendsOnce /\ SharedSends /\ NativeSends
  BY DEF FusionSends, FusionStages, SendsOnce, SharedSends, NativeSends
<1>6. SentIsHeld
  BY <1>1 DEF SentIsHeld
<1>7. NothingIsSentTwice /\ RemovedStaysRemoved /\ InFlightIsBacked
  BY DEF NothingIsSentTwice, RemovedStaysRemoved, InFlightIsBacked
<1>8. NothingIsLost
  BY DEF NothingIsLost
<1>9. QED BY <1>2, <1>4, <1>5, <1>6, <1>7, <1>8 DEF IInv

LEMMA NextKeeps ==
  ASSUME IInv, Next
  PROVE  IInv'
<1>1. CASE queueMessage
  BY <1>1, queueMessageKeeps
<1>2. ASSUME NEW m \in Message,
             removeQueuedMessage(m) \/ abandonQueuedMessage(m) \/ fuseQueuedMessage(m)
      PROVE  IInv'
  BY <1>2, removeQueuedMessageKeeps, abandonQueuedMessageKeeps, fuseQueuedMessageKeeps
<1>3. ASSUME NEW t \in Threads,
             SwitchThread(t) \/ TurnStarts(t) \/ TurnEnds(t) \/ TurnContinues(t)
      PROVE  IInv'
  BY <1>3, SwitchThreadKeeps, TurnStartsKeeps, TurnEndsKeeps, TurnContinuesKeeps
<1>4. ASSUME NEW d \in sending, SendAccepted(d) \/ SendFails(d) \/ SendBlocked(d)
      PROVE  IInv'
  BY <1>4, SendAcceptedKeeps, SendFailsKeeps, SendBlockedKeeps
<1>5. ASSUME NEW d \in fusing,
             FusionAccepted(d) \/ FusionFails(d, TRUE) \/ FusionFails(d, FALSE)
      PROVE  IInv'
  <2>1. CASE FusionAccepted(d)
    BY <2>1, FusionAcceptedKeeps
  <2>2. ASSUME NEW blocked \in BOOLEAN, FusionFails(d, blocked)
        PROVE  IInv'
    BY <2>2, FusionFailsKeeps
  <2>3. QED BY <1>5, <2>1, <2>2
<1>6. ASSUME NEW d \in fallback, FallbackFires(d)
      PROVE  IInv'
  BY <1>6, FallbackFiresKeeps
<1>7. CASE FusionTimesOut \/ Stalls \/ Rest
  BY <1>7, FusionTimesOutKeeps, StallsKeeps, RestKeeps
<1>8. CASE Effects
  BY <1>8, SucceedsKeeps, ContinuesKeeps, SettlementEffectKeeps, DrainEffectKeeps
     DEF Effects, FusionEffect
<1>9. QED BY <1>1, <1>2, <1>3, <1>4, <1>5, <1>6, <1>7, <1>8 DEF Next

LEMMA StutterKeeps ==
  ASSUME IInv, UNCHANGED vars
  PROVE  IInv'
<1>1. TypeOK'
  BY DEF IInv, TypeOK, vars
<1>2. QED BY <1>1, Quiet DEF vars

THEOREM InvariantHolds == Spec => []IInv
<1>1. Init => IInv
  BY InitHolds
<1>2. IInv /\ [Next]_vars => IInv'
  BY NextKeeps, StutterKeeps
<1>3. QED BY <1>1, <1>2, PTL DEF Spec

\* The state of the queue, of the sends and of the threads keeps its type, whatever
\* order the engine, the user and the timers take.
THEOREM QueueTypeCorrect == Spec => []TypeOK
BY InvariantHolds, PTL DEF IInv

\* A message that the engine has is not sent again, by the drain or by a fusion.
THEOREM QueueSendsOnce == Spec => []NothingIsSentTwice
BY InvariantHolds, PTL DEF IInv

\* A message that the user removed is not sent and does not come back.
THEOREM QueueRemovesForGood == Spec => []RemovedStaysRemoved
BY InvariantHolds, PTL DEF IInv

\* The mark in flight of a thread belongs to a send, or to something that settles it.
THEOREM QueueFlightIsBacked == Spec => []InFlightIsBacked
BY InvariantHolds, PTL DEF IInv

\* No failure, timeout or late answer drops a message.
THEOREM QueueLosesNothing == Spec => []NothingIsLost
BY InvariantHolds, PTL DEF IInv

=============================================================================
