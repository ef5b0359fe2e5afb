----------------------- MODULE RuntimeCoordinatorProofs -----------------------
(***************************************************************************)
(* What the runtime coordinator keeps, for any attempts, sessions, limits  *)
(* and lengths of turns: proofs of the safety properties of                *)
(* RuntimeCoordinator.                                                     *)
(***************************************************************************)
EXTENDS RuntimeCoordinator, SequenceFilterProofs

-----------------------------------------------------------------------------
(* The inductive invariant.                                                *)

Steps == {"none", "starting", "materialized", "sent", "bound", "acknowledged",
          "accepted", "done", "failed"}
Turns == {"none", "running", "echoed", "ended", "done"}

\* The types of the rest of the state.
Types ==
  /\ TypeOK
  /\ step \in [Attempt -> Steps] /\ turn \in [Attempt -> Turns]
  /\ emitted \in [Attempt -> Nat]
  /\ waiter \in [Attempt -> {"none", "looked", "listening", "asleep", "done"}]
  /\ committed \in [Attempt -> [by : {"nobody", "dispatch", "user", "runtime"},
                                blocks : Seq(Event)]]
  /\ created \subseteq Codex /\ announced \subseteq Codex \cup Plain

\* A session is held, and answers, for an attempt of its own.
Indexed ==
  /\ \A s \in Session : byNative[s] # None =>
       byNative[s] \in byTurn /\ SessionOf[byNative[s]] = s
  /\ \A s \in Session : held[s] # None => SessionOf[held[s]] = s
  /\ \A a \in provisioning : SessionOf[a] \in Codex

Over(a) == turn[a] \in {"ended", "done"}
Ended(a) == IF turn[a] = "ended" THEN 1 ELSE IF turn[a] = "done" THEN 2 ELSE 0

\* Where an attempt is in its life.
LifeOf(a) ==
  /\ step[a] = "none" => a \notin attempts /\ committed[a].by = "nobody"
  /\ step[a] = "starting" => SessionOf[a] \in Codex
  /\ step[a] \in {"none", "starting", "materialized"} => turn[a] = "none"
  /\ step[a] \in {"sent", "bound", "acknowledged", "accepted", "done"} => turn[a] # "none"
  /\ step[a] \in {"none", "starting", "materialized", "sent"} => a \notin byTurn
  /\ turn[a] = "none" => emitted[a] = 0 /\ a \notin byTurn
  /\ Open(a) => a \in attempts
  /\ a \in attempts /\ turn[a] # "none" /\ a \notin byTurn => held[SessionOf[a]] = a
  /\ committed[a].by = "dispatch" => a \notin attempts
  /\ committed[a].by # "dispatch" => Ended(a) <= emitted[a]
  /\ a \in attempts /\ committed[a].by # "nobody" => Over(a)
  /\ emitted[a] > 0 /\ SessionOf[a] \in Codex => SessionOf[a] \in announced
  /\ step[a] \in {"bound", "acknowledged", "accepted"} /\ a \in attempts => a \in barrier
  /\ step[a] \in {"none", "starting", "materialized", "sent", "bound", "acknowledged"}
       => shown[a] = <<>>
  /\ a \notin byTurn => applied[a] = <<>> /\ a \notin settled
  /\ a \in attempts /\ a \notin byTurn => shown[a] = <<>>

\* Settlements are of turns that are over; who commits one comes to remove the
\* attempt, and the dispatch does so when its replay found the end.
Closes ==
  /\ \A c \in closing :
       /\ Over(c.of) /\ step[c.of] # "none"
       /\ c.to = "remove" => committed[c.of].by # "nobody"
       /\ c.to = "commit" /\ Open(c.of) => c.of \in settled
  /\ \A a \in settled : Over(a)
  /\ \A a \in settled \cap barrier : \E c \in closing : c.by = "dispatch" /\ c.of = a

Lives == (\A a \in Attempt : LifeOf(a)) /\ Closes

\* Until its start was announced, a Codex session has one attempt, which it
\* answers for.
Alone ==
  /\ \A a, b \in attempts :
       SessionOf[a] = SessionOf[b] /\ SessionOf[a] \in Codex \ announced => a = b
  /\ \A a \in byTurn :
       SessionOf[a] \in Codex \ announced => byNative[SessionOf[a]] = a

\* The events that were read.
Emitted ==
  {e \in Event :
     IF e.of \in Attempt
     THEN /\ e.kind # "started"
          /\ e.kind = "echo" => e.n = 0
          /\ committed[e.of].by # "dispatch" =>
               /\ e.kind = "text" => e.n \in 1 .. emitted[e.of] - Ended(e.of)
               /\ e.kind = "end" => e.n \in emitted[e.of] - Ended(e.of) + 1 .. emitted[e.of]
     ELSE e.kind = "started" /\ e.n = 0 /\ e.of \in announced}

\* What an attempt is told: its turn, and the start of its session.
Stream(a) ==
  {e \in Event : \/ e.of = a /\ e.kind \in {"text", "end"}
                 \/ e.of = SessionOf[a] /\ e.kind = "started"}
Heard(a) == Stream(a) \cap Emitted

Contents ==
  /\ unowned \in Seq(Emitted)
  /\ \A a \in Attempt :
       /\ pending[a] \in Seq(Heard(a))
       /\ applied[a] \in Seq(Heard(a))
       /\ shown[a] \in Seq(Heard(a))
  /\ \A a \in byTurn : \A i \in DOMAIN unowned : unowned[i] \notin Stream(a)

Last(q) == q[Len(q)]
Line(a) == applied[a] \o pending[a] \o Filter(unowned, Stream(a))

\* The last events of a turn that has n, in their order: all of them if none was lost.
Tells(q, n, lost) ==
  /\ InLine(q)
  /\ q # <<>> => Last(q).n = n
  /\ ~lost /\ n > 0 => q # <<>> /\ q[1].n <= 1

\* What an attempt has been told and will be is what its turn said, in its order.
Lines ==
  \A a \in Attempt \ (settled \cup strayed) : a \in attempts \/ step[a] = "none" =>
    Tells(Line(a), emitted[a], a \in dropped)

Shown ==
  \A a \in Attempt \ strayed :
    /\ InLine(shown[a] \o pending[a])
    /\ a \in byTurn /\ turn[a] # "done" /\ shown[a] \o pending[a] # <<>> =>
         Last(shown[a] \o pending[a]).n = emitted[a]

\* A turn that has ended was told whole.
Whole(q, lost) ==
  /\ InLine(q) /\ q # <<>> /\ Ends(Last(q))
  /\ ~lost => q[1].n <= 1

Settlements ==
  \A a \in Attempt \ strayed :
    /\ a \in settled => Whole(applied[a], a \in dropped)
    /\ committed[a].by = "runtime" =>
         /\ committed[a].blocks \in Seq(Heard(a))
         /\ Whole(committed[a].blocks, a \in dropped)

IInv ==
  /\ Types /\ Indexed /\ Lives /\ Alone /\ Contents /\ Lines /\ Shown /\ Settlements
  /\ KeptEventsAreOnHold /\ WaitersAreWoken

-----------------------------------------------------------------------------
(* Sequences whose elements are in a set.                                  *)

\* The elements of a sequence are what its type says.
LEMMA SeqOf ==
  ASSUME NEW T, NEW q \in Seq(T), NEW U
  PROVE  (\A i \in DOMAIN q : q[i] \in U) <=> q \in Seq(U)
<1>1. Len(q) \in Nat /\ DOMAIN q = 1 .. Len(q) /\ q \in [1 .. Len(q) -> T]
  BY LenProperties
<1>2. ASSUME \A i \in DOMAIN q : q[i] \in U
      PROVE  q \in Seq(U)
  <2> DEFINE e(i) == q[i]
  <2>1. \A i \in 1 .. Len(q) : e(i) \in U
    BY <1>1, <1>2
  <2>2. [i \in 1 .. Len(q) |-> e(i)] \in Seq(U)
    BY <1>1, <2>1
  <2>3. QED BY <1>1, <2>2
<1>3. ASSUME q \in Seq(U)
      PROVE  \A i \in DOMAIN q : q[i] \in U
  BY <1>3, LenProperties, ElementOfSeq
<1>4. QED BY <1>2, <1>3

\* What a filter holds comes from what it filtered.
LEMMA FilterFrom ==
  ASSUME NEW T, NEW q \in Seq(T), NEW S, NEW f, f = Filter(q, S), NEW k \in DOMAIN f
  PROVE  /\ f[k] \in S /\ f[k] \in T
         /\ \E j \in DOMAIN q : q[j] = f[k]
<1>1. f \in Seq(T \cap S) /\ k \in 1 .. Len(Filter(q, S))
  BY FilterType, LenProperties
<1>2. f[k] \in T \cap S
  BY <1>1, ElementOfSeq
<1>3. Nth(Places(q, S), k) \in Places(q, S) /\ f[k] = q[Nth(Places(q, S), k)]
  BY <1>1, FilterNth
<1>4. QED BY <1>2, <1>3 DEF Places

\* A prefix.
LEMMA PrefixType ==
  ASSUME NEW T, NEW q \in Seq(T), NEW k \in 0 .. Len(q)
  PROVE  /\ SubSeq(q, 1, k) \in Seq(T) /\ Len(SubSeq(q, 1, k)) = k
         /\ \A i \in 1 .. k : SubSeq(q, 1, k)[i] = q[i]
         /\ SubSeq(q, k + 1, Len(q)) \in Seq(T)
         /\ Len(SubSeq(q, k + 1, Len(q))) = Len(q) - k
         /\ \A i \in 1 .. Len(q) - k : SubSeq(q, k + 1, Len(q))[i] = q[k + i]
<1>1. Len(q) \in Nat /\ \A i \in 1 .. Len(q) : q[i] \in T
  BY LenProperties, ElementOfSeq
<1>2. QED BY <1>1, SubSeqProperties

-----------------------------------------------------------------------------
(* The first end of a sequence.                                            *)

IsEnd(q, k) == k \in DOMAIN q /\ Ends(q[k]) /\ \A j \in 1 .. k - 1 : ~Ends(q[j])

LEMMA FirstEnd ==
  ASSUME NEW T, NEW q \in Seq(T), \E i \in DOMAIN q : Ends(q[i])
  PROVE  \E k \in DOMAIN q : IsEnd(q, k) /\ UpToEnd(q) = SubSeq(q, 1, k)
<1> DEFINE E == {i \in DOMAIN q : Ends(q[i])}
<1>1. DOMAIN q = 1 .. Len(q) /\ Len(q) \in Nat
  BY LenProperties
<1>2. E \in SUBSET Nat /\ E # {} /\ E \subseteq 1 .. Len(q)
  BY <1>1
<1>3. PICK k \in E : \A j \in E : k <= j
  <2>1. \E k \in E : \A j \in E : ~(<<j, k>> \in OpToRel(<, Nat))
    BY <1>2, NatLessThanWellFounded, WFMin
  <2>2. \A j, k \in Nat : ~(<<j, k>> \in OpToRel(<, Nat)) => k <= j
    BY DEF OpToRel
  <2>3. QED BY <1>2, <2>1, <2>2
<1>4. IsEnd(q, k)
  BY <1>1, <1>2, <1>3 DEF IsEnd
<1>5. PICK m : m = CHOOSE i \in DOMAIN q : Ends(q[i]) /\ \A j \in 1 .. i - 1 : ~Ends(q[j])
  OBVIOUS
<1>6. IsEnd(q, m)
  BY <1>4, <1>5 DEF IsEnd
<1>7. UpToEnd(q) = SubSeq(q, 1, m)
  BY <1>5 DEF UpToEnd
<1>8. QED BY <1>6, <1>7 DEF IsEnd

\* UpToEnd is a prefix that has no end but its last.
LEMMA UpToEndIs ==
  ASSUME NEW T, NEW q \in Seq(T)
  PROVE  \E k \in 0 .. Len(q) :
           /\ UpToEnd(q) = SubSeq(q, 1, k)
           /\ \A j \in 1 .. k - 1 : ~Ends(q[j])
           /\ IF \E i \in DOMAIN q : Ends(q[i]) THEN k > 0 /\ Ends(q[k]) ELSE k = Len(q)
<1>1. DOMAIN q = 1 .. Len(q) /\ Len(q) \in Nat
  BY LenProperties
<1>2. CASE \E i \in DOMAIN q : Ends(q[i])
  <2>1. PICK k \in DOMAIN q : IsEnd(q, k) /\ UpToEnd(q) = SubSeq(q, 1, k)
    BY <1>2, FirstEnd
  <2>2. k \in 0 .. Len(q) /\ k > 0
    BY <1>1, <2>1
  <2>3. QED BY <1>2, <2>1, <2>2 DEF IsEnd
<1>3. CASE ~\E i \in DOMAIN q : Ends(q[i])
  <2>1. UpToEnd(q) = q
    BY <1>3 DEF UpToEnd
  <2>2. SubSeq(q, 1, Len(q)) = q
    BY SubSeqFull
  <2>3. \A j \in 1 .. Len(q) - 1 : ~Ends(q[j])
    BY <1>1, <1>3
  <2>4. UpToEnd(q) = SubSeq(q, 1, Len(q)) /\ Len(q) \in 0 .. Len(q)
    BY <1>1, <2>1, <2>2
  <2>5. QED BY <1>3, <2>3, <2>4
<1>4. QED BY <1>2, <1>3

LEMMA UpToEndType ==
  ASSUME NEW T, NEW q \in Seq(T)
  PROVE  UpToEnd(q) \in Seq(T) /\ Len(UpToEnd(q)) <= Len(q)
<1>1. PICK k \in 0 .. Len(q) : UpToEnd(q) = SubSeq(q, 1, k)
  BY UpToEndIs
<1>2. Len(q) \in Nat
  BY LenProperties
<1>3. QED BY <1>1, <1>2, PrefixType

LEMMA TakesType ==
  ASSUME NEW T, NEW q \in Seq(T), NEW a
  PROVE  Takes(a, q) \in Seq(T) /\ Len(Takes(a, q)) <= Len(q)
<1>1. <<>> \in Seq(T) /\ Len(<<>>) = 0 /\ Len(q) \in Nat
  BY EmptySeq, LenProperties
<1>2. UpToEnd(q) \in Seq(T) /\ Len(UpToEnd(q)) <= Len(q)
  BY UpToEndType
<1>3. QED BY <1>1, <1>2 DEF Takes

LEMMA ShowsType ==
  ASSUME NEW T, NEW q \in Seq(T), NEW a
  PROVE  Shows(a, q) \in Seq(T)
<1> DEFINE t == Takes(a, q)
           u == SubSeq(q, Len(t) + 1, Len(q))
           v == Filter(u, {e \in Event : ~Ends(e)})
<1>1. t \in Seq(T) /\ Len(t) <= Len(q) /\ Len(t) \in Nat /\ Len(q) \in Nat
  BY TakesType, LenProperties
<1>2. u \in Seq(T)
  <2> HIDE DEF t
  <2>1. Len(t) \in 0 .. Len(q)
    BY <1>1
  <2>2. QED BY <2>1, PrefixType
<1>3. v \in Seq(T)
  <2> HIDE DEF u
  <2>1. v \in Seq(T \cap {e \in Event : ~Ends(e)})
    BY <1>2, FilterType
  <2>2. QED BY <2>1, SeqMonotonic
<1>4. Shows(a, q) = t \o v
  BY DEF Shows
<1> HIDE DEF t, v
<1>5. QED BY <1>1, <1>3, <1>4, ConcatProperties

-----------------------------------------------------------------------------
(* The types are inductive.                                                *)

LEMMA NoneIsNoAttempt == None \notin Attempt
BY CoordinatorAssumption DEF None

\* What the accumulator does keeps to its types.
LEMMA ApplyTypes ==
  ASSUME Types, NEW a \in attempts, NEW q \in Seq(Event), Apply(a, q)
  PROVE  /\ applied' \in [Attempt -> Seq(Event)]
         /\ settled' \subseteq attempts /\ settled \subseteq settled'
         /\ notified' \subseteq Attempt
<1>1. a \in Attempt /\ applied \in [Attempt -> Seq(Event)]
      /\ settled \subseteq attempts /\ notified \subseteq Attempt
  BY DEF Types, TypeOK
<1>2. Takes(a, q) \in Seq(Event)
  BY TakesType
<1>3. applied' = [applied EXCEPT ![a] = applied[a] \o Takes(a, q)]
  BY DEF Apply
<1>4. applied[a] \o Takes(a, q) \in Seq(Event)
  <2> DEFINE t == Takes(a, q)
  <2>1. t \in Seq(Event) /\ applied[a] \in Seq(Event)
    BY <1>1, <1>2
  <2> HIDE DEF t
  <2>2. applied[a] \o t \in Seq(Event)
    BY <2>1, ConcatProperties
  <2>3. QED BY <2>2 DEF t
<1>5. applied' \in [Attempt -> Seq(Event)]
  BY <1>1, <1>3, <1>4
<1>6. /\ settled' \subseteq attempts /\ settled \subseteq settled'
      /\ notified' \subseteq Attempt
  BY <1>1 DEF Apply
<1>7. QED BY <1>5, <1>6

LEMMA QueueBehindTypes ==
  ASSUME Types, NEW a \in attempts, NEW q \in Seq(Event), QueueBehind(a, q)
  PROVE  /\ pending' \in [Attempt -> Seq(Event)]
         /\ \A b \in Attempt : b # a => pending'[b] = pending[b]
         /\ acked' \subseteq attempts
<1>1. a \in Attempt /\ pending \in [Attempt -> Seq(Event)] /\ acked \subseteq attempts
  BY DEF Types, TypeOK
<1> DEFINE f == Filter(q, NoEcho)
<1>2. f \in Seq(Event)
  <2>1. f \in Seq(Event \cap NoEcho)
    BY FilterType
  <2>2. QED BY <2>1, SeqMonotonic
<1>3. pending' = [pending EXCEPT ![a] = pending[a] \o f]
  BY DEF QueueBehind
<1>4. pending[a] \o f \in Seq(Event)
  <2> HIDE DEF f
  <2>1. pending[a] \in Seq(Event)
    BY <1>1
  <2>2. QED BY <1>2, <2>1, ConcatProperties
<1>5. acked' \subseteq attempts
  BY <1>1 DEF QueueBehind
<1>6. QED BY <1>1, <1>3, <1>4, <1>5

\* Retaining some of the kept events.
LEMMA RetainTypes ==
  ASSUME Types, NEW S, unowned' = Filter(unowned, S)
  PROVE  unowned' \in Seq(Event) /\ Len(unowned') <= MaxUnowned
<1>1. unowned \in Seq(Event) /\ Len(unowned) <= MaxUnowned /\ Len(unowned) \in Nat
  BY LenProperties DEF Types, TypeOK
<1>2. unowned' \in Seq(Event \cap S) /\ Len(unowned') <= Len(unowned)
  BY <1>1, FilterType, FilterShorter
<1>3. unowned' \in Seq(Event)
  BY <1>2, SeqMonotonic
<1>4. Len(unowned') \in Nat
  BY <1>3, LenProperties
<1>5. QED BY <1>1, <1>2, <1>3, <1>4, CoordinatorAssumption

LEMMA FinishTypes ==
  ASSUME Types, NEW a, NEW hold, FinishProvisioning(a, hold)
  PROVE  /\ provisioning' = provisioning \ {a}
         /\ unowned' \in Seq(Event) /\ Len(unowned') <= MaxUnowned
<1>1. provisioning' = provisioning \ {a}
  BY DEF FinishProvisioning
<1>2. \/ unowned' = unowned
      \/ \E S : unowned' = Filter(unowned, S)
  BY DEF FinishProvisioning
<1>3. QED BY <1>1, <1>2, RetainTypes DEF Types, TypeOK

LEMMA RemoveTypes ==
  ASSUME Types, NEW a \in Attempt, RemoveAttempt(a)
  PROVE  /\ attempts' = attempts \ {a} /\ byTurn' = byTurn \ {a}
         /\ settled' = settled \ {a} /\ acked' = acked \ {a}
         /\ barrier' = barrier \ {a} /\ provisioning' = provisioning \ {a}
         /\ notified' \subseteq Attempt
         /\ byNative' \in [Session -> attempts' \cup {None}]
         /\ held' \in [Session -> attempts' \cup {None}]
         /\ applied' = [applied EXCEPT ![a] = <<>>]
         /\ pending' = [pending EXCEPT ![a] = <<>>]
         /\ applied' \in [Attempt -> Seq(Event)] /\ pending' \in [Attempt -> Seq(Event)]
         /\ \A b \in Attempt : pending'[b] # <<>> => b \in barrier'
         /\ unowned' \in Seq(Event) /\ Len(unowned') <= MaxUnowned
<1>1. /\ attempts' = attempts \ {a} /\ byTurn' = byTurn \ {a}
      /\ settled' = settled \ {a} /\ acked' = acked \ {a}
      /\ barrier' = barrier \ {a} /\ provisioning' = provisioning \ {a}
      /\ applied' = [applied EXCEPT ![a] = <<>>]
      /\ pending' = [pending EXCEPT ![a] = <<>>]
      /\ notified' = (IF a \in attempts THEN notified \cup {a} ELSE notified)
      /\ held' = [s \in Session |-> IF held[s] = a THEN None ELSE held[s]]
      /\ byNative' = [s \in Session |-> IF byNative[s] = a THEN None ELSE byNative[s]]
      /\ \E S : unowned' = Filter(unowned, S)
  BY DEF RemoveAttempt
<1>2. unowned' \in Seq(Event) /\ Len(unowned') <= MaxUnowned
  BY <1>1, RetainTypes
<1>3. /\ byNative' \in [Session -> attempts' \cup {None}]
      /\ held' \in [Session -> attempts' \cup {None}]
      /\ notified' \subseteq Attempt
  BY <1>1 DEF Types, TypeOK
<1>4. /\ applied \in [Attempt -> Seq(Event)] /\ pending \in [Attempt -> Seq(Event)]
      /\ \A b \in Attempt : pending[b] # <<>> => b \in barrier
      /\ <<>> \in Seq(Event)
  BY EmptySeq DEF Types, TypeOK
<1>5. /\ applied' \in [Attempt -> Seq(Event)] /\ pending' \in [Attempt -> Seq(Event)]
      /\ \A b \in Attempt : pending'[b] # <<>> => b \in barrier'
  BY <1>1, <1>4
<1>6. QED BY <1>1, <1>2, <1>3, <1>5

LEMMA RegisterTypes ==
  ASSUME Types, NEW a \in Attempt, Register(a)
  PROVE  Types'
<1>1. /\ attempts' = attempts \cup {a}
      /\ provisioning' \subseteq provisioning \cup {a}
      /\ step' \in [Attempt -> Steps]
      /\ UNCHANGED <<byTurn, byNative, held, unowned, replay, account, waits, ends,
                     engine, history>>
  BY DEF Register, Goes, Steps, Types
<1>2. /\ byNative' \in [Session -> attempts' \cup {None}]
      /\ held' \in [Session -> attempts' \cup {None}]
  BY <1>1 DEF Types, TypeOK
<1>3. QED BY <1>1, <1>2 DEF Types, TypeOK, replay, account, waits, ends, engine, history

LEMMA ThreadStartsTypes ==
  ASSUME Types, NEW a \in Attempt, ThreadStarts(a), SessionOf[a] \in Codex
  PROVE  Types'
BY DEF Types, TypeOK, ThreadStarts, Goes, Steps, index, holds, replay, account, waits, ends,
       engine, history

LEMMA SendTypes ==
  ASSUME Types, NEW a \in Attempt, Send(a)
  PROVE  Types'
<1> DEFINE hold == [held EXCEPT ![SessionOf[a]] = a]
<1>1. held' = hold /\ FinishProvisioning(a, hold) /\ a \in attempts
  BY DEF Send
<1>2. /\ provisioning' = provisioning \ {a}
      /\ unowned' \in Seq(Event) /\ Len(unowned') <= MaxUnowned
  BY <1>1, FinishTypes
<1>3. held' \in [Session -> attempts \cup {None}]
  BY <1>1 DEF Types, TypeOK
<1>4. QED BY <1>2, <1>3 DEF Types, TypeOK, Send, Goes, Steps, Turns, index, replay, account,
              waits, ends, history

LEMMA MaterializeFailsTypes ==
  ASSUME Types, NEW a \in Attempt, MaterializeFails(a)
  PROVE  Types'
<1>1. /\ provisioning' = provisioning \ {a}
      /\ unowned' \in Seq(Event) /\ Len(unowned') <= MaxUnowned
  BY FinishTypes DEF MaterializeFails
<1>2. QED BY <1>1 DEF Types, TypeOK, MaterializeFails, Goes, Steps, index, replay, account,
              waits, ends, engine, history

LEMMA AmbiguousTypes ==
  ASSUME Types, NEW a \in Attempt, Ambiguous(a)
  PROVE  Types'
BY DEF Types, TypeOK, Ambiguous, Goes, Steps, index, holds, replay, account, waits, ends,
       engine, history

LEMMA BindTypes ==
  ASSUME Types, NEW a \in Attempt, BindRuntimeTurn(a)
  PROVE  Types'
<1> DEFINE q == Filter(unowned, {e \in Event :
                  Gets(e, a, [byNative EXCEPT ![SessionOf[a]] = a])})
<1>1. a \in attempts /\ unowned \in Seq(Event)
  BY DEF BindRuntimeTurn, Types, TypeOK
<1>2. q \in Seq(Event)
  <2>1. q \in Seq(Event \cap {e \in Event :
                    Gets(e, a, [byNative EXCEPT ![SessionOf[a]] = a])})
    BY <1>1, FilterType
  <2>2. QED BY <2>1, SeqMonotonic
<1>3. QueueBehind(a, q)
  BY DEF BindRuntimeTurn
<1> HIDE DEF q
<1>4. /\ pending' \in [Attempt -> Seq(Event)]
      /\ \A b \in Attempt : b # a => pending'[b] = pending[b]
      /\ acked' \subseteq attempts
  BY <1>1, <1>2, <1>3, QueueBehindTypes
<1>5. unowned' \in Seq(Event) /\ Len(unowned') <= MaxUnowned
  <2>1. \E S : unowned' = Filter(unowned, S)
    BY DEF BindRuntimeTurn
  <2>2. QED BY <2>1, RetainTypes
<1>6. /\ attempts' = attempts /\ byTurn' = byTurn \cup {a} /\ barrier' = barrier \cup {a}
      /\ provisioning' = provisioning \ {a} /\ settled' = settled /\ applied' = applied
      /\ byNative' = [byNative EXCEPT ![SessionOf[a]] = a]
      /\ held' = [s \in Session |-> IF held[s] = a THEN None ELSE held[s]]
      /\ strayed' \subseteq strayed \cup attempts
      /\ step' = [step EXCEPT ![a] = IF a \in Acks THEN "bound" ELSE "acknowledged"]
      /\ UNCHANGED <<waits, ends, engine, shown, dropped>>
  BY DEF BindRuntimeTurn, Goes
<1>7. /\ byNative' \in [Session -> attempts' \cup {None}]
      /\ held' \in [Session -> attempts' \cup {None}]
      /\ step' \in [Attempt -> Steps]
      /\ strayed' \subseteq Attempt
  BY <1>1, <1>6 DEF Types, TypeOK, Steps
<1>8. QED BY <1>1, <1>4, <1>5, <1>6, <1>7 DEF Types, TypeOK, waits, ends, engine

LEMMA ContextIsAcknowledgedTypes ==
  ASSUME Types, NEW a \in Attempt, ContextIsAcknowledged(a)
  PROVE  Types'
BY DEF Types, TypeOK, ContextIsAcknowledged, Goes, Steps, index, holds, replay, account,
       waits, ends, engine, history

LEMMA AcceptTypes ==
  ASSUME Types, NEW a \in Attempt, Accept(a)
  PROVE  Types'
BY DEF Types, TypeOK, Accept, Goes, Steps, index, holds, replay, account, waits, ends,
       engine, history

LEMMA EndBeforeTypes ==
  ASSUME Types, NEW a \in Attempt, EndBeforeAcknowledgement(a)
  PROVE  Types'
<1>1. a \in attempts /\ pending[a] \in Seq(Event) /\ Apply(a, pending[a])
  BY DEF EndBeforeAcknowledgement, Types, TypeOK
<1>2. /\ applied' \in [Attempt -> Seq(Event)]
      /\ settled' \subseteq attempts /\ notified' \subseteq Attempt
  BY <1>1, ApplyTypes
<1>3. pending' = [pending EXCEPT ![a] = <<>>] /\ pending' \in [Attempt -> Seq(Event)]
  BY EmptySeq DEF EndBeforeAcknowledgement, Types, TypeOK
<1>4. closing' \subseteq [by : Agents, of : Attempt, to : {"commit", "remove"}]
  BY DEF EndBeforeAcknowledgement, Types, TypeOK, Agents
<1>5. QED BY <1>1, <1>2, <1>3, <1>4 DEF EndBeforeAcknowledgement, Types, TypeOK, Goes, Steps,
              holds, engine, history

LEMMA DrainTypes ==
  ASSUME Types, NEW a \in Attempt, Drain(a)
  PROVE  Types'
<1>1. a \in attempts /\ pending[a] \in Seq(Event) /\ Apply(a, pending[a])
  BY DEF Drain, Types, TypeOK
<1>2. /\ applied' \in [Attempt -> Seq(Event)]
      /\ settled' \subseteq attempts /\ notified' \subseteq Attempt
  BY <1>1, ApplyTypes
<1>3. pending' = [pending EXCEPT ![a] = <<>>] /\ pending' \in [Attempt -> Seq(Event)]
  BY EmptySeq DEF Drain, Types, TypeOK
<1>4. closing' \subseteq [by : Agents, of : Attempt, to : {"commit", "remove"}]
  BY DEF Drain, Types, TypeOK, Agents
<1>5. shown' \in [Attempt -> Seq(Event)]
  <2> DEFINE s == Shows(a, pending[a])
  <2>1. s \in Seq(Event) /\ shown[a] \in Seq(Event)
    BY <1>1, ShowsType DEF Types, TypeOK
  <2>2. shown' = [shown EXCEPT ![a] = shown[a] \o s]
    BY DEF Drain
  <2> HIDE DEF s
  <2>3. shown[a] \o s \in Seq(Event)
    BY <2>1, ConcatProperties
  <2>4. QED BY <2>2, <2>3 DEF Types, TypeOK
<1>6. QED BY <1>1, <1>2, <1>3, <1>4, <1>5 DEF Drain, Types, TypeOK, holds, engine

LEMMA ClearBarrierTypes ==
  ASSUME Types, NEW a \in Attempt, ClearBarrier(a)
  PROVE  Types'
BY DEF Types, TypeOK, ClearBarrier, Goes, Steps, index, holds, account, waits, ends,
       engine, history

LEMMA NotAcceptedTypes ==
  ASSUME Types, NEW a \in Attempt, NotAccepted(a)
  PROVE  Types'
<1>1. RemoveAttempt(a)
  BY DEF NotAccepted
<1>2. committed' \in [Attempt -> [by : {"nobody", "dispatch", "user", "runtime"},
                                  blocks : Seq(Event)]]
  BY DEF NotAccepted, Types
<1>3. /\ step' \in [Attempt -> Steps] /\ turn' \in [Attempt -> Turns]
      /\ UNCHANGED <<waiter, closing, created, announced, emitted, history>>
  BY DEF NotAccepted, Types, Goes, Steps, Turns
<1>4. QED BY <1>1, <1>2, <1>3, RemoveTypes DEF Types, TypeOK, history

LEMMA AbandonTypes ==
  ASSUME Types, NEW a \in Attempt, Abandon(a)
  PROVE  Types'
<1>1. RemoveAttempt(a)
  BY DEF Abandon
<1>2. committed' \in [Attempt -> [by : {"nobody", "dispatch", "user", "runtime"},
                                  blocks : Seq(Event)]]
  <2>1. applied[a] \in Seq(Event) /\ <<>> \in Seq(Event)
    BY EmptySeq DEF Types, TypeOK
  <2>2. QED BY <2>1 DEF Abandon, Types
<1>3. /\ step' \in [Attempt -> Steps] /\ turn' \in [Attempt -> Turns]
      /\ UNCHANGED <<waiter, closing, created, announced, emitted, history>>
  BY DEF Abandon, Types, engine
<1>4. QED BY <1>1, <1>2, <1>3, RemoveTypes DEF Types, TypeOK, history

LEMMA CommitTypes ==
  ASSUME Types, NEW c \in closing, Commit(c)
  PROVE  Types'
<1>1. c \in [by : Agents, of : Attempt, to : {"commit", "remove"}]
  BY DEF Types, TypeOK
<1>2. applied[c.of] \in Seq(Event)
  BY <1>1 DEF Types, TypeOK
<1>3. committed' \in [Attempt -> [by : {"nobody", "dispatch", "user", "runtime"},
                                  blocks : Seq(Event)]]
  BY <1>1, <1>2 DEF Commit, Types
<1>4. closing' \subseteq [by : Agents, of : Attempt, to : {"commit", "remove"}]
  BY <1>1 DEF Commit, Types, TypeOK
<1>5. QED BY <1>3, <1>4 DEF Commit, Types, TypeOK, index, holds, replay, account, waits,
              engine, history

LEMMA ForgetTypes ==
  ASSUME Types, NEW c \in closing, Forget(c)
  PROVE  Types'
<1>1. PICK a \in Attempt : RemoveAttempt(a)
  BY DEF Forget, Types, TypeOK
<1>2. /\ closing' \subseteq closing
      /\ UNCHANGED <<step, waiter, committed, engine, history>>
  BY DEF Forget
<1>3. QED BY <1>1, <1>2, RemoveTypes DEF Types, TypeOK, engine, history

LEMMA LooksTypes ==
  ASSUME Types, NEW a \in Attempt, NEW else \in {"looked", "asleep"}, Looks(a, else)
  PROVE  /\ waiter' \in [Attempt -> {"none", "looked", "listening", "asleep", "done"}]
         /\ closing' \subseteq [by : Agents, of : Attempt, to : {"commit", "remove"}]
<1>1. \/ /\ waiter' = [waiter EXCEPT ![a] = "done"]
         /\ closing' = closing \cup {[by |-> "waiter", of |-> a, to |-> "commit"]}
      \/ waiter' = [waiter EXCEPT ![a] = "done"] /\ closing' = closing
      \/ waiter' = [waiter EXCEPT ![a] = else] /\ closing' = closing
  BY DEF Looks, Waits
<1>2. [by |-> "waiter", of |-> a, to |-> "commit"]
        \in [by : Agents, of : Attempt, to : {"commit", "remove"}]
  BY DEF Agents
<1>3. waiter' \in [Attempt -> {"none", "looked", "listening", "asleep", "done"}]
  BY <1>1 DEF Types
<1>4. closing' \subseteq [by : Agents, of : Attempt, to : {"commit", "remove"}]
  BY <1>1, <1>2 DEF Types, TypeOK
<1>5. QED BY <1>3, <1>4

LEMMA WaitTypes ==
  ASSUME Types, NEW a \in Attempt, Wait(a)
  PROVE  Types'
<1>1. CASE AwaitSettlement(a)
  <2>1. /\ waiter' \in [Attempt -> {"none", "looked", "listening", "asleep", "done"}]
        /\ closing' \subseteq [by : Agents, of : Attempt, to : {"commit", "remove"}]
    BY <1>1, LooksTypes DEF AwaitSettlement
  <2>2. QED BY <1>1, <2>1 DEF AwaitSettlement, Types, TypeOK, index, holds, replay, account,
                engine, history
<1>2. CASE Listen(a)
  BY <1>2 DEF Listen, Waits, Types, TypeOK, index, holds, replay, account, ends, engine, history
<1>3. CASE LookAgain(a)
  <2>1. /\ waiter' \in [Attempt -> {"none", "looked", "listening", "asleep", "done"}]
        /\ closing' \subseteq [by : Agents, of : Attempt, to : {"commit", "remove"}]
    BY <1>3, LooksTypes DEF LookAgain
  <2>2. QED BY <1>3, <2>1 DEF LookAgain, Types, TypeOK, index, holds, replay, account,
                engine, history
<1>4. QED BY <1>1, <1>2, <1>3 DEF Wait

\* Where an event goes.
LEMMA OwnerIs ==
  ASSUME Types, NEW e \in Event, Owner(e, byTurn, byNative) # None
  PROVE  /\ Owner(e, byTurn, byNative) \in attempts
         /\ NativeOf(e) \in Session \/ e.of \in byTurn
BY DEF Owner, Types, TypeOK

LEMMA KeepTypes ==
  ASSUME Types, NEW e \in Event, Keep(e)
  PROVE  /\ unowned' \in Seq(Event) /\ Len(unowned') <= MaxUnowned
         /\ dropped' \subseteq Attempt
<1> DEFINE u == IF Len(unowned) >= MaxUnowned THEN Tail(unowned) ELSE unowned
<1>1. /\ unowned \in Seq(Event) /\ Len(unowned) \in Nat /\ Len(unowned) <= MaxUnowned
      /\ MaxUnowned \in Nat \ {0}
  BY LenProperties, CoordinatorAssumption DEF Types, TypeOK
<1>2. Len(unowned) >= MaxUnowned => unowned # <<>>
  BY <1>1, EmptySeq
<1>3. u \in Seq(Event) /\ Len(u) < MaxUnowned
  BY <1>1, <1>2, HeadTailProperties
<1>4. unowned' = Append(u, e)
  BY DEF Keep
<1> HIDE DEF u
<1>5. unowned' \in Seq(Event) /\ Len(unowned') = Len(u) + 1 /\ Len(u) \in Nat
  BY <1>3, <1>4, AppendProperties, LenProperties
<1>6. dropped' \subseteq Attempt
  BY DEF Keep, Types, TypeOK
<1>7. QED BY <1>1, <1>3, <1>5, <1>6

LEMMA TakeLiveTypes ==
  ASSUME Types, NEW e \in Event, NEW a \in attempts, TakeLive(a, e)
  PROVE  /\ applied' \in [Attempt -> Seq(Event)] /\ shown' \in [Attempt -> Seq(Event)]
         /\ settled' \subseteq attempts /\ acked' \subseteq attempts
         /\ notified' \subseteq Attempt
         /\ closing' \subseteq [by : Agents, of : Attempt, to : {"commit", "remove"}]
         /\ byNative' \in [Session -> attempts \cup {None}]
         /\ UNCHANGED <<attempts, byTurn, unowned, replay, waiter, dropped, strayed>>
<1>1. a \in Attempt
  BY DEF Types, TypeOK
<1>2. byNative' \in [Session -> attempts \cup {None}]
  BY DEF TakeLive, Types, TypeOK
<1>3. UNCHANGED <<attempts, byTurn, unowned, replay, waiter, dropped, strayed>>
  BY DEF TakeLive
<1>4. CASE e.kind = "echo"
  BY <1>2, <1>3, <1>4 DEF TakeLive, Types, TypeOK
<1>5. CASE e.kind # "echo"
  <2>1. <<e>> \in Seq(Event) /\ Apply(a, <<e>>)
    BY <1>5 DEF TakeLive
  <2>2. /\ applied' \in [Attempt -> Seq(Event)]
        /\ settled' \subseteq attempts /\ notified' \subseteq Attempt
    BY <2>1, ApplyTypes
  <2>3. shown' \in [Attempt -> Seq(Event)]
    <3>1. shown[a] \in Seq(Event) /\ shown' = [shown EXCEPT ![a] = Append(shown[a], e)]
      BY <1>1, <1>5 DEF TakeLive, Types, TypeOK
    <3>2. Append(shown[a], e) \in Seq(Event)
      BY <3>1, AppendProperties
    <3>3. QED BY <3>1, <3>2 DEF Types, TypeOK
  <2>4. closing' \subseteq [by : Agents, of : Attempt, to : {"commit", "remove"}]
    BY <1>1, <1>5 DEF TakeLive, Types, TypeOK, Agents
  <2>5. acked' = acked
    BY <1>5 DEF TakeLive
  <2>6. QED BY <1>2, <1>3, <2>2, <2>3, <2>4, <2>5 DEF Types, TypeOK
<1>6. QED BY <1>4, <1>5

LEMMA IngestTypes ==
  ASSUME Types, NEW e \in Event, Ingest(e),
         announced' \subseteq Codex \cup Plain, emitted' \in [Attempt -> Nat],
         turn' \in [Attempt -> Turns]
  PROVE  Types'
<1> DEFINE a == Owner(e, byTurn, byNative)
<1>1. UNCHANGED <<holds, step, committed, created>>
  BY DEF Ingest
<1>2. CASE a = None /\ Held(e)
  <2>1. Keep(e)
    BY <1>2 DEF Ingest
  <2>2. QED BY <1>1, <2>1, KeepTypes DEF Keep, Types, TypeOK, holds, index, replay, account,
                waits
<1>3. CASE a = None /\ ~Held(e)
  <2>1. PassBy(e)
    BY <1>3 DEF Ingest
  <2>2. QED BY <1>1, <2>1 DEF PassBy, Types, TypeOK, holds, index, replay, account, waits
<1>4. CASE a # None /\ a \in barrier
  <2>1. Queue(a, e) /\ a \in attempts /\ <<e>> \in Seq(Event)
    BY <1>4, OwnerIs DEF Ingest
  <2> HIDE DEF a
  <2>2. QueueBehind(a, <<e>>)
    BY <2>1 DEF Queue
  <2>3. /\ pending' \in [Attempt -> Seq(Event)]
        /\ \A b \in Attempt : b # a => pending'[b] = pending[b]
        /\ acked' \subseteq attempts
    BY <2>1, <2>2, QueueBehindTypes
  <2>4. QED BY <1>1, <1>4, <2>1, <2>3 DEF Queue, Types, TypeOK, holds, index, waits, history
<1>5. CASE a # None /\ a \notin barrier
  <2>1. TakeLive(a, e) /\ a \in attempts
    BY <1>5, OwnerIs DEF Ingest
  <2> HIDE DEF a
  <2>2. QED BY <1>1, <2>1, TakeLiveTypes DEF Types, TypeOK, holds, replay
<1>6. QED BY <1>2, <1>3, <1>4, <1>5

LEMMA EventIs ==
  ASSUME NEW o \in Attempt \cup Session \cup Plain, NEW n \in Nat,
         NEW kind \in {"started", "echo", "text", "end"}
  PROVE  /\ [of |-> o, n |-> n, kind |-> kind] \in Event
         /\ [of |-> o, n |-> n, kind |-> kind].of = o
         /\ [of |-> o, n |-> n, kind |-> kind].n = n
         /\ [of |-> o, n |-> n, kind |-> kind].kind = kind
BY DEF Event

LEMMA ReadTypes ==
  ASSUME Types, NEW a \in Attempt, Read(a)
  PROVE  Types'
<1>1. CASE ReadEcho(a)
  <2>1. [of |-> a, n |-> 0, kind |-> "echo"] \in Event
    BY EventIs
  <2>2. /\ Ingest([of |-> a, n |-> 0, kind |-> "echo"])
        /\ announced' = announced /\ emitted' = emitted
        /\ turn' = [turn EXCEPT ![a] = "echoed"]
    BY <1>1 DEF ReadEcho
  <2>3. /\ announced' \subseteq Codex \cup Plain /\ emitted' \in [Attempt -> Nat]
        /\ turn' \in [Attempt -> Turns]
    BY <2>2 DEF Types, Turns
  <2>4. QED BY <2>1, <2>2, <2>3, IngestTypes
<1>2. ASSUME NEW kind \in {"text", "end"}, ReadTurn(a, kind), turn' \in [Attempt -> Turns]
      PROVE  Types'
  <2> DEFINE e == [of |-> a, n |-> emitted[a] + 1, kind |-> kind]
  <2>1. e \in Event
    <3>1. emitted[a] + 1 \in Nat
      BY DEF Types
    <3>2. QED BY <3>1, EventIs
  <2>2. Ingest(e) /\ announced' = announced /\ emitted' = [emitted EXCEPT ![a] = @ + 1]
    BY <1>2 DEF ReadTurn
  <2>3. announced' \subseteq Codex \cup Plain /\ emitted' \in [Attempt -> Nat]
    BY <2>2 DEF Types
  <2> HIDE DEF e
  <2>4. QED BY <1>2, <2>1, <2>2, <2>3, IngestTypes
<1>3. CASE ReadText(a)
  BY <1>2, <1>3 DEF ReadText, Types
<1>4. CASE ReadEnd(a)
  <2>1. ReadTurn(a, "end") /\ turn' \in [Attempt -> Turns]
    BY <1>4 DEF ReadEnd, Types, Turns
  <2>2. QED BY <1>2, <2>1
<1>5. QED BY <1>1, <1>3, <1>4 DEF Read

LEMMA ReadStartTypes ==
  ASSUME Types, NEW s \in Codex \cup Plain, ReadStart(s)
  PROVE  Types'
<1>1. [of |-> s, n |-> 0, kind |-> "started"] \in Event
  BY EventIs, CoordinatorAssumption
<1>2. /\ Ingest([of |-> s, n |-> 0, kind |-> "started"])
      /\ announced' = announced \cup {s} /\ emitted' = emitted /\ turn' = turn
  BY DEF ReadStart
<1>3. QED BY <1>1, <1>2, IngestTypes DEF Types

-----------------------------------------------------------------------------
(* Events in line.                                                         *)

LEMMA InLineNumbers ==
  ASSUME NEW q \in Seq(Event), InLine(q), NEW i \in 1 .. Len(q)
  PROVE  q[i].n = q[1].n + i - 1
<1> DEFINE G == {k \in Nat : k + 1 \in 1 .. Len(q) => q[k + 1].n = q[1].n + k}
<1>1. Len(q) \in Nat /\ \A j \in 1 .. Len(q) : q[j].n \in Nat
  <2>1. \A j \in 1 .. Len(q) : q[j] \in Event
    BY ElementOfSeq
  <2>2. QED BY <2>1, LenProperties DEF Event
<1>2. 0 \in G
  BY <1>1
<1>3. ASSUME NEW k \in G
      PROVE  k + 1 \in G
  <2>1. CASE k + 2 \in 1 .. Len(q)
    <3>1. k + 1 \in 1 .. Len(q) /\ k + 1 \in 1 .. Len(q) - 1 /\ k + 1 + 1 = k + 2
      BY <1>1, <2>1
    <3>2. q[k + 2].n = q[k + 1].n + 1
      BY <3>1 DEF InLine
    <3>3. q[k + 1].n = q[1].n + k
      BY <3>1
    <3>4. q[1].n \in Nat
      BY <1>1, <3>1
    <3>5. k \in Nat
      OBVIOUS
    <3>6. q[k + 2].n = q[1].n + (k + 1)
      <4>1. \A x, y \in Nat : (x + y) + 1 = x + (y + 1)
        OBVIOUS
      <4>2. QED BY <3>2, <3>3, <3>4, <3>5, <4>1
    <3>7. QED BY <3>1, <3>5, <3>6
  <2>2. CASE k + 2 \notin 1 .. Len(q)
    BY <2>2
  <2>3. QED BY <2>1, <2>2
<1>4. G = Nat
  <2> HIDE DEF G
  <2>1. G \in SUBSET Nat
    BY DEF G
  <2>2. \A k \in G : k + 1 \in G
    BY <1>3
  <2>3. QED BY <1>2, <2>1, <2>2, NatSetInduction
<1>5. PICK k \in Nat : i = k + 1
  <2>1. i - 1 \in Nat /\ i = (i - 1) + 1
    BY <1>1
  <2>2. QED BY <2>1
<1>6. k \in G /\ k + 1 \in 1 .. Len(q)
  BY <1>4, <1>5
<1>7. q[i].n = q[1].n + k /\ q[1].n \in Nat
  <2>1. 1 \in 1 .. Len(q)
    BY <1>1
  <2>2. QED BY <1>1, <1>5, <1>6, <2>1
<1>8. QED BY <1>5, <1>7

\* The events of a turn that are in line have growing numbers.
LEMMA InLineGrows ==
  ASSUME NEW q \in Seq(Event), InLine(q), NEW i \in 1 .. Len(q), NEW j \in 1 .. Len(q)
  PROVE  q[j].n = q[i].n + (j - i) /\ q[i].n \in Nat /\ q[j].n \in Nat
<1>1. Len(q) \in Nat /\ q[i] \in Event /\ q[j] \in Event /\ q[1] \in Event
  BY LenProperties, ElementOfSeq
<1>2. q[i].n \in Nat /\ q[j].n \in Nat /\ q[1].n \in Nat
  BY <1>1 DEF Event
<1>3. q[i].n = q[1].n + i - 1 /\ q[j].n = q[1].n + j - 1
  BY InLineNumbers
<1>4. QED BY <1>1, <1>2, <1>3

LEMMA LastIs ==
  ASSUME NEW T, NEW q \in Seq(T), q # <<>>
  PROVE  Len(q) \in 1 .. Len(q) /\ Last(q) = q[Len(q)] /\ Last(q) \in T /\ 1 \in 1 .. Len(q)
<1>1. Len(q) \in Nat \ {0}
  BY EmptySeq
<1>2. QED BY <1>1, ElementOfSeq DEF Last

LEMMA InLineShort ==
  ASSUME NEW T, NEW q \in Seq(T), Len(q) <= 1
  PROVE  InLine(q)
BY LenProperties DEF InLine

LEMMA InLineAppend ==
  ASSUME NEW q \in Seq(Event), NEW e \in Event, InLine(q), q # <<>> => e.n = Last(q).n + 1
  PROVE  /\ InLine(Append(q, e)) /\ Last(Append(q, e)) = e
         /\ Append(q, e) # <<>> /\ Append(q, e)[1] = IF q = <<>> THEN e ELSE q[1]
<1> DEFINE r == Append(q, e)
<1>1. /\ Len(q) \in Nat /\ r \in Seq(Event) /\ Len(r) = Len(q) + 1 /\ r # <<>>
      /\ \A i \in 1 .. Len(q) : r[i] = q[i]
      /\ r[Len(q) + 1] = e
  BY AppendProperties, LenProperties
<1>2. q = <<>> => Len(q) = 0
  BY EmptySeq
<1>3. q # <<>> => Len(q) \in 1 .. Len(q) /\ Last(q) = q[Len(q)] /\ 1 \in 1 .. Len(q)
  BY LastIs
<1> HIDE DEF r
<1>4. ASSUME NEW i \in 1 .. Len(r) - 1
      PROVE  r[i + 1].n = r[i].n + 1
  <2>1. CASE i = Len(q)
    <3>1. Len(q) \in 1 .. Len(q) /\ q # <<>>
      BY <1>1, <1>2, <2>1
    <3>2. r[i] = q[Len(q)] /\ r[i + 1] = e
      BY <1>1, <2>1, <3>1
    <3>3. QED BY <1>3, <3>1, <3>2
  <2>2. CASE i # Len(q)
    <3>1. i \in 1 .. Len(q) - 1 /\ i \in 1 .. Len(q) /\ i + 1 \in 1 .. Len(q)
      BY <1>1, <2>2
    <3>2. r[i] = q[i] /\ r[i + 1] = q[i + 1]
      BY <1>1, <3>1
    <3>3. QED BY <3>1, <3>2 DEF InLine
  <2>3. QED BY <2>1, <2>2
<1>5. InLine(r)
  BY <1>4 DEF InLine
<1>6. Last(r) = e
  BY <1>1 DEF Last
<1>7. r[1] = IF q = <<>> THEN e ELSE q[1]
  BY <1>1, <1>2, <1>3
<1>8. QED BY <1>1, <1>5, <1>6, <1>7 DEF r

\* The parts of a sequence.
LEMMA ConcatIs ==
  ASSUME NEW T, NEW q \in Seq(T), NEW r \in Seq(T)
  PROVE  /\ q \o r \in Seq(T) /\ Len(q \o r) = Len(q) + Len(r)
         /\ Len(q) \in Nat /\ Len(r) \in Nat
         /\ \A i \in 1 .. Len(q) : (q \o r)[i] = q[i]
         /\ \A i \in 1 .. Len(r) : (q \o r)[Len(q) + i] = r[i]
<1>1. /\ Len(q) \in Nat /\ Len(r) \in Nat
      /\ q \o r \in Seq(T) /\ Len(q \o r) = Len(q) + Len(r)
      /\ \A i \in 1 .. Len(q) + Len(r) :
            (q \o r)[i] = IF i <= Len(q) THEN q[i] ELSE r[i - Len(q)]
  BY ConcatProperties, LenProperties
<1>2. ASSUME NEW i \in 1 .. Len(q)
      PROVE  (q \o r)[i] = q[i]
  BY <1>1
<1>3. ASSUME NEW i \in 1 .. Len(r)
      PROVE  (q \o r)[Len(q) + i] = r[i]
  <2>1. /\ Len(q) + i \in 1 .. Len(q) + Len(r) /\ ~(Len(q) + i <= Len(q))
        /\ (Len(q) + i) - Len(q) = i
    BY <1>1
  <2>2. QED BY <1>1, <2>1
<1>4. QED BY <1>1, <1>2, <1>3

LEMMA InLineParts ==
  ASSUME NEW T, NEW q \in Seq(T), NEW r \in Seq(T), InLine(q \o r)
  PROVE  InLine(q) /\ InLine(r)
<1> DEFINE u == q \o r
<1>1. /\ Len(u) = Len(q) + Len(r) /\ Len(q) \in Nat /\ Len(r) \in Nat
      /\ \A i \in 1 .. Len(q) : u[i] = q[i]
      /\ \A i \in 1 .. Len(r) : u[Len(q) + i] = r[i]
  BY ConcatIs
<1>2. \A i \in 1 .. Len(u) - 1 : u[i + 1].n = u[i].n + 1
  BY DEF InLine
<1> HIDE DEF u
<1>3. ASSUME NEW i \in 1 .. Len(q) - 1
      PROVE  q[i + 1].n = q[i].n + 1
  <2>1. i \in 1 .. Len(u) - 1 /\ i \in 1 .. Len(q) /\ i + 1 \in 1 .. Len(q)
    BY <1>1
  <2>2. QED BY <1>1, <1>2, <2>1
<1>4. ASSUME NEW i \in 1 .. Len(r) - 1
      PROVE  r[i + 1].n = r[i].n + 1
  <2>1. /\ Len(q) + i \in 1 .. Len(u) - 1 /\ i \in 1 .. Len(r) /\ i + 1 \in 1 .. Len(r)
        /\ (Len(q) + i) + 1 = Len(q) + (i + 1)
    BY <1>1
  <2>2. u[Len(q) + (i + 1)].n = u[Len(q) + i].n + 1
    BY <1>2, <2>1
  <2>3. u[Len(q) + (i + 1)] = r[i + 1] /\ u[Len(q) + i] = r[i]
    BY <1>1, <2>1
  <2>4. QED BY <2>2, <2>3
<1>5. QED BY <1>3, <1>4 DEF InLine

LEMMA InLineTail ==
  ASSUME NEW T, NEW q \in Seq(T), q # <<>>, InLine(q)
  PROVE  InLine(Tail(q))
<1>1. /\ Tail(q) \in Seq(T) /\ Len(Tail(q)) = Len(q) - 1 /\ Len(q) \in Nat
      /\ \A i \in 1 .. Len(Tail(q)) : Tail(q)[i] = q[i + 1]
  BY HeadTailProperties, LenProperties
<1>2. ASSUME NEW i \in 1 .. Len(Tail(q)) - 1
      PROVE  Tail(q)[i + 1].n = Tail(q)[i].n + 1
  <2>1. /\ i \in 1 .. Len(Tail(q)) /\ i + 1 \in 1 .. Len(Tail(q))
        /\ i + 1 \in 1 .. Len(q) - 1
    BY <1>1
  <2>2. Tail(q)[i] = q[i + 1] /\ Tail(q)[i + 1] = q[(i + 1) + 1]
    BY <1>1, <2>1
  <2>3. QED BY <2>1, <2>2 DEF InLine
<1>3. QED BY <1>2 DEF InLine

-----------------------------------------------------------------------------
(* What an attempt is told.                                                *)

LEMMA TellsNumbers ==
  ASSUME NEW q \in Seq(Event), NEW n \in Nat, NEW lost, Tells(q, n, lost),
         NEW i \in 1 .. Len(q)
  PROVE  q[i].n = n - (Len(q) - i) /\ q[i].n \in Nat /\ q[i].n <= n
<1>1. q # <<>> /\ Len(q) \in Nat
  BY EmptySeq, LenProperties
<1>2. Len(q) \in 1 .. Len(q) /\ Last(q) = q[Len(q)]
  BY <1>1, LastIs
<1>3. q[Len(q)].n = n /\ InLine(q)
  BY <1>1, <1>2 DEF Tells
<1>4. q[Len(q)].n = q[i].n + (Len(q) - i) /\ q[i].n \in Nat
  BY <1>2, <1>3, InLineGrows
<1>5. QED BY <1>1, <1>3, <1>4

\* The next event of a turn.
LEMMA TellsAppend ==
  ASSUME NEW q \in Seq(Event), NEW n \in Nat, NEW lost \in BOOLEAN, Tells(q, n, lost),
         NEW e \in Event, e.n = n + 1
  PROVE  Tells(Append(q, e), n + 1, lost)
<1>1. q # <<>> => e.n = Last(q).n + 1
  BY DEF Tells
<1>2. /\ InLine(Append(q, e)) /\ Last(Append(q, e)) = e
      /\ Append(q, e) # <<>> /\ Append(q, e)[1] = IF q = <<>> THEN e ELSE q[1]
  BY <1>1, InLineAppend DEF Tells
<1>3. ~lost => Append(q, e)[1].n <= 1
  <2>1. CASE q = <<>>
    <3>1. ~lost => n = 0
      BY <2>1 DEF Tells
    <3>2. QED BY <1>2, <2>1, <3>1
  <2>2. CASE q # <<>>
    <3>1. 1 \in 1 .. Len(q)
      BY <2>2, LastIs
    <3>2. q[1].n \in Nat /\ q[1].n <= n
      BY <3>1, TellsNumbers
    <3>3. ~lost => q[1].n <= 1
      BY <3>2 DEF Tells
    <3>4. QED BY <1>2, <2>2, <3>3
  <2>3. QED BY <2>1, <2>2
<1>4. QED BY <1>2, <1>3 DEF Tells

\* Losing the first.
LEMMA TellsTail ==
  ASSUME NEW q \in Seq(Event), q # <<>>, NEW n \in Nat, NEW lost \in BOOLEAN,
         Tells(q, n, lost), NEW more \in BOOLEAN, more \/ (q[1].n = 0 /\ more = lost)
  PROVE  Tells(Tail(q), n, more)
<1> DEFINE t == Tail(q)
<1>1. /\ t \in Seq(Event) /\ Len(t) = Len(q) - 1 /\ Len(q) \in Nat
      /\ \A i \in 1 .. Len(t) : t[i] = q[i + 1]
  BY HeadTailProperties, LenProperties
<1>2. InLine(t)
  BY InLineTail DEF Tells
<1> HIDE DEF t
<1>3. Len(q) \in 1 .. Len(q) /\ Last(q) = q[Len(q)] /\ 1 \in 1 .. Len(q) /\ q[Len(q)].n = n
  BY LastIs DEF Tells
<1>4. ASSUME t # <<>>
      PROVE  Last(t) = q[Len(q)] /\ t[1] = q[2] /\ Len(q) >= 2
  <2>1. Len(t) \in 1 .. Len(t) /\ Last(t) = t[Len(t)] /\ 1 \in 1 .. Len(t)
    BY <1>1, <1>4, LastIs
  <2>2. Len(t) + 1 = Len(q) /\ 1 + 1 = 2 /\ Len(q) >= 2
    BY <1>1, <2>1
  <2>3. t[Len(t)] = q[Len(t) + 1] /\ t[1] = q[1 + 1]
    BY <1>1, <2>1
  <2>4. QED BY <2>1, <2>2, <2>3
<1>5. ASSUME ~more, n > 0
      PROVE  t # <<>> /\ t[1].n <= 1
  <2>1. q[1].n = 0 /\ q[1].n = n - (Len(q) - 1)
    BY <1>3, <1>5, TellsNumbers
  <2>2. Len(q) >= 2
    BY <1>1, <1>5, <2>1
  <2>3. t # <<>>
    BY <1>1, <2>2, EmptySeq
  <2>4. 2 \in 1 .. Len(q)
    BY <1>1, <2>2
  <2>5. q[2].n = n - (Len(q) - 2)
    BY <2>4, TellsNumbers
  <2>6. q[2].n = 1
    BY <1>1, <2>1, <2>5
  <2>7. QED BY <1>4, <2>3, <2>6
<1>6. QED BY <1>2, <1>3, <1>4, <1>5 DEF Tells, t

LEMMA TellsNothing ==
  ASSUME NEW lost \in BOOLEAN, NEW n \in Nat, lost \/ n = 0
  PROVE  Tells(<<>>, n, lost)
<1>1. <<>> \in Seq(Event) /\ Len(<<>>) <= 1
  BY EmptySeq
<1>2. InLine(<<>>)
  BY <1>1, InLineShort
<1>3. QED BY <1>2 DEF Tells

LEMMA TellsStart ==
  ASSUME NEW e \in Event, e.n = 0, NEW lost \in BOOLEAN
  PROVE  Tells(<<e>>, 0, lost)
<1>1. <<e>> \in Seq(Event) /\ Len(<<e>>) = 1 /\ <<e>>[1] = e
  OBVIOUS
<1>2. InLine(<<e>>)
  BY <1>1 DEF InLine
<1>3. QED BY <1>1, <1>2 DEF Tells, Last

\* Only the start of a session, which has no number, is let go.
LEMMA TellsFilter ==
  ASSUME NEW q \in Seq(Event), NEW n \in Nat, NEW lost \in BOOLEAN, Tells(q, n, lost),
         NEW S, \A i \in 1 .. Len(q) : q[i] \in S \/ q[i].n = 0
  PROVE  Tells(Filter(q, S), n, lost)
<1>1. CASE q = <<>>
  BY <1>1, FilterEmpty
<1>2. CASE q # <<>>
  <2> DEFINE t == Tail(q)
             h == Head(q)
  <2>1. /\ t \in Seq(Event) /\ Len(t) = Len(q) - 1 /\ Len(q) \in Nat \ {0}
        /\ \A i \in 1 .. Len(t) : t[i] = q[i + 1]
        /\ h = q[1] /\ h \in Event /\ q = <<h>> \o t
    <3>1. q = <<h>> \o t /\ h = q[1]
      BY <1>2
    <3>2. QED BY <1>2, <3>1, HeadTailProperties, EmptySeq
  <2>2. Filter(q, S) = IF h \in S THEN <<h>> \o Filter(t, S) ELSE Filter(t, S)
    BY <1>2, FilterTail
  <2>3. Filter(t, S) = t
    <3> HIDE DEF t
    <3>1. ASSUME NEW i \in 1 .. Len(t)
          PROVE  t[i] \in S
      <4>1. i + 1 \in 1 .. Len(q) /\ 1 \in 1 .. Len(q)
        BY <2>1
      <4>2. q[i + 1].n = q[1].n + ((i + 1) - 1) /\ q[1].n \in Nat
        BY <4>1, InLineGrows DEF Tells
      <4>3. q[i + 1].n # 0
        BY <4>2
      <4>4. QED BY <2>1, <4>1, <4>3
    <3>2. Filter(t, S) = Filter(t, Event)
      <4>1. \A i \in 1 .. Len(t) : t[i] \in S <=> t[i] \in Event
        BY <2>1, <3>1, ElementOfSeq
      <4>2. QED BY <2>1, <4>1, FilterSame
    <3>3. QED BY <2>1, <3>2, FilterAll
  <2>4. CASE h \in S
    BY <2>1, <2>2, <2>3, <2>4
  <2>5. CASE h \notin S
    <3>1. 1 \in 1 .. Len(q)
      BY <2>1
    <3>2. q[1].n = 0
      BY <2>1, <2>5, <3>1
    <3>3. Tells(t, n, lost)
      BY <1>2, <3>2, TellsTail
    <3>4. QED BY <2>2, <2>3, <2>5, <3>3
  <2>6. QED BY <2>4, <2>5
<1>3. QED BY <1>1, <1>2

-----------------------------------------------------------------------------
(* What the invariant says of an event, and of the line of an attempt.     *)

LEMMA OwnerOf ==
  ASSUME Types, Indexed, NEW e \in Event, e.kind = "started" => e.of \notin Attempt,
         Owner(e, byTurn, byNative) # None
  PROVE  /\ Owner(e, byTurn, byNative) \in byTurn
         /\ HasTurn(e) => Owner(e, byTurn, byNative) = e.of
         /\ ~HasTurn(e) => /\ e.of \in Session /\ byNative[e.of] = Owner(e, byTurn, byNative)
                           /\ SessionOf[Owner(e, byTurn, byNative)] = e.of
<1> DEFINE o == Owner(e, byTurn, byNative)
<1>1. byTurn \subseteq attempts /\ attempts \subseteq Attempt /\ None \notin attempts
  BY NoneIsNoAttempt DEF Types, TypeOK
<1>2. \A s \in Session : byNative[s] # None => byNative[s] \in byTurn
                                              /\ SessionOf[byNative[s]] = s
  BY DEF Indexed
<1>3. CASE HasTurn(e) /\ e.of \in byTurn
  BY <1>3 DEF Owner
<1>4. CASE ~(HasTurn(e) /\ e.of \in byTurn)
  <2>1. /\ NativeOf(e) \in Session /\ byNative[NativeOf(e)] \in attempts
        /\ ~(HasTurn(e) /\ byNative[NativeOf(e)] \in byTurn)
        /\ o = byNative[NativeOf(e)]
    BY <1>4 DEF Owner
  <2>2. o \in byTurn /\ SessionOf[o] = NativeOf(e)
    BY <1>1, <1>2, <2>1
  <2>3. ~HasTurn(e)
    BY <2>1, <2>2
  <2>4. NativeOf(e) = e.of
    BY <2>3 DEF NativeOf, HasTurn
  <2>5. QED BY <2>1, <2>2, <2>3, <2>4
<1>5. QED BY <1>3, <1>4

\* The fields of an event that an attempt is told.
LEMMA HeardIs ==
  ASSUME Types, NEW a \in Attempt, NEW e \in Heard(a)
  PROVE  /\ e \in Event /\ e.n \in Nat /\ e.kind \in {"started", "text", "end"}
         /\ e.kind = "started" => e.of = SessionOf[a] /\ e.n = 0 /\ e.of \in announced
         /\ e.kind # "started" => e.of = a
         /\ committed[a].by # "dispatch" =>
              /\ e.kind = "text" => e.n \in 1 .. emitted[a] - Ended(a)
              /\ e.kind = "end" => e.n \in emitted[a] - Ended(a) + 1 .. emitted[a]
<1>1. e \in Event /\ e \in Stream(a) /\ e \in Emitted
  BY DEF Heard, Emitted
<1>2. e.n \in Nat /\ e.kind \in {"started", "echo", "text", "end"}
  BY <1>1 DEF Event
<1>3. \/ e.of = a /\ e.kind \in {"text", "end"}
      \/ e.of = SessionOf[a] /\ e.kind = "started"
  BY <1>1 DEF Stream
<1>4. SessionOf[a] \in Session /\ SessionOf[a] \notin Attempt
  BY CoordinatorAssumption
<1>5. CASE e.of = a /\ e.kind \in {"text", "end"}
  BY <1>1, <1>2, <1>5 DEF Emitted
<1>6. CASE e.of = SessionOf[a] /\ e.kind = "started"
  BY <1>1, <1>2, <1>4, <1>6 DEF Emitted
<1>7. QED BY <1>3, <1>5, <1>6

\* Which numbers they have.
LEMMA HeardNumbers ==
  ASSUME Types, Lives, NEW a \in Attempt, committed[a].by # "dispatch", NEW e \in Heard(a)
  PROVE  /\ e.n \in Nat /\ e.n <= emitted[a]
         /\ e.n = 0 <=> e.kind = "started"
         /\ Ends(e) => Over(a) /\ e.n > emitted[a] - Ended(a)
         /\ e.kind = "text" => e.n <= emitted[a] - Ended(a)
         /\ emitted[a] \in Nat /\ Ended(a) \in 0 .. 2 /\ Ended(a) <= emitted[a]
<1>1. emitted[a] \in Nat /\ Ended(a) \in 0 .. 2 /\ Ended(a) <= emitted[a]
  BY DEF Types, Lives, LifeOf, Ended
<1>2. /\ e.n \in Nat /\ e.kind \in {"started", "text", "end"}
      /\ e.kind = "started" => e.n = 0
      /\ e.kind = "text" => e.n \in 1 .. emitted[a] - Ended(a)
      /\ e.kind = "end" => e.n \in emitted[a] - Ended(a) + 1 .. emitted[a]
  BY HeardIs
<1>3. Ended(a) # 0 => Over(a)
  BY DEF Ended, Over
<1>4. QED BY <1>1, <1>2, <1>3 DEF Ends

\* An attempt that goes on was not refused.
LEMMA GoesOn ==
  ASSUME Types, Lives, NEW a \in Attempt, a \in attempts \/ step[a] = "none"
  PROVE  committed[a].by # "dispatch"
BY DEF Lives, LifeOf

\* Nothing is heard on a thread whose start was not announced.
LEMMA Unheard ==
  ASSUME Types, Lives, NEW a \in Attempt, committed[a].by # "dispatch",
         SessionOf[a] \in Codex \ announced
  PROVE  emitted[a] = 0 /\ Heard(a) = {}
<1>1. emitted[a] = 0
  BY DEF Types, Lives, LifeOf
<1>2. ASSUME NEW e \in Heard(a)
      PROVE  FALSE
  <2>1. e.kind = "started" => e.of \in announced /\ e.of = SessionOf[a]
    BY HeardIs
  <2>2. e.kind # "started"
    BY <2>1
  <2>3. e.n \in Nat /\ e.n <= emitted[a] /\ (e.n = 0 <=> e.kind = "started")
    BY HeardNumbers
  <2>4. QED BY <1>1, <2>2, <2>3
<1>3. QED BY <1>1, <1>2

LEMMA HeardEvents ==
  ASSUME NEW a
  PROVE  Heard(a) \subseteq Event /\ Stream(a) \subseteq Event /\ Emitted \subseteq Event
         /\ Heard(a) \subseteq Stream(a)
BY DEF Heard, Stream, Emitted

\* The line of an attempt: what it waits for while its turn is not bound, what
\* it took and what is behind its barrier from then on.
LEMMA LineIs ==
  ASSUME Types, Lives, Contents, NEW a \in Attempt
  PROVE  /\ applied[a] \in Seq(Heard(a)) /\ pending[a] \in Seq(Heard(a))
         /\ Filter(unowned, Stream(a)) \in Seq(Heard(a))
         /\ Line(a) \in Seq(Heard(a)) /\ Line(a) \in Seq(Event)
         /\ a \in byTurn => Filter(unowned, Stream(a)) = <<>>
                            /\ Line(a) = applied[a] \o pending[a]
         /\ a \notin byTurn => /\ applied[a] = <<>> /\ pending[a] = <<>>
                               /\ Line(a) = Filter(unowned, Stream(a))
<1> DEFINE f == Filter(unowned, Stream(a))
           x == applied[a]
           y == pending[a]
<1>1. x \in Seq(Heard(a)) /\ y \in Seq(Heard(a))
  BY DEF Contents
<1>2. f \in Seq(Heard(a))
  <2>1. f \in Seq(Emitted \cap Stream(a))
    BY FilterType DEF Contents
  <2>2. Emitted \cap Stream(a) = Heard(a)
    BY DEF Heard
  <2>3. QED BY <2>1, <2>2
<1>3. a \in byTurn => f = <<>>
  <2>1. SUFFICES ASSUME a \in byTurn PROVE f = <<>>
    OBVIOUS
  <2>2. unowned \in Seq(Emitted) /\ \A i \in 1 .. Len(unowned) : unowned[i] \notin Stream(a)
    BY <2>1, LenProperties DEF Contents
  <2>3. QED BY <2>2, FilterNone
<1>4. a \notin byTurn => x = <<>> /\ y = <<>>
  BY DEF Lives, LifeOf, Types, TypeOK
<1>5. Line(a) = (x \o y) \o f
  BY DEF Line
<1> HIDE DEF f, x, y
<1>6. x \o y \in Seq(Heard(a)) /\ (x \o y) \o f \in Seq(Heard(a))
  BY <1>1, <1>2, ConcatProperties
<1>7. (x \o y) \o <<>> = x \o y
  <2> DEFINE z == x \o y
  <2>1. z \in Seq(Heard(a))
    BY <1>6
  <2> HIDE DEF z
  <2>2. z \o <<>> = z
    BY <2>1, ConcatEmptySeq
  <2>3. QED BY <2>2 DEF z
<1>8. (<<>> \o <<>>) \o f = f
  <2>1. <<>> \o <<>> = <<>>
    OBVIOUS
  <2>2. <<>> \o f = f
    BY <1>2, ConcatEmptySeq
  <2>3. QED BY <2>1, <2>2
<1>9. Line(a) \in Seq(Event)
  BY <1>5, <1>6, HeardEvents, SeqMonotonic
<1>10. QED BY <1>1, <1>2, <1>3, <1>4, <1>5, <1>6, <1>7, <1>8, <1>9 DEF f, x, y

\* An attempt whose turn said nothing has a line of starts.
LEMMA NothingSaid ==
  ASSUME Types, Lives, NEW a \in Attempt, committed[a].by # "dispatch", emitted[a] = 0,
         NEW e \in Heard(a)
  PROVE  e.n = 0
BY HeardNumbers

-----------------------------------------------------------------------------
(* What a step that is not about it leaves alone.                          *)

told == <<attempts, byTurn, byNative, held, provisioning, unowned, pending, applied,
          settled, committed, announced, emitted, turn, shown, dropped, strayed>>

LEMMA StillTold ==
  ASSUME IInv, UNCHANGED told, \A a \in Attempt : step'[a] = "none" <=> step[a] = "none"
  PROVE  Indexed' /\ Alone' /\ Contents' /\ Lines' /\ Shown' /\ Settlements'
         /\ KeptEventsAreOnHold'
<1>1. Indexed'
  BY DEF IInv, told, Indexed
<1>2. Alone'
  BY DEF IInv, told, Alone
<1>3. Emitted' = Emitted /\ \A a \in Attempt : Stream(a)' = Stream(a)
  BY DEF told, Emitted, Stream, Ended
<1>4. \A a \in Attempt : Heard(a)' = Heard(a) /\ Line(a)' = Line(a)
  BY <1>3 DEF Heard, Line, told
<1>5. Contents'
  BY <1>3, <1>4 DEF IInv, told, Contents
<1>6. Lines'
  BY <1>4 DEF IInv, told, Lines
<1>7. Shown'
  BY <1>4 DEF IInv, told, Shown
<1>8. Settlements'
  BY <1>4 DEF IInv, told, Settlements
<1>9. KeptEventsAreOnHold'
  BY DEF IInv, told, KeptEventsAreOnHold, Held, ExactlyHeld, ProvisioningHeld, NativeOf, Scope
<1>10. QED BY <1>1, <1>2, <1>5, <1>6, <1>7, <1>8, <1>9

\* The events that were read stay read.
LEMMA EmittedGrows ==
  ASSUME Types, announced \subseteq announced', emitted' \in [Attempt -> Nat],
         \A a \in Attempt : committed'[a].by # "dispatch" =>
           /\ committed[a].by # "dispatch"
           /\ emitted[a] <= emitted'[a]
           /\ emitted[a] - Ended(a) <= emitted'[a] - Ended(a)'
           /\ Ended(a) = 0 \/ emitted'[a] - Ended(a)' = emitted[a] - Ended(a)
  PROVE  /\ Emitted \subseteq Emitted'
         /\ \A a \in Attempt : Heard(a) \subseteq Heard(a)' /\ Stream(a)' = Stream(a)
<1>1. ASSUME NEW e \in Emitted, e.of \in Attempt
      PROVE  e \in Emitted'
  <2> DEFINE a == e.of
             x == emitted[a] - Ended(a)
             z == emitted'[a] - Ended(a)'
  <2>1. /\ emitted[a] \in Nat /\ emitted'[a] \in Nat
        /\ Ended(a) \in 0 .. 2 /\ Ended(a)' \in 0 .. 2
    BY <1>1 DEF Types, Ended
  <2>2. /\ e \in Event /\ e.kind # "started" /\ (e.kind = "echo" => e.n = 0)
        /\ committed[a].by # "dispatch" =>
             /\ e.kind = "text" => e.n \in 1 .. x
             /\ e.kind = "end" => e.n \in x + 1 .. emitted[a]
    BY <1>1 DEF Emitted
  <2>3. ASSUME committed'[a].by # "dispatch"
        PROVE  /\ e.kind = "text" => e.n \in 1 .. z
               /\ e.kind = "end" => e.n \in z + 1 .. emitted'[a]
    <3>1. /\ committed[a].by # "dispatch" /\ emitted[a] <= emitted'[a] /\ x <= z
          /\ Ended(a) = 0 \/ z = x
      BY <1>1, <2>3
    <3>2. x \in Int /\ z \in Int /\ (Ended(a) = 0 => x = emitted[a])
      BY <2>1
    <3> HIDE DEF x, z, a
    <3>3. e.kind = "text" => e.n \in 1 .. z
      BY <2>2, <3>1, <3>2
    <3>4. e.kind = "end" => e.n \in z + 1 .. emitted'[a]
      BY <2>1, <2>2, <3>1, <3>2
    <3>5. QED BY <3>3, <3>4
  <2>4. QED BY <1>1, <2>2, <2>3 DEF Emitted
<1>2. ASSUME NEW e \in Emitted, e.of \notin Attempt
      PROVE  e \in Emitted'
  BY <1>2 DEF Emitted
<1>3. \A a \in Attempt : Stream(a)' = Stream(a)
  BY DEF Stream
<1>4. QED BY <1>1, <1>2, <1>3 DEF Heard

-----------------------------------------------------------------------------
(* The steps of a dispatch that tell nobody anything, and the waiters.     *)

Rest == Indexed /\ Lives /\ Alone /\ Contents /\ Lines /\ Shown /\ Settlements
          /\ KeptEventsAreOnHold /\ WaitersAreWoken

LEMMA ThreadStartsKeeps ==
  ASSUME IInv, NEW a \in Attempt, ThreadStarts(a)
  PROVE  Rest'
<1>1. UNCHANGED told /\ UNCHANGED <<barrier, waiter, notified, closing>>
  BY DEF ThreadStarts, told, index, holds, replay, account, waits, ends, history
<1>2. step[a] = "starting" /\ step' = [step EXCEPT ![a] = "materialized"]
  BY DEF ThreadStarts, Goes
<1>3. Lives'
  BY <1>1, <1>2 DEF told, IInv, Types, Lives, LifeOf, Closes, Over, Ended, Open
<1>4. WaitersAreWoken'
  BY <1>1 DEF told, IInv, WaitersAreWoken
<1>5. \A b \in Attempt : step'[b] = "none" <=> step[b] = "none"
  BY <1>2 DEF IInv, Types
<1>6. QED BY <1>1, <1>3, <1>4, <1>5, StillTold DEF Rest

LEMMA AmbiguousKeeps ==
  ASSUME IInv, NEW a \in Attempt, Ambiguous(a)
  PROVE  Rest'
<1>1. UNCHANGED told /\ UNCHANGED <<barrier, waiter, notified, closing>>
  BY DEF Ambiguous, told, index, holds, replay, account, waits, ends, engine, history
<1>2. step[a] # "none" /\ step' = [step EXCEPT ![a] = "failed"]
  BY DEF Ambiguous, Goes
<1>3. Lives'
  BY <1>1, <1>2 DEF told, IInv, Types, Lives, LifeOf, Closes, Over, Ended, Open
<1>4. WaitersAreWoken'
  BY <1>1 DEF told, IInv, WaitersAreWoken
<1>5. \A b \in Attempt : step'[b] = "none" <=> step[b] = "none"
  BY <1>2 DEF IInv, Types
<1>6. QED BY <1>1, <1>3, <1>4, <1>5, StillTold DEF Rest

LEMMA ContextIsAcknowledgedKeeps ==
  ASSUME IInv, NEW a \in Attempt, ContextIsAcknowledged(a)
  PROVE  Rest'
<1>1. UNCHANGED told /\ UNCHANGED <<barrier, waiter, notified, closing>>
  BY DEF ContextIsAcknowledged, told, index, holds, replay, account, waits, ends, engine, history
<1>2. step[a] = "bound" /\ step' = [step EXCEPT ![a] = "acknowledged"]
  BY DEF ContextIsAcknowledged, Goes
<1>3. Lives'
  BY <1>1, <1>2 DEF told, IInv, Types, Lives, LifeOf, Closes, Over, Ended, Open
<1>4. WaitersAreWoken'
  BY <1>1 DEF told, IInv, WaitersAreWoken
<1>5. \A b \in Attempt : step'[b] = "none" <=> step[b] = "none"
  BY <1>2 DEF IInv, Types
<1>6. QED BY <1>1, <1>3, <1>4, <1>5, StillTold DEF Rest

LEMMA AcceptKeeps ==
  ASSUME IInv, NEW a \in Attempt, Accept(a)
  PROVE  Rest'
<1>1. UNCHANGED told /\ UNCHANGED <<barrier, waiter, notified, closing>>
  BY DEF Accept, told, index, holds, replay, account, waits, ends, engine, history
<1>2. step[a] = "acknowledged" /\ step' = [step EXCEPT ![a] = "accepted"]
  BY DEF Accept, Goes
<1>3. Lives'
  BY <1>1, <1>2 DEF told, IInv, Types, Lives, LifeOf, Closes, Over, Ended, Open
<1>4. WaitersAreWoken'
  BY <1>1 DEF told, IInv, WaitersAreWoken
<1>5. \A b \in Attempt : step'[b] = "none" <=> step[b] = "none"
  BY <1>2 DEF IInv, Types
<1>6. QED BY <1>1, <1>3, <1>4, <1>5, StillTold DEF Rest

LEMMA ClearBarrierKeeps ==
  ASSUME IInv, NEW a \in Attempt, ClearBarrier(a)
  PROVE  Rest'
<1>1. UNCHANGED told /\ UNCHANGED <<waiter, notified, closing>> /\ barrier' = barrier \ {a}
  BY DEF ClearBarrier, told, index, holds, account, waits, ends, engine, history
<1>2. step[a] = "accepted" /\ step' = [step EXCEPT ![a] = "done"]
  BY DEF ClearBarrier, Goes
<1>3. Lives'
  BY <1>1, <1>2 DEF told, IInv, Types, Lives, LifeOf, Closes, Over, Ended, Open
<1>4. WaitersAreWoken'
  BY <1>1 DEF told, IInv, WaitersAreWoken
<1>5. \A b \in Attempt : step'[b] = "none" <=> step[b] = "none"
  BY <1>2 DEF IInv, Types
<1>6. QED BY <1>1, <1>3, <1>4, <1>5, StillTold DEF Rest

\* A waiter that finds a settled attempt closes it.
LEMMA WaitKeeps ==
  ASSUME IInv, NEW a \in Attempt, Wait(a)
  PROVE  Rest'
<1>1. UNCHANGED told /\ UNCHANGED <<barrier, step>>
  BY DEF Wait, AwaitSettlement, Listen, LookAgain, told, index, holds, replay, account, ends,
         engine, history
<1>2. \/ closing' = closing
      \/ a \in settled /\ closing' = closing \cup {[by |-> "waiter", of |-> a, to |-> "commit"]}
  BY DEF Wait, AwaitSettlement, Listen, LookAgain, Looks, ends
<1>3. Lives'
  <2>1. a \in settled => a \in attempts
    BY DEF IInv, Types, TypeOK
  <2>2. CASE closing' = closing
    BY <1>1, <2>2 DEF told, IInv, Types, Lives, LifeOf, Closes, Over, Ended, Open
  <2>3. CASE a \in settled /\ closing' = closing \cup {[by |-> "waiter", of |-> a, to |-> "commit"]}
    <3> DEFINE c == [by |-> "waiter", of |-> a, to |-> "commit"]
    <3>1. c.of = a /\ c.to = "commit"
      OBVIOUS
    <3>2. Over(a) /\ step[a] # "none"
      BY <2>1, <2>3 DEF IInv, Lives, LifeOf, Closes
    <3>3. closing' = closing \cup {c}
      BY <2>3
    <3> HIDE DEF c
    <3>4. QED BY <1>1, <2>3, <3>1, <3>2, <3>3
          DEF told, IInv, Types, Lives, LifeOf, Closes, Over, Ended, Open
  <2>4. QED BY <1>2, <2>2, <2>3
<1>4. WaitersAreWoken'
  <2>1. CASE AwaitSettlement(a)
    BY <1>1, <2>1 DEF AwaitSettlement, Looks, Waits, told, IInv, Types, WaitersAreWoken
  <2>2. CASE Listen(a)
    BY <1>1, <2>2 DEF Listen, Waits, told, IInv, Types, WaitersAreWoken
  <2>3. CASE LookAgain(a)
    BY <1>1, <2>3 DEF LookAgain, Looks, Waits, told, IInv, Types, WaitersAreWoken
  <2>4. QED BY <2>1, <2>2, <2>3 DEF Wait
<1>5. QED BY <1>1, <1>3, <1>4, StillTold DEF Rest

-----------------------------------------------------------------------------
(* Opening and closing a hold.                                             *)

\* Retaining some of the kept events retains some of what an attempt waits for.
LEMMA RetainedIs ==
  ASSUME Types, NEW a, NEW S
  PROVE  Filter(Filter(unowned, S), Stream(a)) = Filter(Filter(unowned, Stream(a)), S)
<1> DEFINE R == Stream(a)
<1>1. unowned \in Seq(Event)
  BY DEF Types, TypeOK
<1> HIDE DEF R
<1>2. Filter(Filter(unowned, S), R) = Filter(unowned, S \cap R)
  BY <1>1, FilterFilter
<1>3. Filter(Filter(unowned, R), S) = Filter(unowned, R \cap S)
  BY <1>1, FilterFilter
<1>4. S \cap R = R \cap S
  OBVIOUS
<1>5. QED BY <1>2, <1>3, <1>4 DEF R

\* What an attempt is told stays in line when a start is let go.
LEMMA LetGo ==
  ASSUME IInv, NEW a \in Attempt \ (settled \cup strayed), a \in attempts \/ step[a] = "none",
         NEW S, \A i \in DOMAIN unowned :
                  unowned[i] \in Stream(a) => unowned[i] \in S \/ unowned[i].n = 0
  PROVE  Tells(applied[a] \o pending[a] \o Filter(Filter(unowned, S), Stream(a)),
               emitted[a], a \in dropped)
<1> DEFINE f == Filter(unowned, Stream(a))
           g == Filter(f, S)
<1>1. Filter(Filter(unowned, S), Stream(a)) = g
  BY RetainedIs DEF IInv
<1>2. /\ f \in Seq(Heard(a)) /\ Line(a) \in Seq(Event)
      /\ a \in byTurn => f = <<>> /\ Line(a) = applied[a] \o pending[a]
      /\ a \notin byTurn => applied[a] = <<>> /\ pending[a] = <<>> /\ Line(a) = f
      /\ applied[a] \in Seq(Heard(a)) /\ pending[a] \in Seq(Heard(a))
  BY LineIs DEF IInv
<1>3. Tells(Line(a), emitted[a], a \in dropped) /\ emitted[a] \in Nat
  BY DEF IInv, Lines, Types
<1>4. CASE a \in byTurn
  <2>1. g = <<>>
    BY <1>2, <1>4, FilterEmpty
  <2>2. (applied[a] \o pending[a]) \o <<>> = applied[a] \o pending[a]
    <3> DEFINE z == applied[a] \o pending[a]
    <3>1. z \in Seq(Event)
      BY <1>2, <1>4
    <3> HIDE DEF z
    <3>2. z \o <<>> = z
      BY <3>1, ConcatEmptySeq
    <3>3. QED BY <3>2 DEF z
  <2>3. QED BY <1>1, <1>2, <1>3, <1>4, <2>1, <2>2
<1>5. CASE a \notin byTurn
  <2>1. \A i \in 1 .. Len(f) : f[i] \in S \/ f[i].n = 0
    <3>1. unowned \in Seq(Event)
      BY DEF IInv, Types, TypeOK
    <3>2. ASSUME NEW i \in 1 .. Len(f)
          PROVE  f[i] \in S \/ f[i].n = 0
      <4>1. i \in DOMAIN f
        BY <1>2, LenProperties
      <4>2. f[i] \in Stream(a) /\ \E j \in DOMAIN unowned : unowned[j] = f[i]
        BY <3>1, <4>1, FilterFrom
      <4>3. QED BY <4>2
    <3>3. QED BY <3>2
  <2>2. f \in Seq(Event) /\ Tells(f, emitted[a], a \in dropped)
    BY <1>2, <1>3, <1>5
  <2>3. Tells(g, emitted[a], a \in dropped)
    <3> HIDE DEF f
    <3>1. (a \in dropped) \in BOOLEAN
      OBVIOUS
    <3>2. QED BY <1>3, <2>1, <2>2, <3>1, TellsFilter
  <2>4. g \in Seq(Event)
    <3> HIDE DEF f
    <3>1. g \in Seq(Event \cap S)
      BY <2>2, FilterType
    <3>2. QED BY <3>1, SeqMonotonic
  <2>5. (<<>> \o <<>>) \o g = g
    <3> HIDE DEF g
    <3>1. <<>> \o <<>> = <<>>
      OBVIOUS
    <3>2. <<>> \o g = g
      BY <2>4, ConcatEmptySeq
    <3>3. QED BY <3>1, <3>2
  <2>6. QED BY <1>1, <1>2, <1>5, <2>3, <2>5
<1>6. QED BY <1>4, <1>5

\* The events of an attempt that is told nothing any more.
LEMMA ContentsRetained ==
  ASSUME IInv, NEW S, unowned' = Filter(unowned, S), byTurn' \subseteq byTurn,
         Emitted \subseteq Emitted', \A a \in Attempt : Stream(a)' = Stream(a)
  PROVE  /\ unowned' \in Seq(Emitted')
         /\ \A a \in byTurn' : \A i \in DOMAIN unowned' : unowned'[i] \notin Stream(a)'
<1>1. unowned \in Seq(Emitted) /\ byTurn \subseteq Attempt
  BY DEF IInv, Contents, Types, TypeOK
<1>2. unowned' \in Seq(Emitted \cap S)
  BY <1>1, FilterType
<1>3. unowned' \in Seq(Emitted')
  BY <1>2, SeqMonotonic
<1>4. ASSUME NEW i \in DOMAIN unowned'
      PROVE  \E j \in DOMAIN unowned : unowned[j] = unowned'[i]
  BY <1>1, <1>4, FilterFrom
<1>5. \A a \in byTurn : \A j \in DOMAIN unowned : unowned[j] \notin Stream(a)
  BY DEF IInv, Contents
<1>6. QED BY <1>1, <1>3, <1>4, <1>5

LEMMA RegisterKeeps ==
  ASSUME IInv, NEW a \in Attempt, Register(a)
  PROVE  Rest'
<1>1. /\ step[a] = "none" /\ \A b \in Attempt : SessionOf[b] = SessionOf[a] => ~Open(b)
      /\ attempts' = attempts \cup {a}
      /\ \/ /\ SessionOf[a] \in Codex \ created
            /\ provisioning' = provisioning \cup {a}
            /\ step' = [step EXCEPT ![a] = "starting"]
         \/ provisioning' = provisioning /\ step' = [step EXCEPT ![a] = "materialized"]
  BY DEF Register, Goes
<1>2. UNCHANGED <<byTurn, byNative, held, unowned, barrier, pending, applied, settled,
                  waiter, notified, closing, committed, announced, emitted, turn, shown,
                  dropped, strayed>>
  BY DEF Register, replay, account, waits, ends, engine, history
<1>3. Indexed'
  BY <1>1, <1>2 DEF IInv, Indexed
<1>4. Lives'
  <2>1. \A b \in Attempt : step'[b] = IF b = a THEN step'[a] ELSE step[b]
    BY <1>1 DEF IInv, Types
  <2>2. /\ step'[a] \in {"starting", "materialized"}
        /\ step'[a] = "starting" => SessionOf[a] \in Codex
    BY <1>1 DEF IInv, Types
  <2>3. a \notin attempts /\ turn[a] = "none" /\ committed[a].by = "nobody"
    BY <1>1 DEF IInv, Lives, LifeOf
  <2>4. LifeOf(a) /\ Closes /\ \A b \in Attempt : LifeOf(b)
    BY DEF IInv, Lives
  <2>5. LifeOf(a)'
    BY <1>1, <1>2, <2>2, <2>3, <2>4 DEF LifeOf, Over, Ended, Open
  <2>6. ASSUME NEW b \in Attempt, b # a
        PROVE  LifeOf(b)'
    BY <1>1, <1>2, <2>1, <2>4, <2>6 DEF LifeOf, Over, Ended, Open
  <2>7. Closes'
    BY <1>1, <1>2, <2>1, <2>2, <2>4 DEF Closes, Over, Open, IInv, Types, TypeOK
  <2>8. QED BY <2>5, <2>6, <2>7 DEF Lives
<1>5. Alone'
  <2>1. ASSUME NEW b \in attempts, SessionOf[b] = SessionOf[a], SessionOf[a] \in Codex \ announced
        PROVE  FALSE
    <3>1. b \in Attempt /\ step[b] # "none" /\ committed[b].by # "nobody"
      BY <1>1, <2>1 DEF IInv, Types, TypeOK, Lives, LifeOf, Open
    <3>2. Over(b) /\ committed[b].by # "dispatch"
      BY <3>1 DEF IInv, Lives, LifeOf
    <3>3. emitted[b] = 0 /\ Ended(b) <= emitted[b]
      BY <2>1, <3>1, <3>2, Unheard DEF IInv, Lives, LifeOf
    <3>4. QED BY <3>2, <3>3 DEF Over, Ended
  <2>2. SessionOf' = SessionOf
    OBVIOUS
  <2>3. QED BY <1>1, <1>2, <2>1 DEF IInv, Alone
<1>6. \A b \in Attempt : Heard(b)' = Heard(b) /\ Stream(b)' = Stream(b) /\ Line(b)' = Line(b)
  BY <1>2 DEF Heard, Stream, Emitted, Ended, Line
<1>7. Contents'
  BY <1>2, <1>6 DEF IInv, Contents, Emitted, Ended
<1>8. Lines'
  <2>1. \A b \in Attempt : b # a => step'[b] = step[b]
    BY <1>1 DEF IInv, Types
  <2>2. QED BY <1>1, <1>2, <1>6, <2>1 DEF IInv, Lines
<1>9. Shown' /\ Settlements'
  BY <1>2, <1>6 DEF IInv, Shown, Settlements
<1>10. KeptEventsAreOnHold'
  BY <1>1, <1>2 DEF IInv, KeptEventsAreOnHold, Held, ExactlyHeld, ProvisioningHeld
<1>11. WaitersAreWoken'
  BY <1>1, <1>2 DEF IInv, WaitersAreWoken
<1>12. QED BY <1>3, <1>4, <1>5, <1>7, <1>8, <1>9, <1>10, <1>11 DEF Rest

\* The end of a provisioning hold lets go the starts that no hold keeps.
LEMMA FinishKeeps ==
  ASSUME IInv, NEW a \in Attempt, NEW hold \in [Session -> attempts \cup {None}],
         FinishProvisioning(a, hold), held' = hold,
         \A s \in Session : held[s] \in attempts => hold[s] = held[s],
         UNCHANGED <<attempts, byTurn, byNative, pending, applied, settled, committed,
                     announced, emitted, shown, dropped, strayed>>,
         \A b \in Attempt : Ended(b)' = Ended(b) /\ (step'[b] = "none" <=> step[b] = "none")
  PROVE  /\ Contents' /\ Lines' /\ KeptEventsAreOnHold'
         /\ \A b \in Attempt : Heard(b)' = Heard(b)
<1> DEFINE P == provisioning \ {a}
           released(e) == e.kind = "started" /\ Scope(NativeOf(e)) /\ ~ExactlyHeld(e, hold)
                            /\ ~ProvisioningHeld(e, P \cap attempts)
           S == {e \in Event : ~released(e)}
<1>1. provisioning' = P /\ unowned' = IF a \in provisioning THEN Filter(unowned, S) ELSE unowned
  BY DEF FinishProvisioning
<1>2. unowned \in Seq(Event) /\ unowned \in Seq(Emitted)
  BY DEF IInv, Contents, Types, TypeOK
<1>3. unowned' = Filter(unowned, IF a \in provisioning THEN S ELSE Event)
  BY <1>1, <1>2, FilterAll
<1> DEFINE R == IF a \in provisioning THEN S ELSE Event
<1>3b. unowned' = Filter(unowned, R)
  BY <1>3
<1>4. Emitted' = Emitted /\ \A b \in Attempt : Stream(b)' = Stream(b)
  BY DEF Emitted, Stream
<1>5. \A b \in Attempt : Heard(b)' = Heard(b)
  BY <1>4 DEF Heard
<1>6. Contents'
  <2> HIDE DEF R
  <2>1. /\ unowned' \in Seq(Emitted')
        /\ \A b \in byTurn' : \A i \in DOMAIN unowned' : unowned'[i] \notin Stream(b)'
    BY <1>3, <1>4, ContentsRetained DEF R
  <2>2. QED BY <1>5, <2>1 DEF IInv, Contents
<1>7. Lines'
  <2>1. ASSUME NEW b \in Attempt \ (settled \cup strayed), b \in attempts \/ step[b] = "none"
        PROVE  Tells(Line(b)', emitted[b], b \in dropped)
    <3>1. \A i \in DOMAIN unowned :
            unowned[i] \in Stream(b) => unowned[i] \in R \/ unowned[i].n = 0
      <4>1. ASSUME NEW i \in DOMAIN unowned
            PROVE  unowned[i] \in R \/ unowned[i].n = 0
        <5>1. unowned[i] \in Emitted /\ unowned[i] \in Event
          BY <1>2, LenProperties, ElementOfSeq
        <5>2. unowned[i].kind = "started" => unowned[i].n = 0
          BY <5>1 DEF Emitted
        <5>3. QED BY <5>1, <5>2
      <4>2. QED BY <4>1
    <3> HIDE DEF R
    <3>2. Line(b)' = applied[b] \o pending[b] \o Filter(Filter(unowned, R), Stream(b))
      BY <1>3, <1>4 DEF Line, R
    <3>3. QED BY <2>1, <3>1, <3>2, LetGo
  <2>2. QED BY <2>1 DEF Lines
<1>8. KeptEventsAreOnHold'
  <2>1. ASSUME NEW e \in R, Held(e)
        PROVE  Held(e)'
    <3>1. CASE ExactlyHeld(e, held)
      BY <3>1 DEF Held, ExactlyHeld, NativeOf
    <3>2. CASE ProvisioningHeld(e, provisioning \cap attempts)
      <4>1. e.kind = "started" /\ Scope(NativeOf(e)) /\ provisioning \cap attempts # {}
        BY <3>2 DEF ProvisioningHeld
      <4>2. CASE a \in provisioning
        <5>1. ExactlyHeld(e, hold) \/ ProvisioningHeld(e, P \cap attempts)
          BY <4>1, <4>2, <2>1
        <5>2. QED BY <1>1, <5>1 DEF Held, ExactlyHeld, ProvisioningHeld, NativeOf, Scope
      <4>3. CASE a \notin provisioning
        <5>1. provisioning' = provisioning
          BY <1>1, <4>3
        <5>2. QED BY <3>2, <5>1 DEF Held, ProvisioningHeld, NativeOf, Scope
      <4>4. QED BY <4>2, <4>3
    <3>3. QED BY <2>1, <3>1, <3>2 DEF Held
  <2>2. \A i \in DOMAIN unowned' : unowned'[i] \in R /\ Held(unowned'[i])
    <3> HIDE DEF R
    <3>1. ASSUME NEW i \in DOMAIN unowned'
          PROVE  unowned'[i] \in R /\ \E j \in DOMAIN unowned : unowned[j] = unowned'[i]
      BY <1>2, <1>3b, <3>1, FilterFrom
    <3>2. QED BY <3>1 DEF IInv, KeptEventsAreOnHold
  <2>3. QED BY <2>1, <2>2 DEF KeptEventsAreOnHold, Held, ExactlyHeld, ProvisioningHeld,
               NativeOf, Scope
<1>9. QED BY <1>5, <1>6, <1>7, <1>8

LEMMA MaterializeFailsKeeps ==
  ASSUME IInv, NEW a \in Attempt, MaterializeFails(a)
  PROVE  Rest'
<1>1. /\ step[a] \in {"starting", "materialized"} /\ a \in attempts
      /\ FinishProvisioning(a, held)
      /\ step' = [step EXCEPT ![a] = "failed"]
      /\ UNCHANGED <<attempts, byTurn, byNative, held, barrier, pending, applied, settled,
                     waiter, notified, closing, committed, announced, emitted, turn, shown,
                     dropped, strayed>>
  BY DEF MaterializeFails, Goes, index, replay, account, waits, ends, engine, history
<1>2. \A b \in Attempt : step'[b] = IF b = a THEN "failed" ELSE step[b]
  BY <1>1 DEF IInv, Types
<1>3. Contents' /\ Lines' /\ KeptEventsAreOnHold' /\ \A b \in Attempt : Heard(b)' = Heard(b)
  <2>1. held \in [Session -> attempts \cup {None}] /\ held' = held
    BY <1>1 DEF IInv, Types, TypeOK
  <2>2. \A b \in Attempt : Ended(b)' = Ended(b) /\ (step'[b] = "none" <=> step[b] = "none")
    BY <1>1, <1>2 DEF Ended
  <2>3. QED BY <1>1, <2>1, <2>2, FinishKeeps
<1>4. provisioning' = provisioning \ {a}
  BY <1>1 DEF FinishProvisioning
<1>5. Indexed'
  BY <1>1, <1>4 DEF IInv, Indexed
<1>6. Lives'
  BY <1>1, <1>2 DEF IInv, Lives, LifeOf, Closes, Over, Ended, Open
<1>7. Alone' /\ WaitersAreWoken'
  BY <1>1 DEF IInv, Alone, WaitersAreWoken
<1>8. Shown' /\ Settlements'
  BY <1>1, <1>3 DEF IInv, Shown, Settlements
<1>9. QED BY <1>3, <1>5, <1>6, <1>7, <1>8 DEF Rest

LEMMA SendKeeps ==
  ASSUME IInv, NEW a \in Attempt, Send(a)
  PROVE  Rest'
<1> DEFINE hold == [held EXCEPT ![SessionOf[a]] = a]
<1>1. /\ step[a] = "materialized" /\ a \in attempts /\ held[SessionOf[a]] \in {None, a}
      /\ FinishProvisioning(a, hold) /\ held' = hold
      /\ step' = [step EXCEPT ![a] = "sent"]
      /\ turn' = [turn EXCEPT ![a] = "running"]
      /\ UNCHANGED <<attempts, byTurn, byNative, barrier, pending, applied, settled,
                     waiter, notified, closing, committed, announced, emitted, shown,
                     dropped, strayed>>
  BY DEF Send, Goes, index, replay, account, waits, ends, history
<1>2. \A b \in Attempt : /\ step'[b] = IF b = a THEN "sent" ELSE step[b]
                         /\ turn'[b] = IF b = a THEN "running" ELSE turn[b]
  BY <1>1 DEF IInv, Types
<1>3. turn[a] = "none"
  BY <1>1 DEF IInv, Lives, LifeOf
<1>4. hold \in [Session -> attempts \cup {None}] /\ hold[SessionOf[a]] = a
      /\ \A s \in Session : s # SessionOf[a] => hold[s] = held[s]
  <2>1. SessionOf[a] \in Session
    BY CoordinatorAssumption
  <2>2. held \in [Session -> attempts \cup {None}]
    BY DEF IInv, Types, TypeOK
  <2>3. QED BY <1>1, <2>1, <2>2
<1>5. \A s \in Session : held[s] \in attempts => hold[s] = held[s]
  BY <1>1, <1>4, NoneIsNoAttempt DEF IInv, Types, TypeOK
<1> HIDE DEF hold
<1>6. Contents' /\ Lines' /\ KeptEventsAreOnHold' /\ \A b \in Attempt : Heard(b)' = Heard(b)
  <2>1. \A b \in Attempt : Ended(b)' = Ended(b) /\ (step'[b] = "none" <=> step[b] = "none")
    BY <1>1, <1>2, <1>3 DEF Ended
  <2>2. QED BY <1>1, <1>4, <1>5, <2>1, FinishKeeps
<1>7. provisioning' = provisioning \ {a}
  BY <1>1 DEF FinishProvisioning
<1>8. Indexed'
  BY <1>1, <1>4, <1>7 DEF IInv, Indexed
<1>9. Lives'
  <2>1. \A b \in Attempt : b \in attempts /\ turn[b] # "none" /\ b \notin byTurn =>
          held'[SessionOf[b]] = b
    <3>1. \A b \in Attempt : SessionOf[b] \in Session
      BY CoordinatorAssumption
    <3>2. QED BY <1>1, <1>5, <3>1 DEF IInv, Lives, LifeOf
  <2>2. QED BY <1>1, <1>2, <1>3, <1>4, <2>1 DEF IInv, Lives, LifeOf, Closes, Over, Ended, Open
<1>10. Alone' /\ WaitersAreWoken'
  BY <1>1 DEF IInv, Alone, WaitersAreWoken
<1>11. Shown'
  <2>1. a \notin byTurn
    BY <1>1 DEF IInv, Lives, LifeOf
  <2>2. QED BY <1>1, <1>2, <1>6, <2>1 DEF IInv, Shown
<1>12. Settlements'
  BY <1>1, <1>6 DEF IInv, Settlements
<1>13. QED BY <1>6, <1>8, <1>9, <1>10, <1>11, <1>12 DEF Rest

-----------------------------------------------------------------------------
(* The end of an attempt.                                                  *)

Settled(a) == [by |-> "runtime", blocks |-> applied[a]]

\* Who removes an attempt has closed it.
Removes(a) ==
  /\ RemoveAttempt(a)
  /\ step[a] # "none" /\ committed'[a].by # "nobody"
  /\ \A b \in Attempt : b # a =>
       committed'[b] = committed[b] /\ turn'[b] = turn[b] /\ step'[b] = step[b]
  /\ \/ step'[a] = step[a] /\ turn'[a] = turn[a] /\ committed'[a].by # "dispatch"
     \/ step'[a] = step[a] /\ turn'[a] = turn[a] /\ committed'[a] = committed[a]
     \/ step'[a] = "failed" /\ turn'[a] = "done" /\ committed'[a].by = "dispatch"
  /\ \/ committed'[a] = committed[a]
     \/ Open(a) /\ committed'[a].by \in {"dispatch", "user"}
     \/ Open(a) /\ a \in settled /\ committed'[a] = Settled(a)
  /\ closing' \subseteq closing /\ \A c \in closing \ closing' : c.of = a
  /\ UNCHANGED <<announced, emitted, shown, dropped, strayed, waiter>>

LEMMA RemovesLives ==
  ASSUME IInv, NEW a \in Attempt, Removes(a)
  PROVE  Lives'
<1>1. /\ attempts' = attempts \ {a} /\ byTurn' = byTurn \ {a} /\ settled' = settled \ {a}
      /\ barrier' = barrier \ {a} /\ applied' = [applied EXCEPT ![a] = <<>>]
      /\ held' = [s \in Session |-> IF held[s] = a THEN None ELSE held[s]]
  BY DEF Removes, RemoveAttempt
<1>2. LifeOf(a) /\ Closes /\ \A b \in Attempt : LifeOf(b)
  BY DEF IInv, Lives
<1>3. LifeOf(a)'
  <2>1. a \notin attempts' /\ a \notin byTurn' /\ a \notin settled' /\ applied'[a] = <<>>
        /\ ~Open(a)' /\ emitted' = emitted /\ announced' = announced /\ shown' = shown
    BY <1>1 DEF Removes, Open, IInv, Types, TypeOK
  <2>2. \/ step'[a] = step[a] /\ turn'[a] = turn[a]
        \/ step'[a] = "failed" /\ turn'[a] = "done" /\ committed'[a].by = "dispatch"
    BY DEF Removes
  <2>3. step[a] # "none" /\ committed'[a].by # "nobody"
    BY DEF Removes
  <2>4. committed'[a].by # "dispatch" => Ended(a)' <= emitted'[a]
    <3>1. committed'[a].by # "dispatch" => committed[a].by # "dispatch"
      BY DEF Removes, Open
    <3>2. QED BY <1>2, <2>1, <2>2, <3>1 DEF LifeOf, Ended
  <2>5. QED BY <1>2, <2>1, <2>2, <2>3, <2>4 DEF LifeOf
<1>4. ASSUME NEW b \in Attempt, b # a
      PROVE  LifeOf(b)'
  <2>1. /\ b \in attempts' <=> b \in attempts
        /\ b \in byTurn' <=> b \in byTurn
        /\ b \in settled' <=> b \in settled
        /\ b \in barrier' <=> b \in barrier
        /\ applied'[b] = applied[b]
        /\ held[SessionOf[b]] = b => held'[SessionOf[b]] = b
    BY <1>1, <1>4, CoordinatorAssumption DEF IInv, Types, TypeOK
  <2>2. /\ committed'[b] = committed[b] /\ turn'[b] = turn[b] /\ step'[b] = step[b]
        /\ UNCHANGED <<announced, emitted, shown>>
    BY <1>4 DEF Removes
  <2>3. Open(b)' = Open(b) /\ Ended(b)' = Ended(b) /\ Over(b)' = Over(b)
    BY <2>2 DEF Open, Ended, Over
  <2>4. LifeOf(b)
    BY <1>2
  <2>5. QED BY <2>1, <2>2, <2>3, <2>4 DEF LifeOf
<1>5. Closes'
  <2>1. \A c \in closing : c.of \in Attempt
    BY DEF IInv, Types, TypeOK
  <2>2. \A b \in Attempt : b # a =>
          committed'[b] = committed[b] /\ turn'[b] = turn[b] /\ step'[b] = step[b]
    BY DEF Removes
  <2>3. /\ closing' \subseteq closing /\ \A c \in closing \ closing' : c.of = a
        /\ step[a] # "none" /\ committed'[a].by # "nobody"
        /\ \/ step'[a] = step[a] /\ turn'[a] = turn[a]
           \/ step'[a] = "failed" /\ turn'[a] = "done"
    BY DEF Removes
  <2>4. settled \subseteq Attempt
    BY DEF IInv, Types, TypeOK
  <2>5. ASSUME NEW c \in closing'
        PROVE  /\ Over(c.of)' /\ step'[c.of] # "none"
               /\ c.to = "remove" => committed'[c.of].by # "nobody"
               /\ c.to = "commit" /\ Open(c.of)' => c.of \in settled'
    <3>1. c \in closing /\ c.of \in Attempt
      BY <2>1, <2>3
    <3>2. /\ Over(c.of) /\ step[c.of] # "none"
          /\ c.to = "remove" => committed[c.of].by # "nobody"
          /\ c.to = "commit" /\ Open(c.of) => c.of \in settled
      BY <1>2, <3>1 DEF Closes
    <3>3. CASE c.of = a
      BY <2>3, <3>2, <3>3 DEF Over, Open
    <3>4. CASE c.of # a
      BY <1>1, <2>2, <3>1, <3>2, <3>4 DEF Over, Open
    <3>5. QED BY <3>3, <3>4
  <2>6. \A b \in settled' : Over(b)'
    BY <1>1, <1>2, <2>2, <2>4 DEF Closes, Over
  <2>7. \A b \in settled' \cap barrier' : \E c \in closing' : c.by = "dispatch" /\ c.of = b
    BY <1>1, <1>2, <2>3 DEF Closes
  <2>8. QED BY <2>5, <2>6, <2>7 DEF Closes
<1>6. QED BY <1>3, <1>4, <1>5 DEF Lives

LEMMA RemovesKeeps ==
  ASSUME IInv, NEW a \in Attempt, Removes(a)
  PROVE  Rest'
<1> DEFINE gone(e) ==
              \/ NativeOf(e) \in Session /\ held[NativeOf(e)] = a
              \/ /\ a \in attempts /\ e.kind = "started"
                 /\ Scope(NativeOf(e)) = Scope(SessionOf[a])
                 /\ ~(Scope(SessionOf[a]) /\ provisioning \ {a} # {})
           S == {e \in Event : ~gone(e)}
<1>1. /\ notified' = (IF a \in attempts THEN notified \cup {a} ELSE notified)
      /\ attempts' = attempts \ {a} /\ byTurn' = byTurn \ {a} /\ settled' = settled \ {a}
      /\ barrier' = barrier \ {a} /\ provisioning' = provisioning \ {a}
      /\ applied' = [applied EXCEPT ![a] = <<>>]
      /\ pending' = [pending EXCEPT ![a] = <<>>]
      /\ held' = [s \in Session |-> IF held[s] = a THEN None ELSE held[s]]
      /\ byNative' = [s \in Session |-> IF byNative[s] = a THEN None ELSE byNative[s]]
      /\ unowned' = Filter(unowned, S)
  BY DEF Removes, RemoveAttempt
<1>2. /\ \A b \in Attempt : b # a =>
            committed'[b] = committed[b] /\ turn'[b] = turn[b] /\ step'[b] = step[b]
      /\ UNCHANGED <<announced, emitted, shown, dropped, strayed, waiter>>
      /\ step[a] # "none"
  BY DEF Removes
<1>3. /\ unowned \in Seq(Event) /\ unowned \in Seq(Emitted)
      /\ attempts \subseteq Attempt /\ provisioning \subseteq attempts
      /\ held \in [Session -> attempts \cup {None}] /\ None \notin Attempt
      /\ applied \in [Attempt -> Seq(Event)] /\ pending \in [Attempt -> Seq(Event)]
      /\ byTurn \subseteq attempts /\ settled \subseteq attempts
  BY NoneIsNoAttempt DEF IInv, Contents, Types, TypeOK
<1>4. Emitted \subseteq Emitted' /\ \A b \in Attempt : Heard(b) \subseteq Heard(b)'
                                                        /\ Stream(b)' = Stream(b)
  <2>1. emitted' \in [Attempt -> Nat] /\ announced \subseteq announced'
    BY <1>2 DEF IInv, Types
  <2>2. ASSUME NEW b \in Attempt, committed'[b].by # "dispatch"
        PROVE  committed[b].by # "dispatch" /\ Ended(b)' = Ended(b) /\ emitted'[b] = emitted[b]
               /\ emitted[b] \in Nat /\ Ended(b) \in Int
    <3>1. emitted'[b] = emitted[b] /\ emitted[b] \in Nat /\ Ended(b) \in Int
      BY <1>2 DEF IInv, Types, Ended
    <3>2. committed[b].by # "dispatch" /\ turn'[b] = turn[b]
      BY <2>2 DEF Removes, Open
    <3>3. QED BY <3>1, <3>2 DEF Ended
  <2>3. QED BY <2>1, <2>2, EmittedGrows DEF IInv
<1>5. Indexed'
  BY <1>1, <1>3 DEF IInv, Indexed
<1>6. Alone'
  BY <1>1, <1>2, <1>3, CoordinatorAssumption DEF IInv, Alone
<1>7. Contents'
  <2>1. /\ unowned' \in Seq(Emitted')
        /\ \A b \in byTurn' : \A i \in DOMAIN unowned' : unowned'[i] \notin Stream(b)'
    <3> HIDE DEF S
    <3>1. QED BY <1>1, <1>4, ContentsRetained
  <2>2. ASSUME NEW b \in Attempt
        PROVE  /\ pending'[b] \in Seq(Heard(b)') /\ applied'[b] \in Seq(Heard(b)')
               /\ shown'[b] \in Seq(Heard(b)')
    <3>1. /\ pending[b] \in Seq(Heard(b)) /\ applied[b] \in Seq(Heard(b))
          /\ shown[b] \in Seq(Heard(b)) /\ <<>> \in Seq(Heard(b))
      BY EmptySeq DEF IInv, Contents
    <3>2. /\ pending'[b] \in Seq(Heard(b)) /\ applied'[b] \in Seq(Heard(b))
          /\ shown'[b] \in Seq(Heard(b))
      BY <1>1, <1>2, <1>3, <3>1
    <3>3. QED BY <1>4, <3>2, SeqMonotonic
  <2>3. QED BY <2>1, <2>2 DEF Contents
<1>8. Lines'
  <2>1. ASSUME NEW b \in Attempt, b # a, b \notin settled \cup strayed,
               b \in attempts \/ step[b] = "none"
        PROVE  Tells(Line(b)', emitted[b], b \in dropped)
    <3>1. ASSUME NEW i \in DOMAIN unowned, unowned[i] \in Stream(b), unowned[i] \notin S
          PROVE  unowned[i].n = 0
      <4> DEFINE e == unowned[i]
      <4>1. e \in Emitted /\ e \in Event /\ e \in Stream(b) /\ e \in Heard(b)
        BY <1>3, <3>1, LenProperties, ElementOfSeq DEF Heard
      <4>2. CASE e.kind = "started"
        BY <4>1, <4>2 DEF Emitted
      <4>3. CASE e.kind # "started"
        <5>1. e.of = b
          BY <4>1, <4>3 DEF Stream
        <5>2. gone(e)
          BY <3>1, <4>1
        <5>3. held[SessionOf[b]] = a
          BY <4>3, <5>1, <5>2 DEF NativeOf
        <5>4. b \notin byTurn
          BY <3>1 DEF IInv, Contents
        <5>5. turn[b] = "none"
          BY <2>1, <5>3, <5>4 DEF IInv, Lives, LifeOf
        <5>6. emitted[b] = 0
          BY <5>5 DEF IInv, Lives, LifeOf
        <5>7. committed[b].by # "dispatch"
          BY <2>1, GoesOn DEF IInv
        <5> HIDE DEF e
        <5>8. e.n = 0
          BY <4>1, <5>6, <5>7, NothingSaid DEF IInv
        <5>9. QED BY <5>8 DEF e
      <4>4. QED BY <4>2, <4>3
    <3> HIDE DEF S
    <3>2. Line(b)' = applied[b] \o pending[b] \o Filter(Filter(unowned, S), Stream(b))
      BY <1>1, <1>3, <1>4, <2>1 DEF Line
    <3>3. Tells(applied[b] \o pending[b] \o Filter(Filter(unowned, S), Stream(b)),
                emitted[b], b \in dropped)
      <4>1. \A i \in DOMAIN unowned :
              unowned[i] \in Stream(b) => unowned[i] \in S \/ unowned[i].n = 0
        BY <3>1
      <4>2. b \in Attempt \ (settled \cup strayed)
        BY <2>1
      <4>3. QED BY <2>1, <4>1, <4>2, LetGo
    <3>4. QED BY <3>2, <3>3
  <2>2. step'[a] # "none"
    BY DEF Removes
  <2>3. QED BY <1>1, <1>2, <2>1, <2>2 DEF Lines
<1>9. Shown'
  <2>1. ASSUME NEW b \in Attempt \ strayed
        PROVE  /\ InLine(shown[b] \o pending'[b])
               /\ b \in byTurn' /\ turn'[b] # "done" /\ shown[b] \o pending'[b] # <<>> =>
                    Last(shown[b] \o pending'[b]).n = emitted[b]
    <3>1. InLine(shown[b] \o pending[b])
      BY DEF IInv, Shown
    <3>2. CASE b = a
      <4>1. pending'[a] = <<>> /\ a \notin byTurn'
        BY <1>1, <1>3
      <4>2. shown[b] \in Seq(Event) /\ pending[b] \in Seq(Event)
        BY <1>3 DEF IInv, Types, TypeOK
      <4>3. shown[b] \o <<>> = shown[b]
        BY <4>2, ConcatEmptySeq
      <4>4. InLine(shown[b])
        BY <3>1, <4>2, InLineParts
      <4>5. QED BY <3>2, <4>1, <4>3, <4>4
    <3>3. CASE b # a
      BY <1>1, <1>2, <1>3, <3>3 DEF IInv, Shown
    <3>4. QED BY <3>2, <3>3
  <2>2. QED BY <1>2, <2>1 DEF Shown
<1>10. Settlements'
  <2>1. ASSUME NEW b \in Attempt \ strayed
        PROVE  /\ b \in settled' => Whole(applied'[b], b \in dropped)
               /\ committed'[b].by = "runtime" =>
                    /\ committed'[b].blocks \in Seq(Heard(b)')
                    /\ Whole(committed'[b].blocks, b \in dropped)
    <3>1. b \in settled' => Whole(applied'[b], b \in dropped)
      BY <1>1, <1>3 DEF IInv, Settlements
    <3>2. CASE committed'[b] = committed[b]
      <4>1. SUFFICES ASSUME committed[b].by = "runtime"
                     PROVE  committed[b].blocks \in Seq(Heard(b)')
        BY <2>1, <3>1, <3>2 DEF IInv, Settlements
      <4>2. committed[b].blocks \in Seq(Heard(b))
        BY <2>1, <4>1 DEF IInv, Settlements
      <4>3. QED BY <1>4, <4>2, SeqMonotonic
    <3>3. CASE b = a /\ a \in settled /\ committed'[a] = Settled(a)
      <4>1. Whole(applied[b], b \in dropped) /\ applied[b] \in Seq(Heard(b))
        BY <2>1, <3>3 DEF IInv, Settlements, Contents
      <4>2. applied[b] \in Seq(Heard(b)')
        BY <1>4, <4>1, SeqMonotonic
      <4>3. QED BY <3>1, <3>3, <4>1, <4>2 DEF Settled
    <3>4. CASE b = a /\ committed'[a].by \in {"dispatch", "user"}
      BY <3>1, <3>4
    <3>5. QED BY <1>2, <3>2, <3>3, <3>4 DEF Removes
  <2>2. QED BY <1>2, <2>1 DEF Settlements
<1>11. KeptEventsAreOnHold'
  <2>1. ASSUME NEW e \in S, Held(e)
        PROVE  Held(e)'
    <3>1. ~gone(e)
      BY <2>1
    <3>2. CASE ExactlyHeld(e, held)
      <4>1. NativeOf(e) \in Session /\ held[NativeOf(e)] \in attempts
        BY <3>2 DEF ExactlyHeld
      <4>2. held[NativeOf(e)] # a
        BY <3>1, <4>1
      <4>3. held'[NativeOf(e)] \in attempts'
        BY <1>1, <4>1, <4>2
      <4>4. QED BY <4>1, <4>3 DEF Held, ExactlyHeld, NativeOf
    <3>3. CASE ProvisioningHeld(e, provisioning \cap attempts)
      <4>1. e.kind = "started" /\ Scope(NativeOf(e)) /\ provisioning # {}
        BY <3>3 DEF ProvisioningHeld
      <4>2. provisioning \ {a} # {}
        <5>1. CASE a \in provisioning
          <6>1. SessionOf[a] \in Codex /\ a \in attempts
            BY <1>3, <5>1 DEF IInv, Indexed
          <6>2. Scope(SessionOf[a])
            BY <6>1 DEF Scope
          <6>3. QED BY <3>1, <4>1, <6>1, <6>2
        <5>2. CASE a \notin provisioning
          BY <4>1, <5>2
        <5>3. QED BY <5>1, <5>2
      <4>3. provisioning' \cap attempts' # {}
        BY <1>1, <1>3, <4>2
      <4>4. QED BY <4>1, <4>3 DEF Held, ProvisioningHeld, NativeOf, Scope
    <3>4. QED BY <2>1, <3>2, <3>3 DEF Held
  <2>2. \A i \in DOMAIN unowned' : unowned'[i] \in S /\ Held(unowned'[i])
    <3> HIDE DEF S
    <3>1. ASSUME NEW i \in DOMAIN unowned'
          PROVE  unowned'[i] \in S /\ \E j \in DOMAIN unowned : unowned[j] = unowned'[i]
      BY <1>1, <1>3, <3>1, FilterFrom
    <3>2. QED BY <3>1 DEF IInv, KeptEventsAreOnHold
  <2> HIDE DEF S
  <2>3. QED BY <2>1, <2>2 DEF KeptEventsAreOnHold, Held, ExactlyHeld, ProvisioningHeld,
               NativeOf, Scope
<1>12. WaitersAreWoken'
  BY <1>1, <1>2 DEF IInv, WaitersAreWoken
<1>13. QED BY <1>5, <1>6, <1>7, <1>8, <1>9, <1>10, <1>11, <1>12, RemovesLives DEF Rest

LEMMA NotAcceptedKeeps ==
  ASSUME IInv, NEW a \in Attempt, NotAccepted(a)
  PROVE  Rest'
<1>1. /\ step[a] = "sent" /\ Open(a) /\ RemoveAttempt(a)
      /\ committed' = [committed EXCEPT ![a].by = "dispatch"]
      /\ step' = [step EXCEPT ![a] = "failed"] /\ turn' = [turn EXCEPT ![a] = "done"]
      /\ UNCHANGED <<waiter, closing, announced, emitted, shown, dropped, strayed>>
  BY DEF NotAccepted, Goes, history
<1>2. /\ committed'[a].by = "dispatch" /\ step'[a] = "failed" /\ turn'[a] = "done"
      /\ \A b \in Attempt : b # a =>
           committed'[b] = committed[b] /\ turn'[b] = turn[b] /\ step'[b] = step[b]
  BY <1>1 DEF IInv, Types
<1>3. Removes(a)
  BY <1>1, <1>2 DEF Removes
<1>4. QED BY <1>3, RemovesKeeps

LEMMA AbandonKeeps ==
  ASSUME IInv, NEW a \in Attempt, Abandon(a)
  PROVE  Rest'
<1> DEFINE new == IF a \in settled THEN Settled(a) ELSE [by |-> "user", blocks |-> <<>>]
<1>1. /\ Open(a) /\ RemoveAttempt(a)
      /\ committed' = [committed EXCEPT ![a] = new]
      /\ UNCHANGED <<step, waiter, closing, announced, emitted, turn, shown, dropped, strayed>>
  BY DEF Abandon, engine, history, Settled
<1>2. /\ committed'[a] = new /\ new.by \in {"runtime", "user"}
      /\ \A b \in Attempt : b # a => committed'[b] = committed[b]
  BY <1>1 DEF IInv, Types, Settled
<1>3. a \in settled => new = Settled(a)
  OBVIOUS
<1>4. a \notin settled => new.by = "user"
  OBVIOUS
<1> HIDE DEF new
<1>5. Removes(a)
  BY <1>1, <1>2, <1>3, <1>4 DEF Removes, Open
<1>6. QED BY <1>5, RemovesKeeps

LEMMA ForgetKeeps ==
  ASSUME IInv, NEW c \in closing, Forget(c)
  PROVE  Rest'
<1> DEFINE a == c.of
<1>1. /\ c.to = "remove" /\ RemoveAttempt(a) /\ closing' = closing \ {c}
      /\ UNCHANGED <<step, waiter, committed, announced, emitted, turn, shown, dropped, strayed>>
  BY DEF Forget, engine, history
<1>2. a \in Attempt /\ step[a] # "none" /\ committed[a].by # "nobody"
  BY <1>1 DEF IInv, Types, TypeOK, Lives, Closes
<1>3. \A d \in closing \ closing' : d.of = a
  BY <1>1
<1> HIDE DEF a
<1>4. Removes(a)
  BY <1>1, <1>2, <1>3 DEF Removes
<1>5. QED BY <1>2, <1>4, RemovesKeeps

LEMMA CommitKeeps ==
  ASSUME IInv, NEW c \in closing, Commit(c)
  PROVE  Rest'
<1> DEFINE a == c.of
           d == [c EXCEPT !.to = "remove"]
<1>1. /\ c.to = "commit"
      /\ committed' = IF Open(a) THEN [committed EXCEPT ![a] = Settled(a)] ELSE committed
      /\ closing' = (closing \ {c}) \cup {d}
      /\ UNCHANGED <<attempts, byTurn, byNative, held, provisioning, unowned, barrier, pending,
                     applied, settled, step, waiter, notified, announced, emitted, turn,
                     shown, dropped, strayed>>
  BY DEF Commit, Settled, index, holds, replay, account, waits, engine, history
<1>2. /\ a \in Attempt /\ step[a] # "none" /\ Over(a) /\ (Open(a) => a \in settled)
      /\ d.of = a /\ d.to = "remove" /\ d.by = c.by
  BY <1>1 DEF IInv, Types, TypeOK, Lives, Closes
<1>3. /\ committed'[a].by # "nobody"
      /\ Open(a) => committed'[a] = Settled(a) /\ committed'[a].by = "runtime"
      /\ ~Open(a) => committed'[a] = committed[a]
      /\ \A b \in Attempt : b # a => committed'[b] = committed[b]
  BY <1>1, <1>2 DEF IInv, Types, Open, Settled
<1> HIDE DEF a, d
<1>4. Lives'
  <2>1. Closes /\ \A b \in Attempt : LifeOf(b)
    BY DEF IInv, Lives
  <2>2. ASSUME NEW b \in Attempt
        PROVE  LifeOf(b)'
    <3>1. CASE b = a
      BY <1>1, <1>2, <1>3, <2>1, <3>1 DEF LifeOf, Over, Ended, Open
    <3>2. CASE b # a
      BY <1>1, <1>3, <2>1, <3>2 DEF LifeOf, Over, Ended, Open
    <3>3. QED BY <3>1, <3>2
  <2>3. ASSUME NEW e \in closing'
        PROVE  /\ Over(e.of)' /\ step'[e.of] # "none"
               /\ e.to = "remove" => committed'[e.of].by # "nobody"
               /\ e.to = "commit" /\ Open(e.of)' => e.of \in settled'
    <3>1. CASE e = d
      BY <1>1, <1>2, <1>3, <3>1 DEF Over
    <3>2. CASE e \in closing
      <4>1. e.of \in Attempt
        BY <3>2 DEF IInv, Types, TypeOK
      <4>2. QED BY <1>1, <1>3, <2>1, <3>2, <4>1 DEF Closes, Over, Open
    <3>3. QED BY <1>1, <3>1, <3>2
  <2>4. \A b \in settled' : Over(b)'
    BY <1>1, <2>1 DEF Closes, Over
  <2>5. \A b \in settled' \cap barrier' : \E e \in closing' : e.by = "dispatch" /\ e.of = b
    BY <1>1, <1>2, <2>1 DEF Closes, a
  <2>6. QED BY <2>2, <2>3, <2>4, <2>5 DEF Lives, Closes
<1>5. Emitted \subseteq Emitted' /\ \A b \in Attempt : Heard(b) \subseteq Heard(b)'
                                                        /\ Stream(b)' = Stream(b)
  <2>1. emitted' \in [Attempt -> Nat] /\ announced \subseteq announced'
    BY <1>1 DEF IInv, Types
  <2>2. ASSUME NEW b \in Attempt, committed'[b].by # "dispatch"
        PROVE  committed[b].by # "dispatch" /\ Ended(b)' = Ended(b) /\ emitted'[b] = emitted[b]
               /\ emitted[b] \in Nat /\ Ended(b) \in Int
    BY <1>1, <1>3, <2>2 DEF IInv, Types, Ended, Open
  <2>3. QED BY <2>1, <2>2, EmittedGrows DEF IInv
<1>6. \A b \in Attempt : Line(b)' = Line(b)
  BY <1>1, <1>5 DEF Line
<1>7. Contents'
  <2>1. ASSUME NEW b \in Attempt
        PROVE  /\ pending[b] \in Seq(Heard(b)') /\ applied[b] \in Seq(Heard(b)')
               /\ shown[b] \in Seq(Heard(b)')
    BY <1>5, SeqMonotonic DEF IInv, Contents
  <2>2. unowned \in Seq(Emitted')
    BY <1>5, SeqMonotonic DEF IInv, Contents
  <2>3. QED BY <1>1, <1>5, <2>1, <2>2 DEF IInv, Contents
<1>8. Settlements'
  <2>1. ASSUME NEW b \in Attempt \ strayed
        PROVE  /\ b \in settled => Whole(applied[b], b \in dropped)
               /\ committed'[b].by = "runtime" =>
                    /\ committed'[b].blocks \in Seq(Heard(b)')
                    /\ Whole(committed'[b].blocks, b \in dropped)
    <3>1. b \in settled => Whole(applied[b], b \in dropped)
      BY DEF IInv, Settlements
    <3>2. CASE committed'[b] = committed[b]
      <4>1. SUFFICES ASSUME committed[b].by = "runtime"
                     PROVE  committed[b].blocks \in Seq(Heard(b)')
        BY <2>1, <3>1, <3>2 DEF IInv, Settlements
      <4>2. committed[b].blocks \in Seq(Heard(b))
        BY <2>1, <4>1 DEF IInv, Settlements
      <4>3. QED BY <1>5, <4>2, SeqMonotonic
    <3>3. CASE b = a /\ a \in settled /\ committed'[a] = Settled(a)
      <4>1. Whole(applied[b], b \in dropped) /\ applied[b] \in Seq(Heard(b))
        BY <2>1, <3>3 DEF IInv, Settlements, Contents
      <4>2. applied[b] \in Seq(Heard(b)')
        BY <1>5, <4>1, SeqMonotonic
      <4>3. QED BY <3>1, <3>3, <4>1, <4>2 DEF Settled
    <3>4. QED BY <1>2, <1>3, <3>2, <3>3
  <2>2. QED BY <1>1, <2>1 DEF Settlements
<1>9. Indexed' /\ Alone' /\ WaitersAreWoken'
  BY <1>1 DEF IInv, Indexed, Alone, WaitersAreWoken
<1>10. Lines' /\ Shown'
  BY <1>1, <1>6 DEF IInv, Lines, Shown
<1>11. KeptEventsAreOnHold'
  BY <1>1 DEF IInv, KeptEventsAreOnHold, Held, ExactlyHeld, ProvisioningHeld, NativeOf, Scope
<1>12. QED BY <1>4, <1>7, <1>8, <1>9, <1>10, <1>11 DEF Rest

-----------------------------------------------------------------------------
(* The replay of what was kept.                                            *)

LEMMA InLinePrefix ==
  ASSUME NEW T, NEW u \in Seq(T), NEW v \in Seq(T), InLine(u), Len(v) <= Len(u),
         \A i \in 1 .. Len(v) : v[i] = u[i]
  PROVE  InLine(v)
<1>1. Len(u) \in Nat /\ Len(v) \in Nat
  BY LenProperties
<1>2. ASSUME NEW i \in 1 .. Len(v) - 1
      PROVE  v[i + 1].n = v[i].n + 1
  <2>1. i \in 1 .. Len(u) - 1 /\ i \in 1 .. Len(v) /\ i + 1 \in 1 .. Len(v)
    BY <1>1
  <2>2. QED BY <2>1 DEF InLine
<1>3. QED BY <1>2 DEF InLine

\* A sequence followed by a prefix of another.
LEMMA ConcatPrefix ==
  ASSUME NEW T, NEW x \in Seq(T), NEW p \in Seq(T), NEW k \in 0 .. Len(p)
  PROVE  /\ x \o SubSeq(p, 1, k) \in Seq(T)
         /\ Len(x \o SubSeq(p, 1, k)) = Len(x) + k /\ Len(x) + k <= Len(x \o p)
         /\ \A i \in 1 .. Len(x) + k : (x \o SubSeq(p, 1, k))[i] = (x \o p)[i]
         /\ InLine(x \o p) => InLine(x \o SubSeq(p, 1, k))
<1> DEFINE s == SubSeq(p, 1, k)
           u == x \o p
           v == x \o s
<1>1. s \in Seq(T) /\ Len(s) = k /\ (\A i \in 1 .. k : s[i] = p[i]) /\ Len(p) \in Nat
  BY PrefixType, LenProperties
<1> HIDE DEF s
<1>2. /\ u \in Seq(T) /\ Len(u) = Len(x) + Len(p) /\ Len(x) \in Nat
      /\ \A i \in 1 .. Len(x) : u[i] = x[i]
      /\ \A i \in 1 .. Len(p) : u[Len(x) + i] = p[i]
  BY ConcatIs
<1>3. /\ v \in Seq(T) /\ Len(v) = Len(x) + Len(s)
      /\ \A i \in 1 .. Len(x) : v[i] = x[i]
      /\ \A i \in 1 .. Len(s) : v[Len(x) + i] = s[i]
  <2>1. s \in Seq(T)
    BY <1>1
  <2>2. QED BY <2>1, ConcatIs
<1> HIDE DEF u, v
<1>4. ASSUME NEW i \in 1 .. Len(x) + k
      PROVE  v[i] = u[i]
  <2>1. CASE i \in 1 .. Len(x)
    BY <1>2, <1>3, <2>1
  <2>2. CASE i \notin 1 .. Len(x)
    <3>1. PICK j \in 1 .. k : i = Len(x) + j
      <4>1. i - Len(x) \in 1 .. k /\ i = Len(x) + (i - Len(x))
        BY <1>1, <1>2, <2>2
      <4>2. QED BY <4>1
    <3>2. j \in 1 .. Len(s) /\ j \in 1 .. Len(p)
      BY <1>1, <3>1
    <3>3. v[Len(x) + j] = s[j] /\ u[Len(x) + j] = p[j] /\ s[j] = p[j]
      BY <1>1, <1>2, <1>3, <3>1, <3>2
    <3>4. QED BY <3>1, <3>3
  <2>3. QED BY <2>1, <2>2
<1>5. Len(v) = Len(x) + k /\ Len(v) <= Len(u)
  BY <1>1, <1>2, <1>3
<1>6. InLine(u) => InLine(v)
  BY <1>2, <1>3, <1>4, <1>5, InLinePrefix
<1>7. QED BY <1>3, <1>4, <1>5, <1>6 DEF s, u, v

\* What is told up to an end is a whole turn.
LEMMA WholePrefix ==
  ASSUME NEW x \in Seq(Event), NEW p \in Seq(Event), NEW n \in Nat, n > 0,
         NEW lost \in BOOLEAN, Tells(x \o p, n, lost),
         NEW k \in 1 .. Len(p), Ends(p[k])
  PROVE  Whole(x \o SubSeq(p, 1, k), lost)
<1> DEFINE v == x \o SubSeq(p, 1, k)
           u == x \o p
<1>1. k \in 0 .. Len(p) /\ Len(p) \in Nat /\ Len(x) \in Nat
  BY LenProperties
<1>2. /\ v \in Seq(Event) /\ Len(v) = Len(x) + k
      /\ \A i \in 1 .. Len(x) + k : v[i] = u[i]
      /\ InLine(u) => InLine(v)
  BY <1>1, ConcatPrefix
<1>3. u[Len(x) + k] = p[k]
  BY ConcatIs
<1> HIDE DEF u, v
<1>4. InLine(u) /\ (~lost => u[1].n <= 1)
  BY DEF Tells, u
<1>5. Len(x) + k \in 1 .. Len(x) + k /\ 1 \in 1 .. Len(x) + k
  BY <1>1
<1>6. v # <<>>
  BY <1>1, <1>2, EmptySeq
<1>7. Last(v) = p[k] /\ v[1] = u[1]
  BY <1>2, <1>3, <1>5 DEF Last
<1>8. QED BY <1>2, <1>4, <1>6, <1>7 DEF Whole, v

\* What comes after the end of a turn is its end again: the thread shows what
\* the accumulator takes.
LEMMA ShowsIs ==
  ASSUME Types, Lives, NEW a \in attempts \ settled, NEW p \in Seq(Heard(a)), InLine(p)
  PROVE  \E k \in 0 .. Len(p) :
           /\ Takes(a, p) = SubSeq(p, 1, k) /\ Shows(a, p) = SubSeq(p, 1, k)
           /\ IF \E i \in DOMAIN p : Ends(p[i]) THEN k > 0 /\ Ends(p[k]) ELSE k = Len(p)
           /\ turn[a] # "done" => k = Len(p)
<1>1. PICK k \in 0 .. Len(p) :
        /\ UpToEnd(p) = SubSeq(p, 1, k)
        /\ IF \E i \in DOMAIN p : Ends(p[i]) THEN k > 0 /\ Ends(p[k]) ELSE k = Len(p)
  BY UpToEndIs
<1>2. Takes(a, p) = SubSeq(p, 1, k)
  BY <1>1 DEF Takes
<1>3. Len(p) \in Nat /\ DOMAIN p = 1 .. Len(p) /\ a \in Attempt
      /\ committed[a].by # "dispatch" /\ Len(SubSeq(p, 1, k)) = k
  BY LenProperties, PrefixType DEF Types, TypeOK, Lives, LifeOf
<1>4. p \in Seq(Event) /\ \A i \in 1 .. Len(p) : p[i] \in Heard(a)
  BY HeardEvents, SeqMonotonic, ElementOfSeq
<1>5. ASSUME NEW j \in k + 1 .. Len(p)
      PROVE  Ends(p[j]) /\ turn[a] = "done"
  <2>0. /\ k \in Nat /\ j \in Nat /\ k < Len(p) /\ k < j /\ j \in 1 .. Len(p)
        /\ k # Len(p) /\ j - k >= 1 /\ (k > 0 => k \in 1 .. Len(p))
    <3>1. \A m \in Nat : \A x \in 0 .. m : \A y \in x + 1 .. m :
            /\ x \in Nat /\ y \in Nat /\ x < m /\ x < y /\ y \in 1 .. m
            /\ x # m /\ y - x >= 1 /\ (x > 0 => x \in 1 .. m)
      OBVIOUS
    <3>2. QED BY <1>3, <3>1
  <2>1. k > 0 /\ Ends(p[k])
    BY <1>1, <2>0
  <2>2. Ends(p[k]) /\ k \in 1 .. Len(p) /\ j \in 1 .. Len(p) /\ j - k >= 1
    BY <2>0, <2>1
  <2>3. p[j].n = p[k].n + (j - k) /\ p[k].n \in Nat /\ p[j].n \in Nat
    BY <1>4, <2>2, InLineGrows
  <2>4. /\ p[k].n > emitted[a] - Ended(a) /\ p[k].n <= emitted[a]
        /\ emitted[a] \in Nat /\ Ended(a) \in 0 .. 2
    BY <1>3, <1>4, <2>2, HeardNumbers
  <2>5. /\ p[j].n <= emitted[a] /\ (p[j].n = 0 <=> p[j].kind = "started")
        /\ p[j].kind = "text" => p[j].n <= emitted[a] - Ended(a)
    BY <1>3, <1>4, <2>2, HeardNumbers
  <2>6. p[j].kind \in {"started", "text", "end"}
    BY <1>3, <1>4, <2>2, HeardIs
  <2>7. p[j].n > p[k].n
    BY <2>2, <2>3
  <2>8. p[j].kind # "started" /\ p[j].kind # "text"
    <3>1. \A m, n, g \in Nat : \A d \in 0 .. 2 :
            m > n /\ n > g - d => m # 0 /\ ~(m <= g - d)
      OBVIOUS
    <3>2. p[j].n # 0 /\ ~(p[j].n <= emitted[a] - Ended(a))
      BY <2>3, <2>4, <2>7, <3>1
    <3>3. QED BY <2>5, <3>2
  <2>9. Ended(a) = 2
    BY <2>3, <2>4, <2>5, <2>7
  <2>10. QED BY <2>6, <2>8, <2>9 DEF Ends, Ended
<1>6. turn[a] # "done" => k = Len(p)
  <2>1. k # Len(p) => Len(p) \in k + 1 .. Len(p)
    BY <1>3
  <2>2. QED BY <1>5, <2>1
<1>7. Shows(a, p) = SubSeq(p, 1, k)
  <2> DEFINE r == SubSeq(p, k + 1, Len(p))
             U == {e \in Event : ~Ends(e)}
             s == SubSeq(p, 1, k)
  <2>1. r \in Seq(Event) /\ Len(r) = Len(p) - k /\ s \in Seq(Event)
        /\ \A i \in 1 .. Len(p) - k : r[i] = p[k + i]
    BY <1>4, PrefixType
  <2>2. Shows(a, p) = s \o Filter(r, U)
    BY <1>2, <1>3 DEF Shows
  <2>3. \A i \in 1 .. Len(r) : r[i] \notin U
    <3>1. ASSUME NEW i \in 1 .. Len(r)
          PROVE  r[i] \notin U
      <4>1. k + i \in k + 1 .. Len(p) /\ i \in 1 .. Len(p) - k
        <5>1. \A m, l \in Nat : l <= m => \A h \in 1 .. m - l : l + h \in l + 1 .. m
          OBVIOUS
        <5>2. k \in Nat /\ k <= Len(p)
          BY <1>3
        <5>3. i \in 1 .. Len(p) - k
          BY <2>1
        <5>4. QED BY <1>3, <5>1, <5>2, <5>3
      <4>2. r[i] = p[k + i] /\ Ends(p[k + i])
        BY <1>5, <2>1, <4>1
      <4>3. QED BY <4>2
    <3>2. QED BY <3>1
  <2> HIDE DEF r, U, s
  <2>4. Filter(r, U) = <<>>
    BY <2>1, <2>3, FilterNone
  <2>5. s \o <<>> = s
    BY <2>1, ConcatEmptySeq
  <2>6. QED BY <2>2, <2>4, <2>5 DEF s
<1>8. QED BY <1>1, <1>2, <1>6, <1>7

\* The steps that apply what is behind the barrier of an attempt.
HasEnd(q) == \E i \in DOMAIN q : Ends(q[i])
Closing(a) == [by |-> "dispatch", of |-> a, to |-> "commit"]

Replays(a) ==
  /\ a \in attempts /\ a \in barrier
  /\ Apply(a, pending[a])
  /\ pending' = [pending EXCEPT ![a] = <<>>]
  /\ byNative' = [byNative EXCEPT ![SessionOf[a]] = a]
  /\ closing' = IF HasEnd(pending[a]) THEN closing \cup {Closing(a)} ELSE closing
  /\ \/ /\ barrier' = barrier /\ step' = step /\ step[a] = "accepted" /\ a \notin settled
        /\ shown' = [shown EXCEPT ![a] = @ \o Shows(a, pending[a])]
     \/ /\ barrier' = barrier \ {a} /\ step' = [step EXCEPT ![a] = "done"]
        /\ step[a] = "bound" /\ shown' = shown
  /\ UNCHANGED <<attempts, byTurn, held, provisioning, unowned, waiter, committed, announced,
                 emitted, turn, dropped, strayed>>

\* What a replay does to the account of its attempt.
LEMMA ReplayApplies ==
  ASSUME IInv, NEW a \in Attempt, Replays(a)
  PROVE  /\ a \in byTurn /\ pending[a] \in Seq(Heard(a)) /\ Line(a) = applied[a] \o pending[a]
         /\ \A b \in Attempt : b # a => applied'[b] = applied[b] /\ pending'[b] = pending[b]
                                        /\ (b \in settled' <=> b \in settled)
         /\ pending'[a] = <<>> /\ applied'[a] = applied[a] \o Takes(a, pending[a])
         /\ applied'[a] \in Seq(Heard(a))
         /\ HasEnd(pending[a]) => a \in settled' /\ Over(a)
         /\ ~HasEnd(pending[a]) => (a \in settled' <=> a \in settled)
                                   /\ Takes(a, pending[a]) = IF a \in settled THEN <<>> ELSE pending[a]
         /\ \A b \in Attempt : b \in settled' \ settled => b \in notified'
         /\ notified \subseteq notified' /\ settled \subseteq settled'
         /\ settled' \subseteq settled \cup {a}
<1>1. /\ applied' = [applied EXCEPT ![a] = @ \o Takes(a, pending[a])]
      /\ IF Settles(a, pending[a])
         THEN settled' = settled \cup {a} /\ notified' = notified \cup {a}
         ELSE settled' = settled /\ notified' = notified
      /\ pending' = [pending EXCEPT ![a] = <<>>]
      /\ a \in attempts /\ a \in barrier
  BY DEF Replays, Apply
<1>2. /\ applied \in [Attempt -> Seq(Event)] /\ pending \in [Attempt -> Seq(Event)]
      /\ a \in byTurn
  BY <1>1 DEF IInv, Types, TypeOK
<1>3. /\ pending[a] \in Seq(Heard(a)) /\ applied[a] \in Seq(Heard(a))
      /\ Line(a) = applied[a] \o pending[a]
  BY <1>2, LineIs DEF IInv
<1>4. applied'[a] = applied[a] \o Takes(a, pending[a]) /\ pending'[a] = <<>>
      /\ \A b \in Attempt : b # a => applied'[b] = applied[b] /\ pending'[b] = pending[b]
                                     /\ (b \in settled' <=> b \in settled)
  BY <1>1, <1>2
<1>5. applied'[a] \in Seq(Heard(a))
  <2> DEFINE t == Takes(a, pending[a])
  <2>1. t \in Seq(Heard(a))
    BY <1>3, TakesType
  <2> HIDE DEF t
  <2>2. applied[a] \o t \in Seq(Heard(a))
    BY <1>3, <2>1, ConcatProperties
  <2>3. QED BY <1>4, <2>2 DEF t
<1>6. HasEnd(pending[a]) => a \in settled' /\ Over(a)
  <2>1. SUFFICES ASSUME HasEnd(pending[a]) PROVE a \in settled' /\ Over(a)
    OBVIOUS
  <2>2. a \in settled'
    BY <1>1, <2>1 DEF Settles, HasEnd
  <2>3. PICK i \in 1 .. Len(pending[a]) : Ends(pending[a][i])
    BY <1>3, <2>1, LenProperties DEF HasEnd
  <2>4. pending[a][i] \in Heard(a)
    BY <1>3, ElementOfSeq
  <2>5. committed[a].by # "dispatch"
    BY <1>1 DEF IInv, Lives, LifeOf
  <2>6. QED BY <2>2, <2>3, <2>4, <2>5, HeardNumbers DEF IInv
<1>7. ~HasEnd(pending[a]) => (a \in settled' <=> a \in settled)
                             /\ Takes(a, pending[a]) = IF a \in settled THEN <<>> ELSE pending[a]
  BY <1>1 DEF Settles, HasEnd, Takes, UpToEnd
<1>8. /\ \A b \in Attempt : b \in settled' \ settled => b \in notified'
      /\ notified \subseteq notified' /\ settled \subseteq settled'
      /\ settled' \subseteq settled \cup {a}
  BY <1>1
<1>9. QED BY <1>2, <1>3, <1>4, <1>5, <1>6, <1>7, <1>8

LEMMA ReplaysLives ==
  ASSUME IInv, NEW a \in Attempt, Replays(a)
  PROVE  Lives'
<1>1. /\ a \in attempts /\ a \in barrier /\ a \in byTurn
      /\ closing' = IF HasEnd(pending[a]) THEN closing \cup {Closing(a)} ELSE closing
      /\ UNCHANGED <<attempts, byTurn, held, committed, announced, emitted, turn>>
  BY ReplayApplies DEF Replays
<1>2. /\ \A b \in Attempt : b # a => applied'[b] = applied[b] /\ (b \in settled' <=> b \in settled)
      /\ HasEnd(pending[a]) => a \in settled' /\ Over(a)
      /\ ~HasEnd(pending[a]) => (a \in settled' <=> a \in settled)
      /\ settled \subseteq settled' /\ settled' \subseteq settled \cup {a}
  BY ReplayApplies
<1>3. \/ barrier' = barrier /\ step' = step /\ step[a] = "accepted" /\ a \notin settled
      \/ barrier' = barrier \ {a} /\ step' = [step EXCEPT ![a] = "done"] /\ step[a] = "bound"
  BY DEF Replays
<1>4. \A b \in Attempt : b # a => step'[b] = step[b] /\ shown'[b] = shown[b]
                                  /\ (b \in barrier' <=> b \in barrier)
  BY DEF Replays, IInv, Types, TypeOK
<1>5. \/ step'[a] = "accepted" /\ a \in barrier'
      \/ step'[a] = "done"
  BY <1>1, <1>3 DEF IInv, Types
<1>6. Closes /\ \A b \in Attempt : LifeOf(b)
  BY DEF IInv, Lives
<1>7. LifeOf(a)'
  <2>1. turn[a] # "none" /\ step[a] # "none"
    BY <1>3, <1>6 DEF LifeOf
  <2>2. QED BY <1>1, <1>5, <1>6, <2>1 DEF LifeOf, Over, Ended, Open
<1>8. ASSUME NEW b \in Attempt, b # a
      PROVE  LifeOf(b)'
  BY <1>1, <1>2, <1>4, <1>6, <1>8 DEF LifeOf, Over, Ended, Open
<1>9. Closes'
  <2>1. \A c \in closing : c.of \in Attempt
    BY DEF IInv, Types, TypeOK
  <2>2. \A b \in Attempt : step[b] # "none" => step'[b] # "none"
    BY <1>3, <1>4, <1>5
  <2>3. Closing(a).of = a /\ Closing(a).to = "commit" /\ Closing(a).by = "dispatch"
    BY DEF Closing
  <2>4. step[a] # "none"
    BY <1>3
  <2>5. ASSUME NEW c \in closing'
        PROVE  /\ Over(c.of)' /\ step'[c.of] # "none"
               /\ c.to = "remove" => committed'[c.of].by # "nobody"
               /\ c.to = "commit" /\ Open(c.of)' => c.of \in settled'
    <3>1. CASE c \in closing
      <4>1. /\ Over(c.of) /\ step[c.of] # "none" /\ c.of \in Attempt
            /\ c.to = "remove" => committed[c.of].by # "nobody"
            /\ c.to = "commit" /\ Open(c.of) => c.of \in settled
        BY <1>6, <2>1, <3>1 DEF Closes
      <4>2. Open(c.of)' => Open(c.of)
        BY <1>1, <4>1 DEF Open
      <4>3. QED BY <1>1, <1>2, <2>2, <4>1, <4>2 DEF Over
    <3>2. CASE HasEnd(pending[a]) /\ c = Closing(a)
      BY <1>1, <1>2, <2>2, <2>3, <2>4, <3>2 DEF Over
    <3>3. QED BY <1>1, <3>1, <3>2
  <2>6. ASSUME NEW b \in settled'
        PROVE  Over(b)'
    <3>1. Over(b)
      BY <1>2, <1>6, <2>6 DEF Closes
    <3>2. QED BY <1>1, <3>1 DEF Over
  <2>7. ASSUME NEW b \in settled' \cap barrier'
        PROVE  \E c \in closing' : c.by = "dispatch" /\ c.of = b
    <3>1. CASE b \in settled
      <4>1. b \in barrier /\ closing \subseteq closing'
        BY <1>1, <1>3, <2>7
      <4>2. QED BY <1>6, <3>1, <4>1 DEF Closes
    <3>2. CASE b \notin settled
      <4>1. b = a /\ HasEnd(pending[a])
        BY <1>2, <2>7, <3>2
      <4>2. QED BY <1>1, <2>3, <4>1
    <3>3. QED BY <3>1, <3>2
  <2>8. QED BY <2>5, <2>6, <2>7 DEF Closes
<1>10. QED BY <1>7, <1>8, <1>9 DEF Lives

LEMMA ReplaysKeeps ==
  ASSUME IInv, NEW a \in Attempt, Replays(a)
  PROVE  Rest'
<1> DEFINE p == pending[a]
           x == applied[a]
<1>1. /\ UNCHANGED <<attempts, byTurn, held, provisioning, unowned, waiter, committed, announced,
                     emitted, turn, dropped, strayed>>
      /\ byNative' = [byNative EXCEPT ![SessionOf[a]] = a]
      /\ a \in attempts
  BY DEF Replays
<1>2. /\ a \in byTurn /\ p \in Seq(Heard(a)) /\ Line(a) = x \o p
      /\ \A b \in Attempt : b # a => applied'[b] = applied[b] /\ pending'[b] = pending[b]
                                     /\ (b \in settled' <=> b \in settled)
      /\ pending'[a] = <<>> /\ applied'[a] = x \o Takes(a, p)
      /\ applied'[a] \in Seq(Heard(a))
      /\ HasEnd(p) => a \in settled' /\ Over(a)
      /\ ~HasEnd(p) => (a \in settled' <=> a \in settled)
                       /\ Takes(a, p) = IF a \in settled THEN <<>> ELSE p
      /\ \A b \in Attempt : b \in settled' \ settled => b \in notified'
      /\ notified \subseteq notified' /\ settled \subseteq settled'
      /\ settled' \subseteq settled \cup {a}
  BY ReplayApplies
<1>3. \A b \in Attempt : b # a => shown'[b] = shown[b] /\ (step'[b] = "none" <=> step[b] = "none")
  BY DEF Replays, IInv, Types, TypeOK
<1>4. /\ Emitted' = Emitted /\ \A b \in Attempt : Heard(b)' = Heard(b) /\ Stream(b)' = Stream(b)
  BY <1>1 DEF Heard, Emitted, Stream, Ended
<1>5. /\ x \in Seq(Event) /\ p \in Seq(Event) /\ shown[a] \in Seq(Event)
      /\ shown[a] \in Seq(Heard(a)) /\ x \in Seq(Heard(a)) /\ SessionOf[a] \in Session
  BY CoordinatorAssumption DEF IInv, Types, TypeOK, Contents
<1>6. Indexed'
  BY <1>1, <1>2, <1>5 DEF IInv, Indexed, Types, TypeOK
<1>7. Alone'
  <2>1. \A b, c \in attempts :
          SessionOf[b] = SessionOf[c] /\ SessionOf[b] \in Codex \ announced => b = c
    BY DEF IInv, Alone
  <2>2. ASSUME NEW b \in byTurn, SessionOf[b] \in Codex \ announced
        PROVE  byNative'[SessionOf[b]] = b
    <3>1. b \in attempts /\ byNative[SessionOf[b]] = b /\ SessionOf[b] \in Session
      BY <2>2, CoordinatorAssumption DEF IInv, Alone, Types, TypeOK
    <3>2. SessionOf[b] = SessionOf[a] => b = a
      BY <1>1, <2>1, <2>2, <3>1
    <3>3. byNative'[SessionOf[b]] = IF SessionOf[b] = SessionOf[a] THEN a ELSE byNative[SessionOf[b]]
      BY <1>1, <3>1 DEF IInv, Types, TypeOK
    <3>4. QED BY <3>1, <3>2, <3>3
  <2>3. QED BY <1>1, <2>1, <2>2 DEF Alone
<1>8. shown'[a] \in Seq(Heard(a))
  <2>1. CASE shown' = shown
    BY <1>5, <2>1
  <2>2. CASE shown' = [shown EXCEPT ![a] = @ \o Shows(a, p)]
    <3> DEFINE s == Shows(a, p)
    <3>1. s \in Seq(Heard(a))
      BY <1>2, ShowsType
    <3>2. shown'[a] = shown[a] \o s
      BY <2>2 DEF IInv, Types, TypeOK
    <3> HIDE DEF s
    <3>3. QED BY <1>5, <3>1, <3>2, ConcatProperties
  <2>3. QED BY <2>1, <2>2 DEF Replays
<1>9. Contents'
  <2>1. ASSUME NEW b \in Attempt
        PROVE  /\ pending'[b] \in Seq(Heard(b)) /\ applied'[b] \in Seq(Heard(b))
               /\ shown'[b] \in Seq(Heard(b))
    <3>1. CASE b = a
      BY <1>2, <1>8, <3>1, EmptySeq
    <3>2. CASE b # a
      BY <1>2, <1>3, <3>2 DEF IInv, Contents
    <3>3. QED BY <3>1, <3>2
  <2>2. QED BY <1>1, <1>4, <2>1 DEF IInv, Contents
<1>10. Lines'
  <2>1. ASSUME NEW b \in Attempt, b \notin settled' \cup strayed, b \in attempts \/ step'[b] = "none"
        PROVE  Tells(Line(b)', emitted[b], b \in dropped)
    <3>1. CASE b # a
      <4>1. Line(b)' = Line(b)
        BY <1>1, <1>2, <1>4, <3>1 DEF Line
      <4>2. QED BY <1>2, <1>3, <2>1, <3>1, <4>1 DEF IInv, Lines
    <3>2. CASE b = a
      <4>1. a \notin settled /\ ~HasEnd(p)
        BY <1>2, <2>1, <3>2
      <4>2. applied'[a] = x \o p
        BY <1>2, <4>1
      <4>3. Filter(unowned, Stream(a)) = <<>>
        BY <1>2, LineIs DEF IInv
      <4>4. Line(a)' = applied'[a] \o <<>> \o <<>>
        BY <1>1, <1>2, <1>4, <4>3 DEF Line
      <4>5. (x \o p) \o <<>> = x \o p
        <5> DEFINE z == x \o p
        <5>1. z \in Seq(Event)
          BY <1>5
        <5> HIDE DEF z
        <5>2. z \o <<>> = z
          BY <5>1, ConcatEmptySeq
        <5>3. QED BY <5>2 DEF z
      <4>6. Line(a)' = Line(a)
        BY <1>2, <4>2, <4>4, <4>5
      <4>7. QED BY <1>1, <2>1, <3>2, <4>1, <4>6 DEF IInv, Lines
    <3>3. QED BY <3>1, <3>2
  <2>2. QED BY <1>1, <2>1 DEF Lines
<1>11. Settlements'
  <2>1. ASSUME a \in settled' \ settled, a \notin strayed
        PROVE  Whole(applied'[a], a \in dropped)
    <3>1. HasEnd(p) /\ Over(a)
      BY <1>2, <2>1
    <3>2. Tells(x \o p, emitted[a], a \in dropped)
      BY <1>1, <1>2, <2>1 DEF IInv, Lines
    <3>3. emitted[a] \in Nat /\ emitted[a] > 0
      <4>1. committed[a].by # "dispatch" /\ Ended(a) <= emitted[a] /\ emitted[a] \in Nat
        BY <1>1 DEF IInv, Lives, LifeOf, Types
      <4>2. Ended(a) >= 1
        BY <3>1 DEF Ended, Over
      <4>3. QED BY <4>1, <4>2 DEF Ended
    <3>4. PICK k \in 0 .. Len(p) : UpToEnd(p) = SubSeq(p, 1, k) /\ k > 0 /\ Ends(p[k])
      BY <1>5, <3>1, UpToEndIs DEF HasEnd
    <3>5. Takes(a, p) = SubSeq(p, 1, k)
      BY <2>1, <3>4 DEF Takes
    <3>6. k \in 1 .. Len(p) /\ (a \in dropped) \in BOOLEAN
      BY <3>4
    <3> HIDE DEF p, x
    <3>7. Whole(x \o SubSeq(p, 1, k), a \in dropped)
      BY <1>5, <3>2, <3>3, <3>4, <3>6, WholePrefix
    <3>8. QED BY <1>2, <3>5, <3>7
  <2>2. ASSUME a \in settled
        PROVE  applied'[a] = applied[a]
    <3>1. Takes(a, p) = <<>>
      BY <2>2 DEF Takes
    <3>2. QED BY <1>2, <1>5, <3>1, ConcatEmptySeq
  <2>3. ASSUME NEW b \in Attempt \ strayed
        PROVE  b \in settled' => Whole(applied'[b], b \in dropped)
    BY <1>2, <2>1, <2>2 DEF IInv, Settlements
  <2>4. QED BY <1>1, <1>4, <2>3 DEF IInv, Settlements
<1>12. Shown'
  <2>1. ASSUME a \notin strayed
        PROVE  /\ InLine(shown'[a])
               /\ turn[a] # "done" /\ shown'[a] # <<>> => Last(shown'[a]).n = emitted[a]
    <3>1. InLine(shown[a] \o p)
      BY <2>1 DEF IInv, Shown
    <3>2. CASE shown' = shown /\ step[a] = "bound"
      <4>1. shown'[a] = <<>>
        BY <3>2 DEF IInv, Lives, LifeOf
      <4>2. InLine(<<>>)
        BY EmptySeq DEF InLine
      <4>3. QED BY <4>1, <4>2
    <3>3. CASE shown' = [shown EXCEPT ![a] = @ \o Shows(a, p)] /\ a \notin settled
      <4>1. shown'[a] = shown[a] \o Shows(a, p)
        BY <3>3 DEF IInv, Types, TypeOK
      <4>2. InLine(p)
        BY <1>5, <3>1, InLineParts
      <4>3. a \in attempts \ settled
        BY <1>1, <3>3
      <4> HIDE DEF p
      <4>4. PICK k \in 0 .. Len(p) : /\ Shows(a, p) = SubSeq(p, 1, k)
                                     /\ turn[a] # "done" => k = Len(p)
        BY <1>2, <4>2, <4>3, ShowsIs DEF IInv
      <4>5. InLine(shown[a] \o SubSeq(p, 1, k))
        BY <1>5, <3>1, ConcatPrefix
      <4>6. turn[a] # "done" => shown'[a] = shown[a] \o p
        <5>1. SubSeq(p, 1, Len(p)) = p
          BY <1>5, SubSeqFull
        <5>2. QED BY <4>1, <4>4, <5>1
      <4>7. turn[a] # "done" /\ shown[a] \o p # <<>> => Last(shown[a] \o p).n = emitted[a]
        BY <1>2, <2>1 DEF IInv, Shown, p
      <4>8. QED BY <4>1, <4>4, <4>5, <4>6, <4>7
    <3>4. QED BY <3>2, <3>3 DEF Replays
  <2>2. shown'[a] \o <<>> = shown'[a]
    BY <1>8, ConcatEmptySeq
  <2>3. QED BY <1>1, <1>2, <1>3, <2>1, <2>2 DEF IInv, Shown
<1>13. KeptEventsAreOnHold'
  BY <1>1 DEF IInv, KeptEventsAreOnHold, Held, ExactlyHeld, ProvisioningHeld, NativeOf, Scope
<1>14. WaitersAreWoken'
  BY <1>1, <1>2 DEF IInv, WaitersAreWoken
<1>15. QED BY <1>6, <1>7, <1>9, <1>10, <1>11, <1>12, <1>13, <1>14, ReplaysLives DEF Rest

LEMMA EndBeforeKeeps ==
  ASSUME IInv, NEW a \in Attempt, EndBeforeAcknowledgement(a)
  PROVE  Rest'
<1>1. Replays(a)
  <2>1. /\ step[a] = "bound" /\ a \in attempts
        /\ HasEnd(pending[a]) /\ Apply(a, pending[a])
        /\ pending' = [pending EXCEPT ![a] = <<>>] /\ barrier' = barrier \ {a}
        /\ closing' = closing \cup {Closing(a)}
        /\ byNative' = [byNative EXCEPT ![SessionOf[a]] = a]
        /\ step' = [step EXCEPT ![a] = "done"]
        /\ UNCHANGED <<attempts, byTurn, held, provisioning, unowned, waiter, committed,
                       announced, emitted, turn, shown, dropped, strayed>>
    BY DEF EndBeforeAcknowledgement, Goes, HasEnd, Closing, holds, engine, history
  <2>2. a \in barrier
    BY <2>1 DEF IInv, Lives, LifeOf
  <2>3. QED BY <2>1, <2>2 DEF Replays
<1>2. QED BY <1>1, ReplaysKeeps

LEMMA DrainKeeps ==
  ASSUME IInv, NEW a \in Attempt, Drain(a)
  PROVE  Rest'
<1>1. Replays(a)
  <2>1. /\ step[a] = "accepted" /\ DispatchIsFree(a) /\ a \in barrier
        /\ Apply(a, pending[a])
        /\ shown' = [shown EXCEPT ![a] = @ \o Shows(a, pending[a])]
        /\ closing' = IF Settles(a, pending[a]) THEN closing \cup {Closing(a)} ELSE closing
        /\ pending' = [pending EXCEPT ![a] = <<>>]
        /\ byNative' = [byNative EXCEPT ![SessionOf[a]] = a]
        /\ UNCHANGED <<attempts, byTurn, held, provisioning, unowned, barrier, step, waiter,
                       committed, announced, emitted, turn, dropped, strayed>>
    BY DEF Drain, Closing, holds, engine
  <2>2. a \notin settled
    BY <2>1 DEF DispatchIsFree, IInv, Lives, Closes
  <2>3. Settles(a, pending[a]) <=> HasEnd(pending[a])
    BY <2>2 DEF Settles, HasEnd
  <2>4. a \in attempts
    BY <2>1 DEF IInv, Types, TypeOK
  <2>5. QED BY <2>1, <2>2, <2>3, <2>4 DEF Replays
<1>2. QED BY <1>1, ReplaysKeeps


-----------------------------------------------------------------------------
(* Binding the turn of an attempt.                                         *)

\* What an attempt gets when its turn is bound.
LEMMA GetsIs ==
  ASSUME Types, Indexed, NEW a \in attempts, NEW native, a \notin byTurn,
         native = [byNative EXCEPT ![SessionOf[a]] = a], NEW e \in Emitted
  PROVE  Gets(e, a, native) <=> \/ e.of = a /\ e.kind # "started"
                                \/ e.of = SessionOf[a] /\ e.kind = "started"
<1>1. /\ a \in Attempt /\ SessionOf[a] \in Session /\ SessionOf[a] \notin Attempt
      /\ byNative \in [Session -> attempts \cup {None}] /\ None \notin Attempt
      /\ attempts \subseteq Attempt
  BY NoneIsNoAttempt, CoordinatorAssumption DEF Types, TypeOK
<1>2. \A s \in Session : native[s] = IF s = SessionOf[a] THEN a ELSE byNative[s]
  BY <1>1
<1>3. \A s \in Session : byNative[s] # None => byNative[s] \in byTurn
  BY DEF Indexed
<1>4. CASE e.kind # "started"
  <2>1. e.of \in Attempt /\ HasTurn(e)
    BY <1>4 DEF Emitted, HasTurn
  <2>2. CASE e.of \in byTurn \cup {a}
    <3>1. Owner(e, byTurn \cup {a}, native) = e.of
      BY <2>1, <2>2 DEF Owner
    <3>2. QED BY <1>4, <3>1 DEF Gets
  <2>3. CASE e.of \notin byTurn \cup {a}
    <3>1. NativeOf(e) = SessionOf[e.of] /\ NativeOf(e) \in Session
      BY <2>1, CoordinatorAssumption DEF NativeOf
    <3>2. native[NativeOf(e)] \in attempts => native[NativeOf(e)] \in byTurn \cup {a}
      BY <1>1, <1>2, <1>3, <3>1
    <3>3. Owner(e, byTurn \cup {a}, native) = None
      BY <2>1, <2>3, <3>2 DEF Owner
    <3>4. QED BY <1>1, <1>4, <2>3, <3>3 DEF Gets
  <2>4. QED BY <2>2, <2>3
<1>5. CASE e.kind = "started"
  <2>1. e.of \notin Attempt /\ ~HasTurn(e)
    BY <1>5 DEF Emitted, HasTurn
  <2>2. NativeOf(e) = e.of
    BY <2>1 DEF NativeOf
  <2>3. Owner(e, byTurn \cup {a}, native) =
          IF e.of \in Session /\ native[e.of] \in attempts THEN native[e.of] ELSE None
    BY <2>1, <2>2 DEF Owner
  <2>4. e.of \in Session /\ native[e.of] = a => e.of = SessionOf[a]
    BY <1>1, <1>2, <1>3
  <2>5. QED BY <1>1, <1>2, <1>5, <2>3, <2>4 DEF Gets
<1>6. QED BY <1>4, <1>5

LEMMA BindLives ==
  ASSUME IInv, NEW a \in Attempt, BindRuntimeTurn(a)
  PROVE  Lives' /\ Indexed' /\ Alone'
<1>1. /\ step[a] = "sent" /\ a \in attempts
      /\ byNative' = [byNative EXCEPT ![SessionOf[a]] = a]
      /\ byTurn' = byTurn \cup {a} /\ barrier' = barrier \cup {a}
      /\ provisioning' = provisioning \ {a}
      /\ held' = [s \in Session |-> IF held[s] = a THEN None ELSE held[s]]
      /\ step' = [step EXCEPT ![a] = IF a \in Acks THEN "bound" ELSE "acknowledged"]
      /\ UNCHANGED <<attempts, applied, settled, waiter, notified, closing, committed,
                     announced, emitted, turn, shown, dropped>>
  BY DEF BindRuntimeTurn, Goes, waits, ends, engine
<1>2. /\ step'[a] \in {"bound", "acknowledged"}
      /\ \A b \in Attempt : b # a => step'[b] = step[b]
  BY <1>1 DEF IInv, Types
<1>3. /\ \A b \in Attempt : LifeOf(b) /\ SessionOf[b] \in Session
      /\ Closes /\ a \notin byTurn /\ turn[a] # "none" /\ a \notin settled
      /\ shown[a] = <<>> /\ None # a
  BY <1>1, NoneIsNoAttempt, CoordinatorAssumption DEF IInv, Lives, LifeOf
<1>4. \A s \in Session : held'[s] = IF held[s] = a THEN None ELSE held[s]
  BY <1>1
<1>5. LifeOf(a)'
  BY <1>1, <1>2, <1>3 DEF LifeOf, Over, Ended, Open
<1>6. ASSUME NEW b \in Attempt, b # a
      PROVE  LifeOf(b)'
  <2>1. LifeOf(b) /\ SessionOf[b] \in Session
    BY <1>3
  <2>2. held[SessionOf[b]] = b => held'[SessionOf[b]] = b
    BY <1>4, <1>6, <2>1
  <2>3. QED BY <1>1, <1>2, <1>6, <2>1, <2>2 DEF LifeOf, Over, Ended, Open
<1>7. Closes'
  <2>1. \A c \in closing : c.of \in Attempt
    BY DEF IInv, Types, TypeOK
  <2>2. \A b \in Attempt : step[b] # "none" => step'[b] # "none"
    BY <1>2
  <2>3. \A b \in Attempt : Open(b)' => Open(b)
    BY <1>1, <1>2 DEF Open
  <2>4. QED BY <1>1, <1>3, <2>1, <2>2, <2>3 DEF Closes, Over
<1>8. Lives'
  BY <1>5, <1>6, <1>7 DEF Lives
<1>9. \A s \in Session : byNative'[s] = IF s = SessionOf[a] THEN a ELSE byNative[s]
  BY <1>1 DEF IInv, Types, TypeOK
<1>10. Indexed'
  BY <1>1, <1>4, <1>9 DEF IInv, Indexed
<1>11. Alone'
  <2>1. \A b, c \in attempts :
          SessionOf[b] = SessionOf[c] /\ SessionOf[b] \in Codex \ announced => b = c
    BY DEF IInv, Alone
  <2>2. ASSUME NEW b \in byTurn', SessionOf[b] \in Codex \ announced
        PROVE  byNative'[SessionOf[b]] = b
    <3>1. CASE b = a
      BY <1>3, <1>9, <3>1
    <3>2. CASE b # a
      <4>1. b \in byTurn /\ b \in attempts /\ b \in Attempt
        BY <1>1, <3>2 DEF IInv, Types, TypeOK
      <4>2. SessionOf[b] # SessionOf[a]
        BY <1>1, <2>1, <2>2, <3>2, <4>1
      <4>3. byNative[SessionOf[b]] = b
        BY <2>2, <4>1 DEF IInv, Alone
      <4>4. QED BY <1>3, <1>9, <4>1, <4>2, <4>3
    <3>3. QED BY <3>1, <3>2
  <2>3. QED BY <1>1, <2>1, <2>2 DEF Alone
<1>12. QED BY <1>8, <1>10, <1>11

LEMMA BindKeeps ==
  ASSUME IInv, NEW a \in Attempt, BindRuntimeTurn(a)
  PROVE  Rest'
<1> DEFINE native == [byNative EXCEPT ![SessionOf[a]] = a]
           others == {b \in attempts \ {a} : \E i \in DOMAIN unowned :
                        /\ Claimant(unowned[i]) = b
                        /\ ~Stays(unowned[i], a, native)
                        /\ ~Gets(unowned[i], a, native)}
           S == {e \in Event : Stays(e, a, native)}
           G == {e \in Event : Gets(e, a, native)}
           u == unowned
<1>1. /\ step[a] = "sent" /\ a \in attempts
      /\ unowned' = Filter(u, S) /\ strayed' = strayed \cup others
      /\ pending' = [pending EXCEPT ![a] = @ \o Filter(Filter(u, G), NoEcho)]
      /\ provisioning' = provisioning \ {a}
      /\ byTurn' = byTurn \cup {a}
      /\ step' = [step EXCEPT ![a] = IF a \in Acks THEN "bound" ELSE "acknowledged"]
      /\ UNCHANGED <<attempts, applied, settled, waiter, notified, committed,
                     announced, emitted, turn, shown, dropped>>
  BY DEF BindRuntimeTurn, QueueBehind, Goes, waits, ends, engine
<1>2. /\ a \notin byTurn /\ a \notin settled /\ shown[a] = <<>>
      /\ pending[a] = <<>> /\ applied[a] = <<>>
      /\ Filter(u, Stream(a)) = Line(a) /\ Line(a) \in Seq(Heard(a))
  <2>1. a \notin byTurn /\ a \notin settled /\ shown[a] = <<>>
    BY <1>1 DEF IInv, Lives, LifeOf
  <2>2. QED BY <2>1, LineIs DEF IInv
<1>3. /\ Emitted' = Emitted /\ \A b \in Attempt : Heard(b)' = Heard(b) /\ Stream(b)' = Stream(b)
  BY <1>1 DEF Heard, Emitted, Stream, Ended
<1>4. /\ u \in Seq(Event) /\ u \in Seq(Emitted)
      /\ \A i \in DOMAIN u : u[i] \in Emitted /\ u[i] \in Event
  <2>1. u \in Seq(Event) /\ u \in Seq(Emitted)
    BY DEF IInv, Contents, Types, TypeOK
  <2>2. QED BY <2>1, LenProperties, ElementOfSeq
<1>5. \A e \in Emitted : Gets(e, a, native) <=> \/ e.of = a /\ e.kind # "started"
                                                \/ e.of = SessionOf[a] /\ e.kind = "started"
  BY <1>1, <1>2, GetsIs DEF IInv
<1>6. \A e \in Emitted : e \in G /\ e \in NoEcho <=> e \in Stream(a)
  <2>1. \A e \in Emitted : e \in Event /\ e.kind \in {"started", "echo", "text", "end"}
    BY DEF Emitted, Event
  <2>2. QED BY <1>5, <2>1 DEF NoEcho, Stream
<1>7. \A e \in S : Stays(e, a, native) /\ ~Gets(e, a, native)
  BY DEF Stays, Gets
<1>8. \A e \in Emitted : e \in S => e \notin Stream(a)
  BY <1>6, <1>7
<1> DEFINE l == Line(a)
<1>9. l \in Seq(Heard(a)) /\ l \in Seq(Event) /\ <<>> \o l = l /\ l \o <<>> = l
  <2>1. l \in Seq(Heard(a)) /\ l \in Seq(Event)
    BY <1>2, LineIs DEF IInv
  <2> HIDE DEF l
  <2>2. QED BY <2>1, ConcatEmptySeq
<1>10. /\ pending'[a] = l
       /\ \A b \in Attempt : b # a => pending'[b] = pending[b] /\ step'[b] = step[b]
  <2>1. Filter(Filter(u, G), NoEcho) = l
    <3>1. Filter(Filter(u, G), NoEcho) = Filter(u, G \cap NoEcho)
      <4> HIDE DEF G, u
      <4>1. QED BY <1>4, FilterFilter
    <3>2. \A i \in 1 .. Len(u) : u[i] \in G \cap NoEcho <=> u[i] \in Stream(a)
      BY <1>4, <1>6, LenProperties
    <3>3. Filter(u, G \cap NoEcho) = Filter(u, Stream(a))
      <4> HIDE DEF G, u
      <4>1. QED BY <1>4, <3>2, FilterSame
    <3>4. QED BY <1>2, <3>1, <3>3
  <2> HIDE DEF l
  <2>2. pending'[a] = pending[a] \o Filter(Filter(u, G), NoEcho)
    BY <1>1 DEF IInv, Types, TypeOK
  <2>3. QED BY <1>1, <1>2, <1>9, <2>1, <2>2 DEF IInv, Types, TypeOK
<1> HIDE DEF l, native, others, G
<1>11. \A i \in DOMAIN unowned' : unowned'[i] \in S /\ \E j \in DOMAIN u : u[j] = unowned'[i]
  <2> HIDE DEF S
  <2>1. ASSUME NEW i \in DOMAIN unowned'
        PROVE  unowned'[i] \in S /\ \E j \in DOMAIN u : u[j] = unowned'[i]
    BY <1>1, <1>4, <2>1, FilterFrom
  <2>2. QED BY <2>1
<1>12. \A i \in DOMAIN unowned' : unowned'[i] \notin Stream(a)
  BY <1>4, <1>8, <1>11
<1>13. Contents'
  <2>1. unowned' \in Seq(Emitted')
    <3> HIDE DEF S
    <3>1. unowned' \in Seq(Emitted \cap S)
      BY <1>1, <1>4, FilterType
    <3>2. QED BY <1>3, <3>1, SeqMonotonic
  <2>2. ASSUME NEW b \in byTurn', NEW i \in DOMAIN unowned'
        PROVE  unowned'[i] \notin Stream(b)'
    <3>1. b \in Attempt
      BY <1>1 DEF IInv, Types, TypeOK
    <3>2. CASE b = a
      BY <1>3, <1>12, <3>1, <3>2
    <3>3. CASE b # a
      <4>1. b \in byTurn
        BY <1>1, <3>3
      <4>2. QED BY <1>3, <1>11, <3>1, <4>1 DEF IInv, Contents
    <3>4. QED BY <3>2, <3>3
  <2>3. ASSUME NEW b \in Attempt
        PROVE  pending'[b] \in Seq(Heard(b))
    <3>1. CASE b = a
      BY <1>9, <1>10, <3>1
    <3>2. CASE b # a
      BY <1>10, <3>2 DEF IInv, Contents
    <3>3. QED BY <3>1, <3>2
  <2>4. QED BY <1>1, <1>3, <2>1, <2>2, <2>3 DEF IInv, Contents
<1>14. Line(a)' = l
  <2>1. Filter(unowned', Stream(a)) = <<>>
    <3>1. unowned' \in Seq(Event) /\ \A i \in 1 .. Len(unowned') : unowned'[i] \notin Stream(a)
      <4> HIDE DEF S
      <4>1. unowned' \in Seq(Event \cap S)
        BY <1>1, <1>4, FilterType
      <4>2. unowned' \in Seq(Event)
        BY <4>1, SeqMonotonic
      <4>3. QED BY <1>12, <4>2, LenProperties
    <3>2. QED BY <3>1, FilterNone
  <2>2. Line(a)' = applied[a] \o pending'[a] \o Filter(unowned', Stream(a))
    BY <1>1, <1>3 DEF Line
  <2>3. Line(a)' = (<<>> \o l) \o <<>>
    BY <1>2, <1>10, <2>1, <2>2
  <2>4. QED BY <1>9, <2>3
<1>15. Lines'
  <2>1. ASSUME NEW b \in Attempt, b \notin settled' \cup strayed', b \in attempts \/ step'[b] = "none"
        PROVE  Tells(Line(b)', emitted[b], b \in dropped)
    <3>1. CASE b = a
      <4>1. Tells(l, emitted[a], a \in dropped)
        BY <1>1, <2>1, <3>1 DEF IInv, Lines, l
      <4>2. QED BY <1>14, <3>1, <4>1
    <3>2. CASE b # a
      <4>1. b \in Attempt \ (settled \cup strayed) /\ (b \in attempts \/ step[b] = "none")
        BY <1>1, <1>10, <2>1, <3>2
      <4>2. ASSUME NEW i \in DOMAIN u, u[i] \in Stream(b), u[i].n # 0
            PROVE  u[i] \in S
        <5>1. PICK e \in Emitted : e = u[i] /\ e \in Event /\ e \in Stream(b)
          BY <1>4, <4>2
        <5>2. e.kind # "started" /\ e.of = b
          BY <4>2, <5>1 DEF Emitted, Stream
        <5>3. ~Gets(e, a, native)
          BY <1>5, <3>2, <5>2 DEF native
        <5>4. b \in attempts
          <6>1. SUFFICES ASSUME step[b] = "none" PROVE FALSE
            BY <4>1
          <6>2. committed[b].by # "dispatch" /\ emitted[b] = 0
            BY <4>1, <6>1, GoesOn DEF IInv, Lives, LifeOf
          <6>3. e \in Heard(b)
            BY <5>1 DEF Heard
          <6>4. e.n = 0
            BY <4>1, <6>2, <6>3, NothingSaid DEF IInv
          <6>5. QED BY <4>2, <5>1, <6>4
        <5>5. Claimant(e) = b
          BY <2>1, <5>2 DEF Claimant
        <5>6. Stays(e, a, native)
          BY <1>1, <2>1, <3>2, <4>2, <5>1, <5>3, <5>4, <5>5 DEF others
        <5>7. QED BY <5>1, <5>6
      <4>3. \A i \in DOMAIN unowned : unowned[i] \in Stream(b) => unowned[i] \in S \/ unowned[i].n = 0
        BY <4>2
      <4> HIDE DEF S
      <4>4. Tells(applied[b] \o pending[b] \o Filter(Filter(unowned, S), Stream(b)),
                  emitted[b], b \in dropped)
        BY <4>1, <4>3, LetGo
      <4>5. Line(b)' = applied[b] \o pending[b] \o Filter(Filter(unowned, S), Stream(b))
        BY <1>1, <1>3, <1>10, <3>2 DEF Line
      <4>6. QED BY <4>4, <4>5
    <3>3. QED BY <3>1, <3>2
  <2>2. QED BY <1>1, <2>1 DEF Lines
<1>16. Shown'
  <2>1. ASSUME a \notin strayed
        PROVE  Tells(l, emitted[a], a \in dropped)
    BY <1>1, <1>2, <2>1 DEF IInv, Lines, l
  <2>2. shown'[a] \o pending'[a] = l
    BY <1>1, <1>2, <1>9, <1>10
  <2>3. ASSUME NEW b \in Attempt \ strayed', b # a
        PROVE  shown'[b] \o pending'[b] = shown[b] \o pending[b] /\ (b \in byTurn' <=> b \in byTurn)
    BY <1>1, <1>10, <2>3
  <2>4. ASSUME NEW b \in Attempt \ strayed'
        PROVE  /\ InLine(shown'[b] \o pending'[b])
               /\ b \in byTurn' /\ turn[b] # "done" /\ shown'[b] \o pending'[b] # <<>> =>
                    Last(shown'[b] \o pending'[b]).n = emitted[b]
    <3>1. b \notin strayed
      BY <1>1
    <3>2. CASE b = a
      <4>1. Tells(l, emitted[a], a \in dropped)
        BY <2>1, <3>1, <3>2
      <4>2. QED BY <2>2, <3>2, <4>1 DEF Tells
    <3>3. CASE b # a
      BY <2>3, <3>1, <3>3 DEF IInv, Shown
    <3>4. QED BY <3>2, <3>3
  <2>5. QED BY <1>1, <2>4 DEF Shown
<1>17. Settlements'
  BY <1>1, <1>3 DEF IInv, Settlements
<1>18. KeptEventsAreOnHold'
  <2>1. ASSUME NEW e \in S, Held(e)
        PROVE  Held(e)'
    <3>1. CASE ProvisioningHeld(e, (provisioning \ {a}) \cap attempts)
      BY <1>1, <3>1 DEF Held, ProvisioningHeld, NativeOf, Scope
    <3>2. CASE ~ExactlyHeld(e, held) /\ e.kind # "started"
      BY <2>1, <3>2 DEF Held, ProvisioningHeld
    <3>3. QED BY <3>1, <3>2 DEF Stays
  <2>2. \A i \in DOMAIN unowned' : unowned'[i] \in S /\ Held(unowned'[i])
    BY <1>11 DEF IInv, KeptEventsAreOnHold
  <2>3. QED BY <2>1, <2>2 DEF KeptEventsAreOnHold, Held, ExactlyHeld, ProvisioningHeld,
               NativeOf, Scope
<1>19. WaitersAreWoken'
  BY <1>1 DEF IInv, WaitersAreWoken
<1>20. QED BY <1>13, <1>15, <1>16, <1>17, <1>18, <1>19, BindLives DEF Rest

-----------------------------------------------------------------------------
(* The readers of the engines.                                             *)

\* An event that a reader reads: of a turn that is not over, or the start of a
\* thread that was not announced.
Reading(e) ==
  /\ e \in Event /\ emitted' \in [Attempt -> Nat]
  /\ UNCHANGED <<held, provisioning, step, committed>>
  /\ \/ /\ e.of \in Attempt /\ e.kind # "started"
        /\ turn[e.of] \notin {"none", "done"} /\ turn'[e.of] # "none"
        /\ announced' = announced
        /\ SessionOf[e.of] \in Codex => SessionOf[e.of] \in announced
        /\ \A b \in Attempt : b # e.of => turn'[b] = turn[b] /\ emitted'[b] = emitted[b]
        /\ \/ /\ e.kind = "echo" /\ e.n = 0 /\ emitted'[e.of] = emitted[e.of]
              /\ Ended(e.of)' = Ended(e.of)
           \/ /\ e.kind = "text" /\ e.n = emitted[e.of] + 1 /\ emitted'[e.of] = e.n
              /\ Ended(e.of) = 0 /\ Ended(e.of)' = 0
           \/ /\ e.kind = "end" /\ e.n = emitted[e.of] + 1 /\ emitted'[e.of] = e.n
              /\ Ended(e.of)' = Ended(e.of) + 1
     \/ /\ e.of \in (Codex \cup Plain) \ announced /\ e.kind = "started" /\ e.n = 0
        /\ announced' = announced \cup {e.of} /\ emitted' = emitted /\ turn' = turn

LEMMA EndedIs ==
  ASSUME NEW a \in Attempt
  PROVE  /\ Ended(a) \in 0 .. 2 /\ (Ended(a) = 0 <=> ~Over(a))
         /\ Ended(a)' \in 0 .. 2 /\ (Ended(a)' = 0 <=> ~Over(a)')
         /\ Ended(a)' = 2 <=> turn'[a] = "done"
         /\ Ended(a) = 2 <=> turn[a] = "done"
BY DEF Ended, Over

\* The engines go on.
LEMMA ReadingTurns ==
  ASSUME Types, Lives, NEW e, Reading(e), NEW b \in Attempt
  PROVE  /\ Over(b) => Over(b)'
         /\ turn'[b] = "none" <=> turn[b] = "none"
         /\ turn[b] = "done" => turn'[b] = "done"
         /\ emitted[b] \in Nat /\ emitted'[b] \in Nat /\ emitted[b] <= emitted'[b]
         /\ emitted[b] - Ended(b) <= emitted'[b] - Ended(b)'
         /\ Ended(b) = 0 \/ emitted'[b] - Ended(b)' = emitted[b] - Ended(b)
         /\ committed[b].by # "dispatch" => Ended(b)' <= emitted'[b]
         /\ turn[b] = "none" => emitted'[b] = 0
         /\ emitted'[b] > 0 /\ SessionOf[b] \in Codex => SessionOf[b] \in announced'
         /\ announced \subseteq announced'
         /\ e.kind = "end" /\ e.of = b => Over(b)'
<1>1. /\ Ended(b) \in 0 .. 2 /\ (Ended(b) = 0 <=> ~Over(b))
      /\ Ended(b)' \in 0 .. 2 /\ (Ended(b)' = 0 <=> ~Over(b)')
      /\ Ended(b)' = 2 <=> turn'[b] = "done"
      /\ Ended(b) = 2 <=> turn[b] = "done"
  BY EndedIs
<1>2. /\ emitted[b] \in Nat /\ emitted'[b] \in Nat
      /\ committed[b].by # "dispatch" => Ended(b) <= emitted[b]
      /\ turn[b] = "none" => emitted[b] = 0
      /\ emitted[b] > 0 /\ SessionOf[b] \in Codex => SessionOf[b] \in announced
  BY DEF Reading, Types, Lives, LifeOf
<1>3. announced \subseteq announced'
  BY DEF Reading
<1>4. CASE turn'[b] = turn[b] /\ emitted'[b] = emitted[b] /\ ~(e.kind = "end" /\ e.of = b)
  <2>1. Ended(b)' = Ended(b) /\ (Over(b)' <=> Over(b))
    BY <1>4 DEF Ended, Over
  <2>2. QED BY <1>1, <1>2, <1>3, <1>4, <2>1
<1>5. CASE /\ e.of = b /\ turn[b] \notin {"none", "done"} /\ turn'[b] # "none"
           /\ announced' = announced
           /\ SessionOf[b] \in Codex => SessionOf[b] \in announced
           /\ \/ /\ e.kind = "echo" /\ e.n = 0 /\ emitted'[b] = emitted[b]
                 /\ Ended(b)' = Ended(b)
              \/ /\ e.kind = "text" /\ e.n = emitted[b] + 1 /\ emitted'[b] = e.n
                 /\ Ended(b) = 0 /\ Ended(b)' = 0
              \/ /\ e.kind = "end" /\ e.n = emitted[b] + 1 /\ emitted'[b] = e.n
                 /\ Ended(b)' = Ended(b) + 1
  <2>1. CASE e.kind = "echo" /\ emitted'[b] = emitted[b] /\ Ended(b)' = Ended(b)
    BY <1>1, <1>2, <1>3, <1>5, <2>1
  <2>2. CASE e.kind = "text" /\ emitted'[b] = emitted[b] + 1 /\ Ended(b) = 0 /\ Ended(b)' = 0
    BY <1>1, <1>2, <1>3, <1>5, <2>2
  <2>3. CASE e.kind = "end" /\ emitted'[b] = emitted[b] + 1 /\ Ended(b)' = Ended(b) + 1
    BY <1>1, <1>2, <1>3, <1>5, <2>3
  <2>4. QED BY <1>5, <2>1, <2>2, <2>3
<1>6. CASE e.kind = "started" /\ emitted' = emitted /\ turn' = turn
  BY <1>4, <1>6
<1>7. CASE e.of # b /\ turn'[b] = turn[b] /\ emitted'[b] = emitted[b]
  BY <1>4, <1>7
<1>8. QED BY <1>5, <1>6, <1>7 DEF Reading

\* What was read stays read, and what is read now is for who it is about.
LEMMA ReadingIs ==
  ASSUME Types, Lives, NEW e, Reading(e)
  PROVE  /\ Emitted \subseteq Emitted' /\ e \in Emitted'
         /\ \A b \in Attempt : /\ Heard(b) \subseteq Heard(b)' /\ Stream(b)' = Stream(b)
                               /\ e \in Stream(b) => e \in Heard(b)'
<1>1. announced \subseteq announced' /\ emitted' \in [Attempt -> Nat] /\ committed' = committed
  BY DEF Reading
<1>2. ASSUME NEW b \in Attempt
      PROVE  /\ emitted[b] <= emitted'[b]
             /\ emitted[b] - Ended(b) <= emitted'[b] - Ended(b)'
             /\ Ended(b) = 0 \/ emitted'[b] - Ended(b)' = emitted[b] - Ended(b)
  BY ReadingTurns
<1>3. /\ Emitted \subseteq Emitted'
      /\ \A b \in Attempt : Heard(b) \subseteq Heard(b)' /\ Stream(b)' = Stream(b)
  BY <1>1, <1>2, EmittedGrows
<1>4. e \in Emitted'
  <2>1. CASE e.of \in Attempt /\ e.kind # "started"
    <3>1. PICK a \in Attempt : a = e.of
      BY <2>1
    <3>2. emitted[a] \in Nat /\ Ended(a) \in 0 .. 2
      BY EndedIs DEF Types
    <3>3. \/ e.kind = "echo" /\ e.n = 0
          \/ e.kind = "text" /\ e.n = emitted[a] + 1 /\ emitted'[a] = emitted[a] + 1 /\ Ended(a)' = 0
          \/ /\ e.kind = "end" /\ e.n = emitted[a] + 1 /\ emitted'[a] = emitted[a] + 1
             /\ Ended(a)' = Ended(a) + 1
      BY <2>1, <3>1 DEF Reading
    <3>4. e.kind = "text" => e.n \in 1 .. emitted'[a] - Ended(a)'
      BY <3>2, <3>3
    <3>5. e.kind = "end" => e.n \in emitted'[a] - Ended(a)' + 1 .. emitted'[a]
      BY <3>2, <3>3
    <3>6. e \in Event /\ (e.kind = "echo" => e.n = 0)
      BY <3>3 DEF Reading
    <3>7. QED BY <2>1, <3>1, <3>4, <3>5, <3>6 DEF Emitted
  <2>2. CASE e.kind = "started" /\ e.of \in (Codex \cup Plain) \ announced
    <3>1. e.of \notin Attempt
      BY <2>2, CoordinatorAssumption
    <3>2. QED BY <2>2, <3>1 DEF Emitted, Reading
  <2>3. QED BY <2>1, <2>2 DEF Reading
<1>5. QED BY <1>3, <1>4 DEF Heard

\* Who is told of it.
LEMMA ReadingTells ==
  ASSUME Types, Lives, NEW e, Reading(e), NEW b \in Attempt
  PROVE  /\ e \notin Stream(b) \/ e.kind = "started" => emitted'[b] = emitted[b]
         /\ e \in Stream(b) /\ e.kind # "started" =>
              /\ e.of = b /\ e.n = emitted[b] + 1 /\ emitted'[b] = emitted[b] + 1
              /\ turn[b] \notin {"none", "done"}
         /\ e \in Stream(b) /\ e.kind = "started" =>
              e.n = 0 /\ e.of = SessionOf[b] /\ SessionOf[b] \in Codex \ announced
         /\ e \in Stream(b) /\ e.kind = "started" /\ committed[b].by # "dispatch" =>
              emitted[b] = 0 /\ Heard(b) = {}
<1>1. /\ SessionOf[b] \in Session /\ SessionOf[b] \notin Attempt /\ SessionOf[b] \notin Plain
      /\ b \notin Codex \cup Plain
  BY CoordinatorAssumption
<1>2. CASE e.kind = "started" /\ e.n = 0 /\ e.of \in (Codex \cup Plain) \ announced /\ emitted' = emitted
  BY <1>1, <1>2, Unheard DEF Stream
<1>3. CASE e.of \in Attempt /\ e.kind # "started"
  <2>1. e \in Stream(b) => e.of = b /\ e.kind \in {"text", "end"}
    BY <1>3 DEF Stream
  <2>2. e \in Event
    BY DEF Reading
  <2>3. e \in Stream(b) <=> e.of = b /\ e.kind \in {"text", "end"}
    BY <1>3, <2>2 DEF Stream
  <2>4. /\ \A c \in Attempt : c # e.of => emitted'[c] = emitted[c]
        /\ turn[e.of] \notin {"none", "done"}
        /\ \/ e.kind = "echo" /\ emitted'[e.of] = emitted[e.of]
           \/ e.kind \in {"text", "end"} /\ e.n = emitted[e.of] + 1 /\ emitted'[e.of] = e.n
    BY <1>3 DEF Reading
  <2>5. QED BY <1>3, <2>3, <2>4
<1>4. QED BY <1>2, <1>3 DEF Reading

\* The next event of an attempt.
LEMMA TellsNext ==
  ASSUME Types, Lives, NEW e, Reading(e), NEW b \in Attempt, committed[b].by # "dispatch",
         NEW lost \in BOOLEAN, NEW q \in Seq(Heard(b)), Tells(q, emitted[b], lost)
  PROVE  /\ e \in Stream(b) => Tells(Append(q, e), emitted'[b], lost)
         /\ e \notin Stream(b) => Tells(q, emitted'[b], lost)
<1>1. q \in Seq(Event) /\ e \in Event /\ emitted[b] \in Nat
  BY HeardEvents, SeqMonotonic DEF Types, Reading
<1>2. CASE e \notin Stream(b)
  BY <1>2, ReadingTells
<1>3. CASE e \in Stream(b) /\ e.kind # "started"
  <2>1. e.n = emitted[b] + 1 /\ emitted'[b] = emitted[b] + 1
    BY <1>3, ReadingTells
  <2>2. Tells(Append(q, e), emitted[b] + 1, lost)
    BY <1>1, <2>1, TellsAppend
  <2>3. QED BY <1>3, <2>1, <2>2
<1>4. CASE e \in Stream(b) /\ e.kind = "started"
  <2>1. e.n = 0 /\ emitted'[b] = 0 /\ emitted[b] = 0 /\ Heard(b) = {}
    BY <1>4, ReadingTells
  <2>2. q = <<>>
    <3>1. q # <<>> => Head(q) \in Heard(b)
      BY HeadTailProperties
    <3>2. QED BY <2>1, <3>1
  <2>3. Append(q, e) = <<e>>
    BY <2>2
  <2>4. Tells(<<e>>, 0, lost)
    BY <1>1, <2>1, TellsStart
  <2>5. QED BY <1>4, <2>1, <2>3, <2>4
<1>5. QED BY <1>2, <1>3, <1>4

\* The others.
LEMMA Elsewhere ==
  ASSUME IInv, NEW e, Reading(e), NEW b \in Attempt, b # Owner(e, byTurn, byNative)
  PROVE  /\ b \in byTurn => e \notin Stream(b)
         /\ b \in byTurn \/ Owner(e, byTurn, byNative) # None => emitted'[b] = emitted[b]
<1>1. e \in Event /\ (e.kind = "started" => e.of \notin Attempt)
  BY CoordinatorAssumption DEF Reading
<1>2. ASSUME b \in byTurn, e \in Stream(b)
      PROVE  FALSE
  <2>1. CASE e.kind # "started"
    <3>1. e.of = b
      BY <1>2, <2>1, ReadingTells DEF IInv
    <3>2. QED BY <1>2, <2>1, <3>1 DEF Owner, HasTurn
  <2>2. CASE e.kind = "started"
    <3>1. e.of = SessionOf[b] /\ SessionOf[b] \in Codex \ announced
      BY <1>2, <2>2, ReadingTells DEF IInv
    <3>2. byNative[SessionOf[b]] = b /\ b \in attempts /\ SessionOf[b] \in Session
      BY <1>2, <3>1, CoordinatorAssumption DEF IInv, Alone, Types, TypeOK
    <3>3. NativeOf(e) = SessionOf[b] /\ ~HasTurn(e)
      BY <1>1, <2>2, <3>1 DEF NativeOf, HasTurn
    <3>4. QED BY <3>2, <3>3 DEF Owner
  <2>3. QED BY <2>1, <2>2
<1>3. ASSUME Owner(e, byTurn, byNative) # None
      PROVE  emitted'[b] = emitted[b]
  <2>1. HasTurn(e) => e.of # b
    BY <1>1, <1>3, OwnerOf DEF IInv
  <2>2. e \in Stream(b) => e.kind = "started"
    BY <2>1 DEF Stream, HasTurn
  <2>3. QED BY <2>2, ReadingTells DEF IInv
<1>4. b \in byTurn => emitted'[b] = emitted[b]
  BY <1>2, ReadingTells DEF IInv
<1>5. QED BY <1>2, <1>3, <1>4

\* What a reader does to the life of the attempts.
LEMMA ReadingLives ==
  ASSUME IInv, NEW e, Reading(e), UNCHANGED <<attempts, byTurn, barrier>>,
         \A b \in Attempt : \/ /\ applied'[b] = applied[b] /\ shown'[b] = shown[b]
                               /\ (b \in settled' <=> b \in settled)
                            \/ b \in byTurn \ barrier,
         settled' \subseteq Attempt,
         \A b \in settled' \ settled : Ends(e) /\ e.of = b /\ b \notin barrier,
         settled \subseteq settled',
         closing \subseteq closing',
         \A c \in closing' \ closing : /\ c.to = "commit" /\ c.of \in settled'
                                       /\ Ends(e) /\ e.of = c.of /\ c.of \in byTurn
  PROVE  Lives'
<1>1. /\ UNCHANGED <<held, step, committed>>
      /\ \A b \in Attempt : LifeOf(b)
      /\ Closes /\ settled \subseteq Attempt /\ byTurn \subseteq Attempt
      /\ \A c \in closing : c.of \in Attempt
  BY DEF Reading, IInv, Lives, Types, TypeOK
<1>2. ASSUME NEW b \in Attempt
      PROVE  LifeOf(b)'
  <2>1. /\ Over(b) => Over(b)'
        /\ turn'[b] = "none" <=> turn[b] = "none"
        /\ committed[b].by # "dispatch" => Ended(b)' <= emitted'[b]
        /\ turn[b] = "none" => emitted'[b] = 0
        /\ emitted'[b] > 0 /\ SessionOf[b] \in Codex => SessionOf[b] \in announced'
    BY ReadingTurns DEF IInv
  <2>2. Open(b)' <=> Open(b)
    BY <1>1 DEF Open
  <2>3. LifeOf(b) /\ b \in byTurn => b \in attempts
    BY <1>1 DEF IInv, Types, TypeOK
  <2>4. CASE applied'[b] = applied[b] /\ shown'[b] = shown[b] /\ (b \in settled' <=> b \in settled)
    BY <1>1, <2>1, <2>2, <2>3, <2>4 DEF LifeOf
  <2>5. CASE b \in byTurn \ barrier
    <3>1. step[b] \notin {"none", "starting", "materialized", "sent", "bound", "acknowledged", "accepted"}
      BY <2>3, <2>5, <1>1 DEF LifeOf
    <3>2. QED BY <1>1, <2>1, <2>2, <2>3, <2>5, <3>1 DEF LifeOf
  <2>6. QED BY <2>4, <2>5
<1>3. Closes'
  <2>1. \A b \in Attempt : Over(b) => Over(b)'
    BY ReadingTurns DEF IInv
  <2>2. \A b \in Attempt : e.kind = "end" /\ e.of = b => Over(b)'
    BY ReadingTurns DEF IInv
  <2>3. \A b \in Attempt : Open(b)' <=> Open(b)
    BY <1>1 DEF Open
  <2>4. \A b \in byTurn : step[b] # "none"
    BY <1>1 DEF LifeOf
  <2>5. ASSUME NEW c \in closing'
        PROVE  /\ Over(c.of)' /\ step'[c.of] # "none"
               /\ c.to = "remove" => committed'[c.of].by # "nobody"
               /\ c.to = "commit" /\ Open(c.of)' => c.of \in settled'
    <3>1. CASE c \in closing
      <4>1. /\ Over(c.of) /\ step[c.of] # "none" /\ c.of \in Attempt
            /\ c.to = "remove" => committed[c.of].by # "nobody"
            /\ c.to = "commit" /\ Open(c.of) => c.of \in settled
        BY <1>1, <3>1 DEF Closes
      <4>2. QED BY <1>1, <2>1, <2>3, <4>1
    <3>2. CASE c \in closing' \ closing
      <4>1. c.to = "commit" /\ c.of \in settled' /\ Ends(e) /\ e.of = c.of /\ c.of \in byTurn
        BY <3>2
      <4>2. Over(c.of)' /\ step'[c.of] # "none"
        BY <1>1, <2>2, <2>4, <4>1 DEF Ends
      <4>3. QED BY <4>1, <4>2
    <3>3. QED BY <3>1, <3>2
  <2>6. ASSUME NEW b \in settled'
        PROVE  Over(b)'
    <3>1. CASE b \in settled
      BY <1>1, <2>1, <3>1 DEF Closes
    <3>2. CASE b \notin settled
      BY <2>2, <2>6, <3>2 DEF Ends
    <3>3. QED BY <3>1, <3>2
  <2>7. ASSUME NEW b \in settled' \cap barrier'
        PROVE  \E c \in closing' : c.by = "dispatch" /\ c.of = b
    <3>1. b \in settled /\ b \in barrier
      BY <2>7
    <3>2. QED BY <1>1, <3>1 DEF Closes
  <2>8. QED BY <2>5, <2>6, <2>7 DEF Closes
<1>4. QED BY <1>2, <1>3 DEF Lives

\* An event that waits for its owner.
LEMMA KeepKeeps ==
  ASSUME IInv, NEW e, Reading(e), Keep(e), Owner(e, byTurn, byNative) = None, Held(e)
  PROVE  Rest'
<1> DEFINE full == Len(unowned) >= MaxUnowned
           u == IF full THEN Tail(unowned) ELSE unowned
<1>1. /\ unowned' = Append(u, e)
      /\ dropped' = IF full /\ Head(unowned).of \in Attempt
                    THEN dropped \cup {Head(unowned).of} ELSE dropped
      /\ UNCHANGED <<attempts, byTurn, byNative, barrier, pending, applied, settled,
                     waiter, notified, closing, shown, strayed>>
  BY DEF Keep, index, replay, account, waits
<1>2. UNCHANGED <<held, provisioning, step, committed>> /\ e \in Event
  BY DEF Reading
<1>3. /\ Emitted \subseteq Emitted' /\ e \in Emitted'
      /\ \A b \in Attempt : /\ Heard(b) \subseteq Heard(b)' /\ Stream(b)' = Stream(b)
                            /\ e \in Stream(b) => e \in Heard(b)'
  BY ReadingIs DEF IInv
<1>4. \A b \in Attempt : b \in byTurn => e \notin Stream(b) /\ emitted'[b] = emitted[b]
  <2>1. ASSUME NEW b \in Attempt, b \in byTurn
        PROVE  e \notin Stream(b) /\ emitted'[b] = emitted[b]
    <3>1. b # Owner(e, byTurn, byNative)
      BY NoneIsNoAttempt
    <3>2. QED BY <2>1, <3>1, Elsewhere
  <2>2. QED BY <2>1
<1>5. /\ unowned \in Seq(Event) /\ unowned \in Seq(Emitted)
      /\ full => unowned # <<>>
      /\ byTurn \subseteq Attempt
  <2>1. unowned \in Seq(Event) /\ unowned \in Seq(Emitted) /\ byTurn \subseteq Attempt
    BY DEF IInv, Contents, Types, TypeOK
  <2>2. MaxUnowned > 0 /\ MaxUnowned \in Nat
    BY CoordinatorAssumption
  <2>3. full => unowned # <<>>
    BY <2>1, <2>2, EmptySeq
  <2>4. QED BY <2>1, <2>3
<1>6. /\ u \in Seq(Emitted) /\ u \in Seq(Event)
      /\ \A i \in DOMAIN u : \E j \in DOMAIN unowned : unowned[j] = u[i]
  <2>1. CASE full
    <3>1. /\ Tail(unowned) \in Seq(Emitted) /\ Tail(unowned) \in Seq(Event)
          /\ DOMAIN unowned = 1 .. Len(unowned) /\ Len(unowned) \in Nat
          /\ DOMAIN Tail(unowned) = 1 .. Len(unowned) - 1
          /\ \A i \in 1 .. Len(unowned) - 1 : Tail(unowned)[i] = unowned[i + 1]
      BY <1>5, <2>1, HeadTailProperties, LenProperties
    <3>2. \A i \in DOMAIN Tail(unowned) : i + 1 \in DOMAIN unowned /\ Tail(unowned)[i] = unowned[i + 1]
      BY <3>1
    <3>3. QED BY <2>1, <3>1, <3>2
  <2>2. CASE ~full
    BY <1>5, <2>2
  <2>3. QED BY <2>1, <2>2
<1> HIDE DEF u, full
<1>7. /\ unowned' \in Seq(Emitted')
      /\ \A i \in DOMAIN unowned' : unowned'[i] = e \/ \E j \in DOMAIN unowned : unowned[j] = unowned'[i]
  <2>1. u \in Seq(Emitted') /\ e \in Emitted'
    BY <1>3, <1>6, SeqMonotonic
  <2>2. /\ Append(u, e) \in Seq(Emitted') /\ DOMAIN Append(u, e) = 1 .. Len(u) + 1
        /\ Len(u) \in Nat /\ DOMAIN u = 1 .. Len(u)
        /\ \A i \in 1 .. Len(u) : Append(u, e)[i] = u[i]
        /\ Append(u, e)[Len(u) + 1] = e
    BY <2>1, AppendProperties, LenProperties
  <2>3. \A i \in 1 .. Len(u) + 1 : i \in 1 .. Len(u) \/ i = Len(u) + 1
    BY <2>2
  <2>4. QED BY <1>1, <1>6, <2>2, <2>3
<1>8. Lives'
  BY <1>1, <1>5, ReadingLives DEF IInv, Types, TypeOK
<1>9. announced \subseteq announced'
  BY DEF Reading
<1>10. Indexed' /\ Alone'
  BY <1>1, <1>2, <1>9 DEF IInv, Indexed, Alone
<1>11. Contents'
  <2>1. ASSUME NEW b \in byTurn, NEW i \in DOMAIN unowned'
        PROVE  unowned'[i] \notin Stream(b)'
    <3>1. b \in Attempt
      BY <1>5
    <3>2. QED BY <1>3, <1>4, <1>7, <3>1 DEF IInv, Contents
  <2>2. ASSUME NEW b \in Attempt
        PROVE  /\ pending[b] \in Seq(Heard(b)') /\ applied[b] \in Seq(Heard(b)')
               /\ shown[b] \in Seq(Heard(b)')
    <3>1. /\ pending[b] \in Seq(Heard(b)) /\ applied[b] \in Seq(Heard(b))
          /\ shown[b] \in Seq(Heard(b))
      BY DEF IInv, Contents
    <3>2. QED BY <1>3, <3>1, SeqMonotonic
  <2>3. QED BY <1>1, <1>7, <2>1, <2>2 DEF Contents
<1>12. Lines'
  <2>1. ASSUME NEW b \in Attempt \ (settled \cup strayed), b \in attempts \/ step[b] = "none"
        PROVE  Tells(Line(b)', emitted'[b], b \in dropped')
    <3> DEFINE F == Filter(unowned, Stream(b))
               f == Filter(u, Stream(b))
    <3>1. committed[b].by # "dispatch" /\ emitted[b] \in Nat
      BY <2>1, GoesOn DEF IInv, Types
    <3>2. Tells(Line(b), emitted[b], b \in dropped)
      BY <2>1 DEF IInv, Lines
    <3>3. /\ b \in byTurn => Line(b) = applied[b] \o pending[b] /\ F = <<>>
          /\ b \notin byTurn => Line(b) = F /\ applied[b] = <<>> /\ pending[b] = <<>>
          /\ F \in Seq(Heard(b)) /\ Line(b) \in Seq(Event)
      BY LineIs DEF IInv
    <3>4. Line(b)' = applied[b] \o pending[b] \o Filter(unowned', Stream(b))
      BY <1>1, <1>3 DEF Line
    <3>5. b \in dropped => b \in dropped'
      BY <1>1
    <3>6. Filter(unowned', Stream(b)) = IF e \in Stream(b) THEN Append(f, e) ELSE f
      <4>1. Filter(Append(u, e), Stream(b)) = IF e \in Stream(b) THEN Append(f, e) ELSE f
        BY <1>2, <1>6, FilterAppend
      <4>2. QED BY <1>1, <4>1
    <3>7. /\ f \in Seq(Heard(b))
          /\ \/ ~full /\ f = F
             \/ full /\ Head(unowned) \notin Stream(b) /\ f = F
             \/ full /\ Head(unowned) \in Stream(b) /\ F = <<Head(unowned)>> \o f
      <4>1. f \in Seq(Heard(b))
        <5>1. f \in Seq(Emitted \cap Stream(b))
          BY <1>6, FilterType
        <5>2. Emitted \cap Stream(b) = Heard(b)
          BY DEF Heard
        <5>3. QED BY <5>1, <5>2
      <4>2. CASE full
        <5>1. F = IF Head(unowned) \in Stream(b)
                  THEN <<Head(unowned)>> \o Filter(Tail(unowned), Stream(b))
                  ELSE Filter(Tail(unowned), Stream(b))
          BY <1>5, <4>2, FilterTail
        <5>2. QED BY <4>1, <4>2, <5>1 DEF u
      <4>3. CASE ~full
        BY <4>1, <4>3 DEF u
      <4>4. QED BY <4>2, <4>3
    <3> HIDE DEF F, f
    <3>8. CASE b \in byTurn
      <4>1. e \notin Stream(b) /\ emitted'[b] = emitted[b]
        BY <1>4, <3>8
      <4>2. f = <<>>
        <5>1. ASSUME full, F = <<Head(unowned)>> \o f
              PROVE  FALSE
          <6>1. Head(unowned) \in Event
            BY <1>5, <5>1, HeadTailProperties
          <6>2. <<Head(unowned)>> \in Seq(Event) /\ f \in Seq(Event) /\ Len(<<Head(unowned)>>) = 1
            BY <3>7, <6>1, HeardEvents, SeqMonotonic
          <6>3. Len(<<Head(unowned)>> \o f) = 1 + Len(f) /\ Len(f) \in Nat
            BY <6>2, ConcatProperties, LenProperties
          <6>4. Len(F) = 0
            BY <3>3, <3>8
          <6>5. QED BY <5>1, <6>3, <6>4
        <5>2. QED BY <3>3, <3>7, <3>8, <5>1
      <4>3. Line(b)' = Line(b)
        <5> DEFINE z == applied[b] \o pending[b]
        <5>1. z = Line(b) /\ z \in Seq(Event)
          BY <3>3, <3>8
        <5> HIDE DEF z
        <5>2. z \o <<>> = z
          BY <5>1, ConcatEmptySeq
        <5>3. Line(b)' = z \o <<>>
          BY <3>4, <3>6, <4>1, <4>2 DEF z
        <5>4. QED BY <5>1, <5>2, <5>3
      <4>4. QED BY <3>2, <3>5, <4>1, <4>3 DEF Tells
    <3>9. CASE b \notin byTurn
      <4> DEFINE lost == b \in dropped
                 more == b \in dropped'
      <4>1. Tells(F, emitted[b], lost) /\ lost \in BOOLEAN /\ more \in BOOLEAN
        BY <3>2, <3>3, <3>9
      <4>2. Tells(f, emitted[b], more)
        <5>1. CASE f = F
          BY <3>5, <4>1, <5>1 DEF Tells
        <5>2. CASE full /\ Head(unowned) \in Stream(b) /\ F = <<Head(unowned)>> \o f
          <6> DEFINE h == Head(unowned)
          <6>1. h \in Emitted /\ h \in Event /\ h \in Stream(b)
            BY <1>5, <5>2, HeadTailProperties
          <6>2. f \in Seq(Event) /\ F \in Seq(Event)
            BY <3>3, <3>7, HeardEvents, SeqMonotonic
          <6>3. h.of = b => more
            BY <1>1, <5>2
          <6>4. h.of # b => h.of \notin Attempt /\ h.n = 0
            <7>1. SessionOf[b] \notin Attempt
              BY CoordinatorAssumption
            <7>2. QED BY <6>1, <7>1 DEF Stream, Emitted
          <6>5. h.of # b => more = lost
            BY <1>1, <6>4
          <6>6. F # <<>> /\ F[1] = h /\ Tail(F) = f
            <7>1. <<h>> \in Seq(Event) /\ Len(<<h>>) = 1 /\ <<h>>[1] = h
              BY <6>1
            <7> HIDE DEF h
            <7>2. F = <<h>> \o f
              BY <5>2 DEF h
            <7>3. /\ Len(F) = 1 + Len(f) /\ Len(f) \in Nat /\ F[1] = h
                  /\ \A i \in 1 .. Len(f) : F[1 + i] = f[i]
              BY <6>2, <7>1, <7>2, ConcatIs
            <7>4. F # <<>>
              BY <7>3
            <7>5. /\ Tail(F) \in Seq(Event) /\ Len(Tail(F)) = Len(f)
                  /\ \A i \in 1 .. Len(f) : Tail(F)[i] = F[i + 1]
              BY <6>2, <7>3, <7>4, HeadTailProperties
            <7>6. \A i \in 1 .. Len(f) : Tail(F)[i] = f[i]
              BY <7>3, <7>5
            <7>7. Tail(F) = f
              BY <6>2, <7>5, <7>6, SeqEqual
            <7>8. QED BY <7>3, <7>4, <7>7
          <6> HIDE DEF h, lost, more
          <6>7. more \/ (F[1].n = 0 /\ more = lost)
            BY <6>3, <6>4, <6>5, <6>6
          <6>8. Tells(Tail(F), emitted[b], more)
            BY <3>1, <4>1, <6>2, <6>6, <6>7, TellsTail DEF lost, more
          <6>9. QED BY <6>6, <6>8 DEF more
        <5>3. QED BY <3>7, <5>1, <5>2
      <4> HIDE DEF lost, more
      <4>3. /\ e \in Stream(b) => Tells(Append(f, e), emitted'[b], more)
            /\ e \notin Stream(b) => Tells(f, emitted'[b], more)
        BY <3>1, <3>7, <4>1, <4>2, TellsNext DEF IInv, more
      <4> DEFINE g == Filter(unowned', Stream(b))
      <4>4. Tells(g, emitted'[b], more)
        BY <3>6, <4>3
      <4>5. g \in Seq(Event)
        BY <1>2, <3>6, <3>7, HeardEvents, SeqMonotonic, AppendProperties
      <4> HIDE DEF g
      <4>6. (<<>> \o <<>>) \o g = g
        <5>1. <<>> \o <<>> = <<>>
          OBVIOUS
        <5>2. <<>> \o g = g
          BY <4>5, ConcatEmptySeq
        <5>3. QED BY <5>1, <5>2
      <4>7. Line(b)' = g
        BY <3>3, <3>4, <3>9, <4>6 DEF g
      <4>8. QED BY <4>4, <4>7 DEF more
    <3>10. QED BY <3>8, <3>9
  <2>2. QED BY <1>1, <1>2, <2>1 DEF Lines
<1>13. Shown'
  <2>1. \A b \in Attempt : turn[b] = "done" => turn'[b] = "done"
    BY ReadingTurns DEF IInv
  <2>2. QED BY <1>1, <1>4, <2>1 DEF IInv, Shown
<1>14. Settlements'
  <2>1. \A b \in Attempt : \A q : Whole(q, b \in dropped) => Whole(q, b \in dropped')
    BY <1>1 DEF Whole
  <2>2. \A b \in Attempt : Seq(Heard(b)) \subseteq Seq(Heard(b)')
    BY <1>3, SeqMonotonic
  <2>3. QED BY <1>1, <1>2, <2>1, <2>2 DEF IInv, Settlements
<1>15. KeptEventsAreOnHold'
  <2>1. ASSUME NEW x, Held(x)
        PROVE  Held(x)'
    BY <1>1, <1>2, <2>1 DEF Held, ExactlyHeld, ProvisioningHeld, NativeOf, Scope
  <2>2. \A i \in DOMAIN unowned' : Held(unowned'[i])
    BY <1>7 DEF IInv, KeptEventsAreOnHold
  <2>3. QED BY <2>1, <2>2 DEF KeptEventsAreOnHold, Held, ExactlyHeld, ProvisioningHeld,
               NativeOf, Scope
<1>16. WaitersAreWoken'
  BY <1>1 DEF IInv, WaitersAreWoken
<1>17. QED BY <1>8, <1>10, <1>11, <1>12, <1>13, <1>14, <1>15, <1>16 DEF Rest

\* An event that nobody holds.
LEMMA PassByKeeps ==
  ASSUME IInv, NEW e, Reading(e), PassBy(e), Owner(e, byTurn, byNative) = None
  PROVE  Rest'
<1>1. /\ strayed' = IF e.of \in attempts THEN strayed \cup {e.of} ELSE strayed
      /\ UNCHANGED <<attempts, byTurn, byNative, unowned, barrier, pending, applied, settled,
                     waiter, notified, closing, shown, dropped>>
  BY DEF PassBy, index, replay, account, waits
<1>2. UNCHANGED <<held, provisioning, step, committed>> /\ announced \subseteq announced'
  BY DEF Reading
<1>3. /\ Emitted \subseteq Emitted'
      /\ \A b \in Attempt : Heard(b) \subseteq Heard(b)' /\ Stream(b)' = Stream(b)
  BY ReadingIs DEF IInv
<1>4. ASSUME NEW b \in byTurn
      PROVE  emitted'[b] = emitted[b]
  <2>1. b \in Attempt /\ b # Owner(e, byTurn, byNative)
    BY NoneIsNoAttempt DEF IInv, Types, TypeOK
  <2>2. QED BY <2>1, Elsewhere
<1>5. ASSUME NEW b \in Attempt \ strayed', b \in attempts \/ step[b] = "none"
      PROVE  emitted'[b] = emitted[b]
  <2>1. e \in Stream(b) /\ e.kind # "started" => e.of = b /\ turn[b] # "none"
    BY ReadingTells DEF IInv
  <2>2. step[b] = "none" => turn[b] = "none"
    BY DEF IInv, Lives, LifeOf
  <2>3. e \notin Stream(b) \/ e.kind = "started"
    BY <1>1, <1>5, <2>1, <2>2
  <2>4. QED BY <2>3, ReadingTells DEF IInv
<1>6. Lives'
  BY <1>1, ReadingLives DEF IInv, Types, TypeOK
<1>7. Indexed' /\ Alone'
  BY <1>1, <1>2 DEF IInv, Indexed, Alone
<1>8. \A b \in Attempt : Seq(Heard(b)) \subseteq Seq(Heard(b)')
  BY <1>3, SeqMonotonic
<1>9. Seq(Emitted) \subseteq Seq(Emitted')
  BY <1>3, SeqMonotonic
<1>10. Contents'
  <2>1. byTurn \subseteq Attempt
    BY DEF IInv, Types, TypeOK
  <2>2. QED BY <1>1, <1>3, <1>8, <1>9, <2>1 DEF IInv, Contents
<1>11. Lines'
  <2>1. \A b \in Attempt : Line(b)' = Line(b)
    BY <1>1, <1>3 DEF Line
  <2>2. QED BY <1>1, <1>2, <1>5, <2>1 DEF IInv, Lines
<1>12. Shown'
  <2>1. \A b \in Attempt : turn[b] = "done" => turn'[b] = "done"
    BY ReadingTurns DEF IInv
  <2>2. QED BY <1>1, <1>4, <2>1 DEF IInv, Shown
<1>13. Settlements'
  BY <1>1, <1>2, <1>8 DEF IInv, Settlements
<1>14. KeptEventsAreOnHold'
  BY <1>1, <1>2 DEF IInv, KeptEventsAreOnHold, Held, ExactlyHeld, ProvisioningHeld, NativeOf, Scope
<1>15. WaitersAreWoken'
  BY <1>1 DEF IInv, WaitersAreWoken
<1>16. QED BY <1>6, <1>7, <1>10, <1>11, <1>12, <1>13, <1>14, <1>15 DEF Rest

LEMMA ConcatAppend ==
  ASSUME NEW T, NEW x \in Seq(T), NEW p \in Seq(T), NEW e \in T
  PROVE  x \o Append(p, e) = Append(x \o p, e)
<1>1. <<e>> \in Seq(T) /\ x \o p \in Seq(T)
  BY ConcatProperties
<1>2. Append(p, e) = p \o <<e>> /\ Append(x \o p, e) = (x \o p) \o <<e>>
  BY <1>1, AppendIsConcat
<1>3. (x \o p) \o <<e>> = x \o (p \o <<e>>)
  BY <1>1, ConcatAssociative
<1>4. QED BY <1>2, <1>3

\* An event behind the barrier of its attempt.
LEMMA QueueKeeps ==
  ASSUME IInv, NEW e, Reading(e), NEW a, a = Owner(e, byTurn, byNative), a # None,
         a \in barrier, Queue(a, e)
  PROVE  Rest'
<1>1. /\ pending' = [pending EXCEPT ![a] = @ \o Filter(<<e>>, NoEcho)]
      /\ UNCHANGED <<attempts, byTurn, byNative, unowned, barrier, applied, settled,
                     waiter, notified, closing, shown, dropped, strayed>>
  BY DEF Queue, QueueBehind, index, waits, history
<1>2. UNCHANGED <<held, provisioning, step, committed>> /\ announced \subseteq announced'
      /\ e \in Event /\ (e.kind = "started" => e.of \notin Attempt)
  BY CoordinatorAssumption DEF Reading
<1>3. /\ Emitted \subseteq Emitted'
      /\ \A b \in Attempt : /\ Heard(b) \subseteq Heard(b)' /\ Stream(b)' = Stream(b)
                            /\ e \in Stream(b) => e \in Heard(b)'
  BY ReadingIs DEF IInv
<1>4. /\ a \in byTurn /\ a \in attempts /\ a \in Attempt
      /\ e \in NoEcho <=> e \in Stream(a)
  <2>1. /\ a \in byTurn
        /\ HasTurn(e) => e.of = a
        /\ ~HasTurn(e) => e.of = SessionOf[a]
    BY <1>2, OwnerOf DEF IInv
  <2>2. a \in attempts /\ a \in Attempt
    BY <2>1 DEF IInv, Types, TypeOK
  <2>3. e \in NoEcho <=> e \in Stream(a)
    BY <1>2, <2>1, <2>2 DEF NoEcho, Stream, HasTurn, Event
  <2>4. QED BY <2>1, <2>2, <2>3
<1>5. \A b \in Attempt : b # a => emitted'[b] = emitted[b] /\ pending'[b] = pending[b]
  <2>1. ASSUME NEW b \in Attempt, b # a
        PROVE  emitted'[b] = emitted[b]
    BY <2>1, Elsewhere
  <2>2. QED BY <1>1, <2>1 DEF IInv, Types, TypeOK
<1>6. /\ pending[a] \in Seq(Heard(a)) /\ pending[a] \in Seq(Event)
      /\ shown[a] \in Seq(Heard(a)) /\ shown[a] \in Seq(Event)
      /\ applied[a] \in Seq(Heard(a)) /\ applied[a] \in Seq(Event)
  <2>1. pending[a] \in Seq(Heard(a)) /\ shown[a] \in Seq(Heard(a)) /\ applied[a] \in Seq(Heard(a))
    BY <1>4 DEF IInv, Contents
  <2>2. QED BY <2>1, HeardEvents, SeqMonotonic
<1>7. pending'[a] = IF e \in Stream(a) THEN Append(pending[a], e) ELSE pending[a]
  <2>1. Filter(<<e>>, NoEcho) = IF e \in Stream(a) THEN <<e>> ELSE <<>>
    BY <1>4, FilterSingle
  <2>2. pending'[a] = pending[a] \o Filter(<<e>>, NoEcho)
    BY <1>1, <1>4 DEF IInv, Types, TypeOK
  <2>3. pending[a] \o <<>> = pending[a] /\ pending[a] \o <<e>> = Append(pending[a], e)
    BY <1>2, <1>6, ConcatEmptySeq, AppendIsConcat
  <2>4. QED BY <2>1, <2>2, <2>3
<1>8. Lives'
  BY <1>1, ReadingLives DEF IInv, Types, TypeOK
<1>9. Indexed' /\ Alone'
  BY <1>1, <1>2 DEF IInv, Indexed, Alone
<1>10. \A b \in Attempt : Seq(Heard(b)) \subseteq Seq(Heard(b)')
  BY <1>3, SeqMonotonic
<1>11. Seq(Emitted) \subseteq Seq(Emitted')
  BY <1>3, SeqMonotonic
<1>12. pending'[a] \in Seq(Heard(a)')
  BY <1>3, <1>4, <1>6, <1>7, <1>10, AppendProperties
<1>13. Contents'
  <2>1. byTurn \subseteq Attempt
    BY DEF IInv, Types, TypeOK
  <2>2. \A b \in Attempt : pending'[b] \in Seq(Heard(b)')
    BY <1>5, <1>10, <1>12 DEF IInv, Contents
  <2>3. QED BY <1>1, <1>3, <1>10, <1>11, <2>1, <2>2 DEF IInv, Contents
<1>14. committed[a].by # "dispatch"
  BY <1>4, GoesOn DEF IInv
<1>15. Lines'
  <2>1. ASSUME NEW b \in Attempt \ (settled \cup strayed), b \in attempts \/ step[b] = "none"
        PROVE  Tells(Line(b)', emitted'[b], b \in dropped)
    <3>1. Tells(Line(b), emitted[b], b \in dropped)
      BY <2>1 DEF IInv, Lines
    <3>2. CASE b # a
      <4>1. Line(b)' = Line(b)
        BY <1>1, <1>3, <1>5, <3>2 DEF Line
      <4>2. QED BY <1>5, <3>1, <3>2, <4>1
    <3>3. CASE b = a
      <4> DEFINE q == Line(a)
                 x == applied[a]
                 p == pending[a]
      <4>1. q = x \o p /\ q \in Seq(Heard(a)) /\ q \in Seq(Event)
            /\ Filter(unowned, Stream(a)) = <<>>
        BY <1>4, LineIs DEF IInv
      <4>2. Line(a)' = x \o pending'[a] \o <<>>
        BY <1>1, <1>3, <1>4, <4>1 DEF Line
      <4> HIDE DEF q, x, p
      <4>3. x \in Seq(Event) /\ p \in Seq(Event)
        BY <1>6 DEF x, p
      <4>4. /\ e \in Stream(a) => Tells(Append(q, e), emitted'[a], a \in dropped)
            /\ e \notin Stream(a) => Tells(q, emitted'[a], a \in dropped)
        <5>1. (a \in dropped) \in BOOLEAN /\ Tells(q, emitted[a], a \in dropped)
          BY <3>1, <3>3 DEF q
        <5>2. QED BY <1>4, <1>14, <4>1, <5>1, TellsNext DEF IInv
      <4>5. CASE e \in Stream(a)
        <5>1. Line(a)' = (x \o Append(p, e)) \o <<>>
          BY <1>7, <4>2, <4>5 DEF p
        <5>2. Append(p, e) \in Seq(Event)
          BY <1>2, <4>3, AppendProperties
        <5>3. x \o Append(p, e) = Append(x \o p, e)
          BY <1>2, <4>3, ConcatAppend
        <5> DEFINE z == x \o Append(p, e)
        <5>4. z \in Seq(Event)
          BY <4>3, <5>2, ConcatProperties
        <5> HIDE DEF z
        <5>5. z \o <<>> = z
          BY <5>4, ConcatEmptySeq
        <5>6. Line(a)' = Append(q, e)
          BY <4>1, <5>1, <5>3, <5>5 DEF z
        <5>7. QED BY <3>3, <4>4, <4>5, <5>6
      <4>6. CASE e \notin Stream(a)
        <5>1. Line(a)' = (x \o p) \o <<>>
          BY <1>7, <4>2, <4>6 DEF p
        <5>2. q \o <<>> = q
          BY <4>1, ConcatEmptySeq
        <5>3. Line(a)' = q
          BY <4>1, <5>1, <5>2
        <5>4. QED BY <3>3, <4>4, <4>6, <5>3
      <4>7. QED BY <4>5, <4>6
    <3>4. QED BY <3>2, <3>3
  <2>2. QED BY <1>1, <1>2, <2>1 DEF Lines
<1>16. ASSUME a \notin strayed
       PROVE  /\ InLine(shown[a] \o pending'[a])
              /\ turn'[a] # "done" /\ shown[a] \o pending'[a] # <<>> =>
                   Last(shown[a] \o pending'[a]).n = emitted'[a]
  <2> DEFINE q == shown[a] \o pending[a]
  <2>1. q \in Seq(Heard(a)) /\ q \in Seq(Event)
    BY <1>6, ConcatProperties
  <2>2. InLine(q) /\ (turn[a] # "done" /\ q # <<>> => Last(q).n = emitted[a])
    BY <1>4, <1>16 DEF IInv, Shown
  <2>3. turn'[a] # "done" => turn[a] # "done"
    BY <1>4, ReadingTurns DEF IInv
  <2>4. CASE e \notin Stream(a)
    BY <1>4, <1>7, <2>2, <2>3, <2>4, ReadingTells DEF IInv
  <2>5. CASE e \in Stream(a)
    <3>1. shown[a] \o pending'[a] = Append(q, e)
      <4>1. pending'[a] = Append(pending[a], e)
        BY <1>7, <2>5
      <4>2. shown[a] \o Append(pending[a], e) = Append(shown[a] \o pending[a], e)
        <5>1. e \in Event /\ shown[a] \in Seq(Event) /\ pending[a] \in Seq(Event)
          BY <1>2, <1>6
        <5>2. \A x, y \in Seq(Event) : x \o Append(y, e) = Append(x \o y, e)
          BY <1>2, ConcatAppend
        <5>3. QED BY <5>1, <5>2
      <4>3. QED BY <4>1, <4>2
    <3> HIDE DEF q
    <3>2. /\ q # <<>> => e.n = Last(q).n + 1
          /\ e.n = emitted'[a]
      <4>1. CASE e.kind # "started"
        BY <1>4, <2>2, <2>5, <4>1, ReadingTells DEF IInv
      <4>2. CASE e.kind = "started"
        <5>1. e.n = 0 /\ emitted'[a] = emitted[a] /\ emitted[a] = 0 /\ Heard(a) = {}
          BY <1>4, <1>14, <2>5, <4>2, ReadingTells DEF IInv
        <5>2. q # <<>> => Head(q) \in Heard(a)
          BY <2>1, HeadTailProperties
        <5>3. QED BY <5>1, <5>2
      <4>3. QED BY <4>1, <4>2
    <3>3. InLine(Append(q, e)) /\ Last(Append(q, e)) = e
      BY <1>2, <2>1, <2>2, <3>2, InLineAppend
    <3>4. QED BY <3>1, <3>2, <3>3
  <2>6. QED BY <2>4, <2>5
<1>17. Shown'
  <2>1. \A b \in Attempt : turn[b] = "done" => turn'[b] = "done"
    BY ReadingTurns DEF IInv
  <2>2. ASSUME NEW b \in Attempt \ strayed
        PROVE  /\ InLine(shown[b] \o pending'[b])
               /\ b \in byTurn /\ turn'[b] # "done" /\ shown[b] \o pending'[b] # <<>> =>
                    Last(shown[b] \o pending'[b]).n = emitted'[b]
    <3>1. CASE b = a
      BY <1>16, <3>1
    <3>2. CASE b # a
      BY <1>5, <2>1, <3>2 DEF IInv, Shown
    <3>3. QED BY <3>1, <3>2
  <2>3. QED BY <1>1, <2>2 DEF Shown
<1>18. Settlements'
  BY <1>1, <1>2, <1>10 DEF IInv, Settlements
<1>19. KeptEventsAreOnHold'
  BY <1>1, <1>2 DEF IInv, KeptEventsAreOnHold, Held, ExactlyHeld, ProvisioningHeld, NativeOf, Scope
<1>20. WaitersAreWoken'
  BY <1>1 DEF IInv, WaitersAreWoken
<1>21. QED BY <1>8, <1>9, <1>13, <1>15, <1>17, <1>18, <1>19, <1>20 DEF Rest

\* An event of an attempt that has no barrier.
LEMMA LiveApplies ==
  ASSUME IInv, NEW e \in Event, NEW a \in Attempt, Apply(a, <<e>>)
  PROVE  /\ \A b \in Attempt : b # a => applied'[b] = applied[b]
         /\ applied'[a] = IF a \in settled THEN applied[a] ELSE Append(applied[a], e)
         /\ Settles(a, <<e>>) <=> Ends(e) /\ a \notin settled
         /\ settled' = (IF Ends(e) THEN settled \cup {a} ELSE settled)
         /\ notified \subseteq notified' /\ \A b \in settled' \ settled : b \in notified'
<1>1. /\ applied' = [applied EXCEPT ![a] = @ \o Takes(a, <<e>>)]
      /\ IF Settles(a, <<e>>)
         THEN settled' = settled \cup {a} /\ notified' = notified \cup {a}
         ELSE settled' = settled /\ notified' = notified
  BY DEF Apply
<1>2. applied \in [Attempt -> Seq(Event)] /\ applied[a] \in Seq(Event)
  BY DEF IInv, Types, TypeOK
<1>3. <<e>> \in Seq({e}) /\ Len(<<e>>) = 1 /\ <<e>>[1] = e /\ DOMAIN <<e>> = {1}
  OBVIOUS
<1>4. Settles(a, <<e>>) <=> Ends(e) /\ a \notin settled
  BY <1>3 DEF Settles
<1>5. UpToEnd(<<e>>) = <<e>>
  <2>1. PICK k \in 0 .. Len(<<e>>) :
          /\ UpToEnd(<<e>>) = SubSeq(<<e>>, 1, k)
          /\ IF \E i \in DOMAIN <<e>> : Ends(<<e>>[i])
             THEN k > 0 /\ Ends(<<e>>[k]) ELSE k = Len(<<e>>)
    BY <1>3, UpToEndIs
  <2>2. k = Len(<<e>>)
    BY <1>3, <2>1
  <2>3. SubSeq(<<e>>, 1, Len(<<e>>)) = <<e>>
    BY <1>3, SubSeqFull
  <2>4. QED BY <2>1, <2>2, <2>3
<1>6. Takes(a, <<e>>) = IF a \in settled THEN <<>> ELSE <<e>>
  BY <1>5 DEF Takes
<1>7. applied'[a] = applied[a] \o Takes(a, <<e>>)
  BY <1>1, <1>2
<1>8. applied[a] \o <<>> = applied[a] /\ applied[a] \o <<e>> = Append(applied[a], e)
  BY <1>2, ConcatEmptySeq, AppendIsConcat
<1>9. applied'[a] = IF a \in settled THEN applied[a] ELSE Append(applied[a], e)
  BY <1>6, <1>7, <1>8
<1>10. QED BY <1>1, <1>2, <1>4, <1>9

LEMMA TakeLiveKeeps ==
  ASSUME IInv, NEW e, Reading(e), NEW a, a = Owner(e, byTurn, byNative), a # None,
         a \notin barrier, TakeLive(a, e)
  PROVE  Rest'
<1> DEFINE entry == [by |-> "reader", of |-> a, to |-> "commit"]
<1>1. /\ byNative' = [byNative EXCEPT ![NativeOf(e)] = a]
      /\ UNCHANGED <<attempts, byTurn, unowned, barrier, pending, waiter, dropped, strayed>>
  BY DEF TakeLive, replay
<1>2. UNCHANGED <<held, provisioning, step, committed>> /\ announced \subseteq announced'
      /\ e \in Event /\ (e.kind = "started" => e.of \notin Attempt)
  BY CoordinatorAssumption DEF Reading
<1>3. /\ Emitted \subseteq Emitted'
      /\ \A b \in Attempt : /\ Heard(b) \subseteq Heard(b)' /\ Stream(b)' = Stream(b)
                            /\ e \in Stream(b) => e \in Heard(b)'
  BY ReadingIs DEF IInv
<1>4. /\ a \in byTurn /\ a \in attempts /\ a \in Attempt /\ SessionOf[a] \in Session
      /\ NativeOf(e) = SessionOf[a]
      /\ e.kind # "echo" <=> e \in Stream(a)
      /\ Ends(e) => e.of = a
  <2>1. /\ a \in byTurn
        /\ HasTurn(e) => e.of = a
        /\ ~HasTurn(e) => e.of = SessionOf[a]
    BY <1>2, OwnerOf DEF IInv
  <2>2. a \in attempts /\ a \in Attempt /\ SessionOf[a] \in Session /\ SessionOf[a] \notin Attempt
    BY <2>1, CoordinatorAssumption DEF IInv, Types, TypeOK
  <2>3. e.kind # "echo" <=> e \in Stream(a)
    BY <1>2, <2>1, <2>2 DEF Stream, HasTurn, Event
  <2>4. NativeOf(e) = SessionOf[a] /\ (Ends(e) => e.of = a)
    BY <2>1, <2>2 DEF NativeOf, HasTurn, Ends
  <2>5. QED BY <2>1, <2>2, <2>3, <2>4
<1>5. \A b \in Attempt : b # a => emitted'[b] = emitted[b]
  <2>1. ASSUME NEW b \in Attempt, b # a
        PROVE  emitted'[b] = emitted[b]
    BY <2>1, Elsewhere
  <2>2. QED BY <2>1
<1>6. /\ pending[a] = <<>> /\ applied[a] \in Seq(Heard(a)) /\ shown[a] \in Seq(Heard(a))
      /\ applied[a] \in Seq(Event) /\ shown[a] \in Seq(Event)
      /\ Line(a) = applied[a] /\ Filter(unowned, Stream(a)) = <<>>
  <2>1. pending[a] = <<>> /\ applied[a] \in Seq(Heard(a)) /\ shown[a] \in Seq(Heard(a))
    BY <1>4 DEF IInv, Contents, Types, TypeOK
  <2>2. applied[a] \in Seq(Event) /\ shown[a] \in Seq(Event)
    BY <2>1, HeardEvents, SeqMonotonic
  <2>3. Line(a) = applied[a] \o pending[a] /\ Filter(unowned, Stream(a)) = <<>>
    BY <1>4, LineIs DEF IInv
  <2>4. applied[a] \o <<>> = applied[a]
    BY <2>2, ConcatEmptySeq
  <2>5. QED BY <2>1, <2>2, <2>3, <2>4
\* The account, in both cases.
<1>7. \/ /\ e \notin Stream(a)
         /\ UNCHANGED <<applied, settled, notified, closing, shown>>
      \/ /\ e \in Stream(a)
         /\ Apply(a, <<e>>)
         /\ shown' = [shown EXCEPT ![a] = Append(@, e)]
         /\ closing' = IF Settles(a, <<e>>) THEN closing \cup {entry} ELSE closing
  BY <1>4 DEF TakeLive
<1>8. /\ \A b \in Attempt : b # a => applied'[b] = applied[b] /\ shown'[b] = shown[b]
      /\ applied'[a] = IF a \in settled \/ e \notin Stream(a) THEN applied[a]
                       ELSE Append(applied[a], e)
      /\ shown'[a] = IF e \notin Stream(a) THEN shown[a] ELSE Append(shown[a], e)
      /\ settled' = IF Ends(e) THEN settled \cup {a} ELSE settled
      /\ notified \subseteq notified' /\ (\A b \in settled' \ settled : b \in notified')
      /\ closing' = (IF Ends(e) /\ a \notin settled THEN closing \cup {entry} ELSE closing)
  <2>1. Ends(e) => e \in Stream(a)
    BY <1>4 DEF Ends
  <2>2. CASE e \notin Stream(a) /\ UNCHANGED <<applied, settled, notified, closing, shown>>
    BY <1>4, <2>1, <2>2
  <2>3. CASE /\ e \in Stream(a) /\ Apply(a, <<e>>)
             /\ shown' = [shown EXCEPT ![a] = Append(@, e)]
             /\ closing' = IF Settles(a, <<e>>) THEN closing \cup {entry} ELSE closing
    <3> HIDE DEF entry
    <3>1. /\ \A b \in Attempt : b # a => applied'[b] = applied[b]
          /\ applied'[a] = IF a \in settled THEN applied[a] ELSE Append(applied[a], e)
          /\ Settles(a, <<e>>) <=> Ends(e) /\ a \notin settled
          /\ settled' = (IF Ends(e) THEN settled \cup {a} ELSE settled)
          /\ notified \subseteq notified' /\ \A b \in settled' \ settled : b \in notified'
      BY <1>2, <1>4, <2>3, LiveApplies
    <3>2. shown'[a] = Append(shown[a], e) /\ \A b \in Attempt : b # a => shown'[b] = shown[b]
      BY <1>4, <2>3 DEF IInv, Types, TypeOK
    <3>3. QED BY <2>3, <3>1, <3>2
  <2>4. QED BY <1>7, <2>2, <2>3
<1>9. \A s \in Session : byNative'[s] = IF s = SessionOf[a] THEN a ELSE byNative[s]
  BY <1>1, <1>4 DEF IInv, Types, TypeOK
<1>10. Lives'
  <2>1. entry.of = a /\ entry.to = "commit"
    OBVIOUS
  <2> HIDE DEF entry
  <2>2. \A b \in Attempt : \/ /\ applied'[b] = applied[b] /\ shown'[b] = shown[b]
                              /\ (b \in settled' <=> b \in settled)
                           \/ b \in byTurn \ barrier
    BY <1>4, <1>8
  <2>3. settled' \subseteq Attempt /\ settled \subseteq settled'
        /\ \A b \in settled' \ settled : Ends(e) /\ e.of = b /\ b \notin barrier
    BY <1>4, <1>8 DEF IInv, Types, TypeOK
  <2>4. /\ closing \subseteq closing'
        /\ \A c \in closing' \ closing : /\ c.to = "commit" /\ c.of \in settled'
                                         /\ Ends(e) /\ e.of = c.of /\ c.of \in byTurn
    BY <1>4, <1>8, <2>1
  <2>5. QED BY <1>1, <2>2, <2>3, <2>4, ReadingLives
<1>11. Indexed'
  BY <1>1, <1>2, <1>4, <1>9 DEF IInv, Indexed
<1>12. Alone'
  <2>1. \A b, c \in attempts :
          SessionOf[b] = SessionOf[c] /\ SessionOf[b] \in Codex \ announced => b = c
    BY DEF IInv, Alone
  <2>2. ASSUME NEW b \in byTurn, SessionOf[b] \in Codex \ announced'
        PROVE  byNative'[SessionOf[b]] = b
    <3>1. b \in attempts /\ SessionOf[b] \in Codex \ announced /\ SessionOf[b] \in Session
          /\ byNative[SessionOf[b]] = b
      BY <1>2, <2>2, CoordinatorAssumption DEF IInv, Alone, Types, TypeOK
    <3>2. SessionOf[b] = SessionOf[a] => b = a
      BY <1>4, <2>1, <3>1
    <3>3. QED BY <1>9, <3>1, <3>2
  <2>3. QED BY <1>1, <1>2, <2>1, <2>2 DEF Alone
<1>13. \A b \in Attempt : Seq(Heard(b)) \subseteq Seq(Heard(b)')
  BY <1>3, SeqMonotonic
<1>14. Seq(Emitted) \subseteq Seq(Emitted')
  BY <1>3, SeqMonotonic
<1>15. Contents'
  <2>1. byTurn \subseteq Attempt
    BY DEF IInv, Types, TypeOK
  <2>2. applied'[a] \in Seq(Heard(a)') /\ shown'[a] \in Seq(Heard(a)')
    <3>1. applied[a] \in Seq(Heard(a)') /\ shown[a] \in Seq(Heard(a)')
      BY <1>4, <1>6, <1>13
    <3>2. e \in Stream(a) => Append(applied[a], e) \in Seq(Heard(a)')
                             /\ Append(shown[a], e) \in Seq(Heard(a)')
      BY <1>3, <1>4, <3>1, AppendProperties
    <3>3. QED BY <1>8, <3>1, <3>2
  <2>3. \A b \in Attempt : applied'[b] \in Seq(Heard(b)') /\ shown'[b] \in Seq(Heard(b)')
                           /\ pending[b] \in Seq(Heard(b)')
    BY <1>8, <1>13, <2>2 DEF IInv, Contents
  <2>4. QED BY <1>1, <1>3, <1>14, <2>1, <2>3 DEF IInv, Contents
<1>16. committed[a].by # "dispatch" /\ (a \in dropped) \in BOOLEAN
  BY <1>4, GoesOn DEF IInv
\* What the attempt is told next.
<1>17. ASSUME a \notin settled \cup strayed
       PROVE  /\ e \in Stream(a) => Tells(Append(applied[a], e), emitted'[a], a \in dropped)
              /\ e \notin Stream(a) => Tells(applied[a], emitted'[a], a \in dropped)
  <2>1. Tells(applied[a], emitted[a], a \in dropped)
    BY <1>4, <1>6, <1>17 DEF IInv, Lines
  <2>2. QED BY <1>4, <1>6, <1>16, <2>1, TellsNext DEF IInv
<1>18. Lines'
  <2>1. ASSUME NEW b \in Attempt \ (settled' \cup strayed), b \in attempts \/ step[b] = "none"
        PROVE  Tells(Line(b)', emitted'[b], b \in dropped)
    <3>1. b \notin settled \cup strayed
      BY <1>8, <2>1
    <3>2. CASE b # a
      <4>1. Line(b)' = Line(b)
        BY <1>1, <1>3, <1>8, <3>2 DEF Line
      <4>2. QED BY <1>5, <2>1, <3>1, <3>2, <4>1 DEF IInv, Lines
    <3>3. CASE b = a
      <4> DEFINE x == applied'[a]
      <4>1. Line(a)' = (x \o <<>>) \o <<>>
        BY <1>1, <1>3, <1>4, <1>6 DEF Line
      <4>2. x \in Seq(Event)
        BY <1>2, <1>6, <1>8, AppendProperties
      <4>3. Tells(x, emitted'[a], a \in dropped)
        BY <1>8, <1>17, <3>1, <3>3
      <4> HIDE DEF x
      <4>4. x \o <<>> = x
        BY <4>2, ConcatEmptySeq
      <4>5. Line(a)' = x
        BY <4>1, <4>4
      <4>6. QED BY <3>3, <4>3, <4>5
    <3>4. QED BY <3>2, <3>3
  <2>2. QED BY <1>1, <1>2, <2>1 DEF Lines
<1>19. Settlements'
  <2>1. ASSUME a \in settled', a \notin strayed
        PROVE  Whole(applied'[a], a \in dropped)
    <3>1. CASE a \in settled
      BY <1>4, <1>8, <2>1, <3>1 DEF IInv, Settlements
    <3>2. CASE a \notin settled
      <4>1. Ends(e) /\ e \in Stream(a) /\ applied'[a] = Append(applied[a], e)
        BY <1>4, <1>8, <2>1, <3>2 DEF Ends
      <4>2. Tells(Append(applied[a], e), emitted'[a], a \in dropped)
        BY <1>17, <2>1, <3>2, <4>1
      <4>3. emitted[a] \in Nat /\ emitted'[a] = emitted[a] + 1
        BY <1>4, <4>1, ReadingTells DEF IInv, Types, Ends
      <4>4. Last(Append(applied[a], e)) = e
        BY <1>2, <1>6, AppendProperties, LenProperties DEF Last
      <4>5. emitted'[a] > 0
        BY <4>3
      <4>6. Append(applied[a], e) # <<>>
        BY <1>2, <1>6, AppendProperties
      <4> DEFINE q == Append(applied[a], e)
      <4> HIDE DEF q
      <4>7. Whole(q, a \in dropped)
        BY <4>1, <4>2, <4>4, <4>5, <4>6 DEF Whole, Tells, q
      <4>8. QED BY <4>1, <4>7 DEF q
    <3>3. QED BY <3>1, <3>2
  <2>2. ASSUME NEW b \in Attempt \ strayed
        PROVE  b \in settled' => Whole(applied'[b], b \in dropped)
    <3>1. CASE b = a
      BY <2>1, <2>2, <3>1
    <3>2. CASE b # a
      BY <1>8, <3>2 DEF IInv, Settlements
    <3>3. QED BY <3>1, <3>2
  <2>3. QED BY <1>1, <1>2, <1>13, <2>2 DEF IInv, Settlements
<1>20. ASSUME a \notin strayed
       PROVE  /\ InLine(shown'[a])
              /\ turn'[a] # "done" /\ shown'[a] # <<>> => Last(shown'[a]).n = emitted'[a]
  <2> DEFINE q == shown[a]
  <2>1. q \in Seq(Heard(a)) /\ q \in Seq(Event) /\ q \o <<>> = q
    BY <1>6, ConcatEmptySeq
  <2>2. InLine(q) /\ (turn[a] # "done" /\ q # <<>> => Last(q).n = emitted[a])
    <3>1. InLine(q \o <<>>) /\ (turn[a] # "done" /\ q \o <<>> # <<>> =>
                                  Last(q \o <<>>).n = emitted[a])
      BY <1>4, <1>6, <1>20 DEF IInv, Shown
    <3>2. QED BY <2>1, <3>1
  <2>3. turn'[a] # "done" => turn[a] # "done"
    BY <1>4, ReadingTurns DEF IInv
  <2>4. CASE e \notin Stream(a)
    BY <1>4, <1>8, <2>2, <2>3, <2>4, ReadingTells DEF IInv
  <2>5. CASE e \in Stream(a)
    <3>1. shown'[a] = Append(q, e)
      BY <1>8, <2>5
    <3> HIDE DEF q
    <3>2. /\ q # <<>> => e.n = Last(q).n + 1
          /\ e.n = emitted'[a]
      <4>1. CASE e.kind # "started"
        BY <1>4, <2>2, <2>5, <4>1, ReadingTells DEF IInv
      <4>2. CASE e.kind = "started"
        <5>1. e.n = 0 /\ emitted'[a] = emitted[a] /\ emitted[a] = 0 /\ Heard(a) = {}
          BY <1>4, <1>16, <2>5, <4>2, ReadingTells DEF IInv
        <5>2. q # <<>> => Head(q) \in Heard(a)
          BY <2>1, HeadTailProperties
        <5>3. QED BY <5>1, <5>2
      <4>3. QED BY <4>1, <4>2
    <3>3. InLine(Append(q, e)) /\ Last(Append(q, e)) = e
      BY <1>2, <2>1, <2>2, <3>2, InLineAppend
    <3>4. QED BY <3>1, <3>2, <3>3
  <2>6. QED BY <2>4, <2>5
<1>21. Shown'
  <2>1. \A b \in Attempt : turn[b] = "done" => turn'[b] = "done"
    BY ReadingTurns DEF IInv
  <2>2. shown'[a] \o <<>> = shown'[a]
    <3>1. shown'[a] \in Seq(Event)
      BY <1>2, <1>6, <1>8, AppendProperties
    <3>2. QED BY <3>1, ConcatEmptySeq
  <2>3. ASSUME NEW b \in Attempt \ strayed
        PROVE  /\ InLine(shown'[b] \o pending[b])
               /\ b \in byTurn /\ turn'[b] # "done" /\ shown'[b] \o pending[b] # <<>> =>
                    Last(shown'[b] \o pending[b]).n = emitted'[b]
    <3>1. CASE b = a
      <4>1. shown'[b] \o pending[b] = shown'[a]
        BY <1>6, <2>2, <3>1
      <4>2. QED BY <1>20, <2>3, <3>1, <4>1
    <3>2. CASE b # a
      BY <1>5, <1>8, <2>1, <3>2 DEF IInv, Shown
    <3>3. QED BY <3>1, <3>2
  <2>4. QED BY <1>1, <2>3 DEF Shown
<1>22. KeptEventsAreOnHold'
  BY <1>1, <1>2 DEF IInv, KeptEventsAreOnHold, Held, ExactlyHeld, ProvisioningHeld, NativeOf, Scope
<1>23. WaitersAreWoken'
  BY <1>1, <1>8 DEF IInv, WaitersAreWoken
<1>24. QED BY <1>10, <1>11, <1>12, <1>15, <1>18, <1>19, <1>21, <1>22, <1>23 DEF Rest

LEMMA IngestKeeps ==
  ASSUME IInv, NEW e, Reading(e), Ingest(e)
  PROVE  Rest'
<1> DEFINE a == Owner(e, byTurn, byNative)
<1>1. CASE a = None /\ Held(e)
  <2>1. Keep(e)
    BY <1>1 DEF Ingest
  <2>2. QED BY <1>1, <2>1, KeepKeeps
<1>2. CASE a = None /\ ~Held(e)
  <2>1. PassBy(e)
    BY <1>2 DEF Ingest
  <2>2. QED BY <1>2, <2>1, PassByKeeps
<1>3. CASE a # None /\ a \in barrier
  <2>1. Queue(a, e)
    BY <1>3 DEF Ingest
  <2>2. QED BY <1>3, <2>1, QueueKeeps
<1>4. CASE a # None /\ a \notin barrier
  <2>1. TakeLive(a, e)
    BY <1>4 DEF Ingest
  <2>2. QED BY <1>4, <2>1, TakeLiveKeeps
<1>5. QED BY <1>1, <1>2, <1>3, <1>4

LEMMA ReadKeeps ==
  ASSUME IInv, NEW a \in Attempt, Read(a)
  PROVE  Rest'
<1>1. emitted \in [Attempt -> Nat] /\ turn \in [Attempt -> Turns]
  BY DEF IInv, Types
<1>2. CASE ReadEcho(a)
  <2> DEFINE e == [of |-> a, n |-> 0, kind |-> "echo"]
  <2>1. e \in Event /\ e.of = a /\ e.n = 0 /\ e.kind = "echo"
    BY EventIs
  <2>2. /\ turn[a] = "running" /\ turn' = [turn EXCEPT ![a] = "echoed"]
        /\ emitted' = emitted /\ announced' = announced /\ Ingest(e)
        /\ SessionOf[a] \in Codex => SessionOf[a] \in announced
    BY <1>2 DEF ReadEcho, MayRead
  <2>3. turn'[a] = "echoed" /\ \A b \in Attempt : b # a => turn'[b] = turn[b]
    BY <1>1, <2>2
  <2>4. Ended(a) = 0 /\ Ended(a)' = 0
    BY <2>2, <2>3 DEF Ended
  <2> HIDE DEF e
  <2>5. UNCHANGED <<held, provisioning, step, committed>>
    BY <2>2 DEF Ingest, holds
  <2>6. Reading(e)
    BY <1>1, <2>1, <2>2, <2>3, <2>4, <2>5 DEF Reading
  <2>7. QED BY <2>2, <2>6, IngestKeeps
<1>3. ASSUME NEW kind \in {"text", "end"}, ReadTurn(a, kind),
             turn[a] \notin {"none", "done"}, turn'[a] # "none",
             \A b \in Attempt : b # a => turn'[b] = turn[b],
             kind = "text" => Ended(a) = 0 /\ Ended(a)' = 0,
             kind = "end" => Ended(a)' = Ended(a) + 1
      PROVE  Rest'
  <2>0. PICK m : m = emitted[a] + 1
    OBVIOUS
  <2> DEFINE e == [of |-> a, n |-> m, kind |-> kind]
  <2>1. e \in Event /\ e.of = a /\ e.n = emitted[a] + 1 /\ e.kind = kind
    <3>1. m \in Nat
      BY <1>1, <2>0
    <3>2. QED BY <2>0, <3>1, EventIs
  <2>2. /\ emitted' = [emitted EXCEPT ![a] = @ + 1] /\ announced' = announced /\ Ingest(e)
        /\ SessionOf[a] \in Codex => SessionOf[a] \in announced
    BY <1>3, <2>0 DEF ReadTurn, MayRead
  <2> HIDE DEF e
  <2>3. /\ emitted' \in [Attempt -> Nat] /\ emitted'[a] = emitted[a] + 1
        /\ \A b \in Attempt : b # a => emitted'[b] = emitted[b]
    BY <1>1, <2>2
  <2>4. UNCHANGED <<held, provisioning, step, committed>>
    BY <2>2 DEF Ingest, holds
  <2>5. Reading(e)
    <3>1. CASE kind = "text"
      <4>1. e.kind = "text" /\ Ended(e.of) = 0 /\ Ended(e.of)' = 0
        BY <1>3, <2>1, <3>1 DEF Ended
      <4>2. QED BY <1>3, <2>1, <2>2, <2>3, <2>4, <4>1 DEF Reading
    <3>2. CASE kind = "end"
      <4>1. e.kind = "end" /\ Ended(e.of)' = Ended(e.of) + 1
        BY <1>3, <2>1, <3>2 DEF Ended
      <4>2. QED BY <1>3, <2>1, <2>2, <2>3, <2>4, <4>1 DEF Reading
    <3>3. QED BY <1>3, <3>1, <3>2
  <2>6. QED BY <2>2, <2>5, IngestKeeps
<1>4. CASE ReadText(a)
  <2>1. turn[a] \in {"running", "echoed"} /\ turn' = turn /\ ReadTurn(a, "text")
    BY <1>4 DEF ReadText
  <2>2. Ended(a) = 0 /\ Ended(a)' = 0
    BY <2>1 DEF Ended
  <2>3. QED BY <1>3, <2>1, <2>2
<1>5. CASE ReadEnd(a)
  <2>1. /\ turn[a] \in {"running", "echoed", "ended"} /\ ReadTurn(a, "end")
        /\ turn' = [turn EXCEPT ![a] = IF @ = "ended" THEN "done" ELSE "ended"]
    BY <1>5 DEF ReadEnd
  <2>2. /\ turn'[a] = IF turn[a] = "ended" THEN "done" ELSE "ended"
        /\ \A b \in Attempt : b # a => turn'[b] = turn[b]
    BY <1>1, <2>1
  <2>3. Ended(a)' = Ended(a) + 1
    BY <2>1, <2>2 DEF Ended
  <2>4. QED BY <1>3, <2>1, <2>2, <2>3
<1>6. QED BY <1>2, <1>4, <1>5 DEF Read

LEMMA ReadStartKeeps ==
  ASSUME IInv, NEW s \in Codex \cup Plain, ReadStart(s)
  PROVE  Rest'
<1> DEFINE e == [of |-> s, n |-> 0, kind |-> "started"]
<1>1. e \in Event /\ e.of = s /\ e.n = 0 /\ e.kind = "started"
  <2>1. s \in Attempt \cup Session \cup Plain
    BY CoordinatorAssumption
  <2>2. QED BY <2>1, EventIs
<1>2. /\ s \notin announced /\ announced' = announced \cup {s} /\ Ingest(e)
      /\ emitted' = emitted /\ turn' = turn
  BY DEF ReadStart
<1> HIDE DEF e
<1>3. UNCHANGED <<held, provisioning, step, committed>>
  BY <1>2 DEF Ingest, holds
<1>4. emitted' \in [Attempt -> Nat]
  BY <1>2 DEF IInv, Types
<1>5. Reading(e)
  BY <1>1, <1>2, <1>3, <1>4 DEF Reading
<1>6. QED BY <1>2, <1>5, IngestKeeps

-----------------------------------------------------------------------------
(* The invariant holds.                                                    *)

LEMMA InitHolds ==
  ASSUME Init
  PROVE  IInv
<1>1. Types
  <2>1. <<>> \in Seq(Event) /\ Len(<<>>) = 0 /\ MaxUnowned \in Nat
    BY CoordinatorAssumption
  <2>2. committed \in [Attempt -> [by : {"nobody", "dispatch", "user", "runtime"},
                                   blocks : Seq(Event)]]
    BY <2>1 DEF Init
  <2>3. \A a \in Attempt : committed[a].by = "nobody"
    BY DEF Init
  <2>4. TypeOK
    BY <2>1, <2>3 DEF Init, TypeOK
  <2>5. QED BY <2>2, <2>4 DEF Init, Types, Steps, Turns
<1>2. Indexed /\ Alone /\ WaitersAreWoken
  BY DEF Init, Indexed, Alone, WaitersAreWoken
<1>3. Lives
  BY DEF Init, Lives, LifeOf, Closes, Open, Over, Ended
<1>4. KeptEventsAreOnHold
  BY DEF Init, KeptEventsAreOnHold
<1>5. Contents
  BY EmptySeq DEF Init, Contents
<1>6. \A a \in Attempt : Line(a) = <<>> /\ emitted[a] = 0 /\ shown[a] \o pending[a] = <<>>
  <2>1. <<>> \o <<>> = <<>>
    OBVIOUS
  <2>2. QED BY <2>1, FilterEmpty DEF Init, Line
<1>7. Lines
  <2>1. ASSUME NEW a \in Attempt
        PROVE  Tells(Line(a), emitted[a], a \in dropped)
    <3>1. (a \in dropped) \in BOOLEAN /\ 0 \in Nat
      OBVIOUS
    <3>2. Tells(<<>>, 0, a \in dropped)
      BY <3>1, TellsNothing
    <3>3. QED BY <1>6, <3>2
  <2>2. QED BY <2>1 DEF Lines
<1>8. Shown
  <2>1. InLine(<<>>)
    <3>1. <<>> \in Seq(Event) /\ Len(<<>>) <= 1
      OBVIOUS
    <3>2. QED BY <3>1, InLineShort
  <2>2. QED BY <1>6, <2>1 DEF Shown
<1>9. Settlements
  BY DEF Init, Settlements
<1>10. QED BY <1>1, <1>2, <1>3, <1>4, <1>5, <1>7, <1>8, <1>9 DEF IInv

LEMMA Stutter ==
  ASSUME IInv, UNCHANGED vars
  PROVE  IInv'
<1>1. /\ UNCHANGED told /\ UNCHANGED <<barrier, waiter, notified, closing, step, acked, created>>
  BY DEF vars, told
<1>2. Types'
  BY <1>1 DEF IInv, Types, TypeOK, told
<1>3. Lives'
  BY <1>1 DEF IInv, Lives, LifeOf, Closes, Over, Ended, Open, told
<1>4. WaitersAreWoken'
  BY <1>1 DEF IInv, WaitersAreWoken, told
<1>5. Indexed' /\ Alone' /\ Contents' /\ Lines' /\ Shown' /\ Settlements' /\ KeptEventsAreOnHold'
  BY <1>1, StillTold
<1>6. QED BY <1>2, <1>3, <1>4, <1>5 DEF IInv

LEMMA DispatchKeeps ==
  ASSUME IInv, NEW a \in Attempt, Dispatch(a)
  PROVE  IInv'
<1>1. Types
  BY DEF IInv
<1>2. CASE Register(a)
  <2>1. Types'
    BY <1>1, <1>2, RegisterTypes
  <2>2. QED BY <1>2, <2>1, RegisterKeeps DEF IInv, Rest
<1>3. CASE ThreadStarts(a)
  <2>1. SessionOf[a] \in Codex
    BY <1>3 DEF ThreadStarts, IInv, Lives, LifeOf
  <2>2. Types'
    BY <1>1, <1>3, <2>1, ThreadStartsTypes
  <2>3. QED BY <1>3, <2>2, ThreadStartsKeeps DEF IInv, Rest
<1>4. CASE Send(a)
  <2>1. Types'
    BY <1>1, <1>4, SendTypes
  <2>2. QED BY <1>4, <2>1, SendKeeps DEF IInv, Rest
<1>5. CASE BindRuntimeTurn(a)
  <2>1. Types'
    BY <1>1, <1>5, BindTypes
  <2>2. QED BY <1>5, <2>1, BindKeeps DEF IInv, Rest
<1>6. CASE ContextIsAcknowledged(a)
  <2>1. Types'
    BY <1>1, <1>6, ContextIsAcknowledgedTypes
  <2>2. QED BY <1>6, <2>1, ContextIsAcknowledgedKeeps DEF IInv, Rest
<1>7. CASE EndBeforeAcknowledgement(a)
  <2>1. Types'
    BY <1>1, <1>7, EndBeforeTypes
  <2>2. QED BY <1>7, <2>1, EndBeforeKeeps DEF IInv, Rest
<1>8. CASE Accept(a)
  <2>1. Types'
    BY <1>1, <1>8, AcceptTypes
  <2>2. QED BY <1>8, <2>1, AcceptKeeps DEF IInv, Rest
<1>9. CASE Drain(a)
  <2>1. Types'
    BY <1>1, <1>9, DrainTypes
  <2>2. QED BY <1>9, <2>1, DrainKeeps DEF IInv, Rest
<1>10. CASE ClearBarrier(a)
  <2>1. Types'
    BY <1>1, <1>10, ClearBarrierTypes
  <2>2. QED BY <1>10, <2>1, ClearBarrierKeeps DEF IInv, Rest
<1>11. QED BY <1>2, <1>3, <1>4, <1>5, <1>6, <1>7, <1>8, <1>9, <1>10 DEF Dispatch

LEMMA FailsKeeps ==
  ASSUME IInv, NEW a \in Attempt, Fails(a)
  PROVE  IInv'
<1>1. Types
  BY DEF IInv
<1>2. CASE MaterializeFails(a)
  <2>1. Types'
    BY <1>1, <1>2, MaterializeFailsTypes
  <2>2. QED BY <1>2, <2>1, MaterializeFailsKeeps DEF IInv, Rest
<1>3. CASE Ambiguous(a)
  <2>1. Types'
    BY <1>1, <1>3, AmbiguousTypes
  <2>2. QED BY <1>3, <2>1, AmbiguousKeeps DEF IInv, Rest
<1>4. CASE NotAccepted(a)
  <2>1. Types'
    BY <1>1, <1>4, NotAcceptedTypes
  <2>2. QED BY <1>4, <2>1, NotAcceptedKeeps DEF IInv, Rest
<1>5. CASE Abandon(a)
  <2>1. Types'
    BY <1>1, <1>5, AbandonTypes
  <2>2. QED BY <1>5, <2>1, AbandonKeeps DEF IInv, Rest
<1>6. QED BY <1>2, <1>3, <1>4, <1>5 DEF Fails

LEMMA NextKeeps ==
  ASSUME IInv, [Next]_vars
  PROVE  IInv'
<1>1. Types
  BY DEF IInv
<1>2. ASSUME NEW a \in Attempt, Dispatch(a)
      PROVE  IInv'
  BY <1>2, DispatchKeeps
<1>3. ASSUME NEW a \in Attempt, Read(a)
      PROVE  IInv'
  <2>1. Types'
    BY <1>1, <1>3, ReadTypes
  <2>2. QED BY <1>3, <2>1, ReadKeeps DEF IInv, Rest
<1>4. ASSUME NEW a \in Troubled, Fails(a)
      PROVE  IInv'
  <2>1. a \in Attempt
    BY CoordinatorAssumption
  <2>2. QED BY <1>4, <2>1, FailsKeeps
<1>5. ASSUME NEW a \in Awaited, Wait(a)
      PROVE  IInv'
  <2>1. a \in Attempt
    BY CoordinatorAssumption
  <2>2. Types'
    BY <1>1, <1>5, <2>1, WaitTypes
  <2>3. QED BY <1>5, <2>1, <2>2, WaitKeeps DEF IInv, Rest
<1>6. ASSUME NEW s \in Codex \cup Plain, ReadStart(s)
      PROVE  IInv'
  <2>1. Types'
    BY <1>1, <1>6, ReadStartTypes
  <2>2. QED BY <1>6, <2>1, ReadStartKeeps DEF IInv, Rest
<1>7. ASSUME NEW c \in closing, Commit(c)
      PROVE  IInv'
  <2>1. Types'
    BY <1>1, <1>7, CommitTypes
  <2>2. QED BY <1>7, <2>1, CommitKeeps DEF IInv, Rest
<1>8. ASSUME NEW c \in closing, Forget(c)
      PROVE  IInv'
  <2>1. Types'
    BY <1>1, <1>8, ForgetTypes
  <2>2. QED BY <1>8, <2>1, ForgetKeeps DEF IInv, Rest
<1>9. QED BY <1>2, <1>3, <1>4, <1>5, <1>6, <1>7, <1>8, Stutter DEF Next

\* The inductive invariant: what each attempt was told and will be told is
\* what its turn said.
THEOREM InvariantHolds == Spec => []IInv
<1>1. Init => IInv
  BY InitHolds
<1>2. IInv /\ [Next]_vars => IInv'
  BY NextKeeps
<1>3. QED BY <1>1, <1>2, PTL DEF Spec

-----------------------------------------------------------------------------
(* What it means.                                                          *)

\* The types, for any attempts, sessions and lengths of turns.
THEOREM CoordinatorTypeCorrect == Spec => []TypeOK
<1>1. IInv => TypeOK
  BY DEF IInv, Types
<1>2. QED BY <1>1, InvariantHolds, PTL

\* An event is kept only while somebody has it on hold.
THEOREM KeptEventsHeld == Spec => []KeptEventsAreOnHold
<1>1. IInv => KeptEventsAreOnHold
  BY DEF IInv
<1>2. QED BY <1>1, InvariantHolds, PTL

\* Who waits for an end that is there, or for an attempt that is gone, is woken.
THEOREM WaitersWoken == Spec => []WaitersAreWoken
<1>1. IInv => WaitersAreWoken
  BY DEF IInv
<1>2. QED BY <1>1, InvariantHolds, PTL

\* What an attempt hears is its own.
LEMMA HeardIsOwn ==
  ASSUME Types, NEW a \in Attempt, NEW q \in Seq(Heard(a))
  PROVE  Own(a, q)
<1>1. ASSUME NEW i \in DOMAIN q
      PROVE  q[i].of \in {a, SessionOf[a]}
  <2>1. q[i] \in Heard(a)
    BY LenProperties, ElementOfSeq
  <2>2. QED BY <2>1 DEF Heard, Stream
<1>2. QED BY <1>1 DEF Own

\* The shared thread shows the events of its turn, each once and in order.
THEOREM ThreadShowsInOrder == Spec => []ShownInOrder
<1>1. ASSUME IInv, NEW a \in Attempt \ strayed
      PROVE  Own(a, shown[a]) /\ InLine(shown[a])
  <2>1. shown[a] \in Seq(Heard(a)) /\ pending[a] \in Seq(Heard(a))
        /\ InLine(shown[a] \o pending[a])
    BY <1>1 DEF IInv, Contents, Shown
  <2>2. InLine(shown[a])
    BY <2>1, InLineParts
  <2>3. QED BY <1>1, <2>1, <2>2, HeardIsOwn DEF IInv
<1>2. IInv => ShownInOrder
  BY <1>1 DEF ShownInOrder
<1>3. QED BY <1>2, InvariantHolds, PTL

\* What a turn said of what an attempt heard: all but the start of its session,
\* which comes first.
LEMMA SaidIs ==
  ASSUME Types, Lives, NEW a \in Attempt, committed[a].by # "dispatch",
         NEW q \in Seq(Heard(a)), InLine(q)
  PROVE  /\ Said(q) \in Seq(Heard(a)) /\ InLine(Said(q))
         /\ Said(q) # <<>> => /\ q # <<>> /\ Said(q)[Len(Said(q))] = Last(q)
                              /\ Said(q)[Len(Said(q))].n > 0
         /\ q # <<>> /\ Last(q).n > 0 => /\ Said(q) # <<>>
                                         /\ q[1].n <= 1 => Said(q)[1].n = 1
<1> DEFINE U == {e \in Event : e.kind \in {"text", "end"}}
           s == Filter(q, U)
<1>1. Said(q) = s
  BY DEF Said
<1>2. /\ q \in Seq(Event) /\ Len(q) \in Nat /\ \A i \in 1 .. Len(q) : q[i] \in Heard(a)
  BY HeardEvents, SeqMonotonic, LenProperties, ElementOfSeq
<1>3. \A e \in Heard(a) : e \in Event /\ e.n \in Nat /\ (e \in U <=> e.n # 0)
  BY HeardIs, HeardNumbers
<1>4. s \in Seq(Heard(a)) /\ \A i \in 1 .. Len(s) : s[i] \in U
  <2>1. s \in Seq(Heard(a) \cap U)
    BY FilterType
  <2> HIDE DEF s
  <2>2. \A i \in 1 .. Len(s) : s[i] \in Heard(a) \cap U
    BY <2>1, ElementOfSeq
  <2>3. s \in Seq(Heard(a))
    BY <2>1, SeqMonotonic
  <2>4. QED BY <2>2, <2>3
<1> HIDE DEF U
<1>5. CASE q = <<>>
  <2>1. s = <<>>
    BY <1>5, FilterEmpty
  <2>2. QED BY <1>1, <1>4, <1>5, <2>1
<1>6. CASE q # <<>> /\ q[1].n # 0
  <2>1. 1 \in 1 .. Len(q) /\ q[1].n \in Nat /\ Len(q) \in 1 .. Len(q)
    BY <1>2, <1>3, <1>6, LastIs
  <2>2. ASSUME NEW i \in 1 .. Len(q)
        PROVE  q[i] \in U
    <3>1. q[i].n = q[1].n + i - 1
      BY <1>2, InLineNumbers
    <3>2. q[i].n # 0
      BY <1>2, <1>6, <2>1, <3>1
    <3>3. QED BY <1>2, <1>3, <3>2
  <2>3. s = q
    <3>1. q \in Seq(U)
      BY <1>2, <2>2, LenProperties, SeqOf
    <3>2. QED BY <3>1, FilterAll
  <2>4. Last(q) = q[Len(q)] /\ q[Len(q)].n # 0 /\ q[Len(q)].n \in Nat
    BY <1>2, <1>3, <2>1, <2>2 DEF Last
  <2>5. q[Len(q)].n > 0 /\ (q[1].n <= 1 => q[1].n = 1)
    BY <1>6, <2>1, <2>4
  <2>6. QED BY <1>1, <1>4, <1>6, <2>3, <2>4, <2>5
<1>7. CASE q # <<>> /\ q[1].n = 0
  <2> DEFINE t == Tail(q)
             h == Head(q)
  <2>1. /\ 1 \in 1 .. Len(q) /\ Len(q) \in 1 .. Len(q)
        /\ t \in Seq(Event) /\ Len(t) = Len(q) - 1
        /\ \A i \in 1 .. Len(t) : t[i] = q[i + 1]
        /\ h = q[1]
    BY <1>2, <1>7, LastIs, HeadTailProperties
  <2>2. Filter(q, U) = IF h \in U THEN <<h>> \o Filter(t, U) ELSE Filter(t, U)
    BY <1>2, <1>7, FilterTail
  <2>3. h \notin U
    BY <1>2, <1>3, <1>7, <2>1
  <2> HIDE DEF t, h
  <2>4. ASSUME NEW i \in 1 .. Len(t)
        PROVE  t[i] \in U /\ t[i].n = i /\ t[i] = q[i + 1]
    <3>1. i + 1 \in 1 .. Len(q) /\ i \in Nat /\ i > 0
      BY <1>2, <2>1
    <3>2. q[i + 1].n = q[1].n + (i + 1) - 1
      BY <1>2, <3>1, InLineNumbers
    <3>3. q[i + 1].n = i
      BY <1>7, <3>1, <3>2
    <3>4. QED BY <1>2, <1>3, <2>1, <3>1, <3>3
  <2>5. s = t
    <3>1. t \in Seq(U)
      BY <2>1, <2>4, LenProperties, SeqOf
    <3>2. Filter(t, U) = t
      BY <3>1, FilterAll
    <3>3. QED BY <2>2, <2>3, <3>2
  <2>6. InLine(t)
    BY <1>2, <1>7, InLineTail DEF t
  <2>7. ASSUME t # <<>>
        PROVE  /\ t[Len(t)] = Last(q) /\ t[Len(t)].n > 0 /\ t[1].n = 1
    <3>1. Len(t) \in 1 .. Len(t) /\ 1 \in 1 .. Len(t)
      BY <2>1, <2>7, LastIs
    <3>2. t[Len(t)].n = Len(t) /\ t[1].n = 1 /\ t[Len(t)] = q[Len(t) + 1] /\ Len(t) + 1 = Len(q)
      BY <1>2, <2>1, <2>4, <3>1
    <3>3. QED BY <3>1, <3>2 DEF Last
  <2>8. t = <<>> => Last(q).n = 0
    <3>1. t = <<>> => Len(q) = 1
      BY <1>2, <2>1
    <3>2. QED BY <1>7, <3>1 DEF Last
  <2>9. Last(q).n > 0 => t # <<>>
    BY <2>8
  <2>10. QED BY <1>1, <1>4, <1>7, <2>5, <2>6, <2>7, <2>9
<1>8. QED BY <1>5, <1>6, <1>7

\* A turn that its engine ended is recorded with all it said up to its end.
THEOREM RecordsWholeTurns == Spec => []EndIsTheTurns
<1>1. ASSUME IInv, NEW a \in Attempt \ strayed, committed[a].by = "runtime"
      PROVE  LET said == Said(committed[a].blocks)
             IN  /\ Own(a, said) /\ InLine(said)
                 /\ said # <<>> /\ Ends(said[Len(said)])
                 /\ a \notin dropped => said[1].n = 1
  <2> DEFINE q == committed[a].blocks
             s == Said(q)
  <2>1. q \in Seq(Heard(a)) /\ Whole(q, a \in dropped)
    BY <1>1 DEF IInv, Settlements
  <2> HIDE DEF q
  <2>2. InLine(q) /\ q # <<>> /\ Ends(Last(q)) /\ (a \notin dropped => q[1].n <= 1)
    BY <2>1 DEF Whole
  <2>3. Last(q) \in Heard(a)
    BY <2>1, <2>2, LastIs
  <2>4. Last(q).n > 0
    <3>1. /\ Last(q).n \in Nat
          /\ Last(q).n = 0 <=> Last(q).kind = "started"
      BY <1>1, <2>3, HeardNumbers DEF IInv
    <3>2. Last(q).kind = "end"
      BY <2>2 DEF Ends
    <3>3. QED BY <3>1, <3>2
  <2>5. /\ s \in Seq(Heard(a)) /\ InLine(s)
        /\ s # <<>> => s[Len(s)] = Last(q)
        /\ q # <<>> /\ Last(q).n > 0 => s # <<>> /\ (q[1].n <= 1 => s[1].n = 1)
    BY <1>1, <2>1, <2>2, SaidIs DEF IInv
  <2> HIDE DEF s
  <2>6. Own(a, s)
    BY <1>1, <2>5, HeardIsOwn DEF IInv
  <2>7. QED BY <2>2, <2>4, <2>5, <2>6 DEF q, s
<1>2. IInv => EndIsTheTurns
  BY <1>1 DEF EndIsTheTurns
<1>3. QED BY <1>2, InvariantHolds, PTL

\* Until an attempt is settled, what was applied, what is behind its barrier and
\* what waits for its owner are the events of its turn in their order: all of
\* them, or the last of them if the limit dropped some.
THEOREM CoordinatorKeepsOrder == Spec => []OrderIsKept
<1>1. ASSUME IInv, NEW a \in attempts \ (settled \cup strayed)
      PROVE  LET line == applied[a] \o pending[a] \o Waiting(a)
                 said == Said(line)
             IN  /\ Own(a, line) /\ InLine(said)
                 /\ said # <<>> => said[Len(said)].n = emitted[a]
                 /\ a \notin dropped => Len(said) = emitted[a]
  <2> DEFINE U == {e \in Event : e.kind \in {"text", "end"}}
             W == {e \in Event : e.of = a}
             R == Stream(a)
             x == applied[a]
             p == pending[a]
             w == Filter(unowned, W)
             f == Filter(unowned, R)
             line == x \o p \o w
             L == x \o p \o f
             s == Filter(L, U)
  <2>1. a \in Attempt /\ unowned \in Seq(Event) /\ emitted[a] \in Nat
    BY <1>1 DEF IInv, Types, TypeOK
  <2>2. committed[a].by # "dispatch"
    BY <1>1, <2>1, GoesOn DEF IInv
  <2>3. /\ x \in Seq(Heard(a)) /\ p \in Seq(Heard(a)) /\ f \in Seq(Heard(a))
        /\ L \in Seq(Heard(a)) /\ Line(a) = L
    BY <1>1, <2>1, LineIs DEF IInv, Line
  <2>4. x \in Seq(Event) /\ p \in Seq(Event) /\ f \in Seq(Event)
    BY <2>3, HeardEvents, SeqMonotonic
  <2>5. w \in Seq(Event) /\ \A i \in 1 .. Len(w) : w[i].of = a
    <3>1. w \in Seq(Event \cap W)
      BY <2>1, FilterType
    <3> HIDE DEF w
    <3>2. \A i \in 1 .. Len(w) : w[i] \in W
      BY <3>1, ElementOfSeq
    <3>3. w \in Seq(Event)
      BY <3>1, SeqMonotonic
    <3>4. QED BY <3>2, <3>3
  <2>6. Tells(L, emitted[a], a \in dropped)
    BY <1>1, <2>1, <2>3 DEF IInv, Lines
  <2>7. Filter(w, U) = Filter(f, U)
    <3>1. W \cap U = R \cap U
      <4>1. SessionOf[a] \notin Attempt
        BY <2>1, CoordinatorAssumption
      <4>2. QED BY <2>1, <4>1 DEF Stream
    <3> HIDE DEF U, W, R
    <3>2. Filter(w, U) = Filter(unowned, W \cap U) /\ Filter(f, U) = Filter(unowned, R \cap U)
      BY <2>1, FilterFilter
    <3>3. QED BY <3>1, <3>2
  <2> HIDE DEF w, f, x, p, U
  <2>8. x \o p \in Seq(Event)
    BY <2>4, ConcatProperties
  <2>9. Filter(line, U) = s
    <3> DEFINE z == x \o p
    <3>1. z \in Seq(Event)
      BY <2>8
    <3> HIDE DEF z
    <3>2. Filter(z \o w, U) = Filter(z, U) \o Filter(w, U)
      BY <2>5, <3>1, FilterConcat
    <3>3. Filter(z \o f, U) = Filter(z, U) \o Filter(f, U)
      BY <2>4, <3>1, FilterConcat
    <3>4. QED BY <2>7, <3>2, <3>3 DEF z
  <2>10. Own(a, line)
    <3> DEFINE z == x \o p
    <3>1. z \in Seq(Heard(a)) /\ z \in Seq(Event)
      BY <2>3, <2>8, ConcatProperties
    <3> HIDE DEF z
    <3>2. /\ Len(z) \in Nat /\ Len(w) \in Nat /\ DOMAIN z = 1 .. Len(z)
          /\ z \o w \in Seq(Event) /\ Len(z \o w) = Len(z) + Len(w)
          /\ \A i \in 1 .. Len(z) : (z \o w)[i] = z[i]
          /\ \A i \in 1 .. Len(w) : (z \o w)[Len(z) + i] = w[i]
      BY <2>5, <3>1, ConcatIs, LenProperties
    <3>3. DOMAIN (z \o w) = 1 .. Len(z) + Len(w)
      BY <3>2, LenProperties
    <3>4. Own(a, z)
      BY <1>1, <2>1, <3>1, HeardIsOwn DEF IInv
    <3>5. ASSUME NEW i \in 1 .. Len(z) + Len(w)
          PROVE  (z \o w)[i].of \in {a, SessionOf[a]}
      <4>1. CASE i \in 1 .. Len(z)
        BY <3>2, <3>4, <4>1 DEF Own
      <4>2. CASE i \notin 1 .. Len(z)
        <5>1. PICK j \in 1 .. Len(w) : i = Len(z) + j
          <6>1. i - Len(z) \in 1 .. Len(w) /\ i = Len(z) + (i - Len(z))
            BY <3>2, <4>2
          <6>2. QED BY <6>1
        <5>2. QED BY <2>5, <3>2, <5>1
      <4>3. QED BY <4>1, <4>2
    <3>6. QED BY <3>3, <3>5 DEF Own, z
  <2> HIDE DEF L
  <2>11. /\ InLine(L) /\ (L # <<>> => Last(L).n = emitted[a])
         /\ a \notin dropped /\ emitted[a] > 0 => L # <<>> /\ L[1].n <= 1
    BY <2>6 DEF Tells
  <2>12. /\ s \in Seq(Heard(a)) /\ InLine(s)
         /\ s # <<>> => L # <<>> /\ s[Len(s)] = Last(L) /\ s[Len(s)].n > 0
         /\ L # <<>> /\ Last(L).n > 0 => s # <<>> /\ (L[1].n <= 1 => s[1].n = 1)
    <3>1. Said(L) = s
      BY DEF Said, U
    <3>2. QED BY <1>1, <2>1, <2>2, <2>3, <2>11, <3>1, SaidIs DEF IInv
  <2> HIDE DEF s
  <2>13. s # <<>> => s[Len(s)].n = emitted[a]
    BY <2>11, <2>12
  <2>14. s \in Seq(Event) /\ Len(s) \in Nat
    BY <2>12, HeardEvents, SeqMonotonic, LenProperties
  <2>15. ASSUME a \notin dropped
         PROVE  Len(s) = emitted[a]
    <3>1. CASE emitted[a] = 0
      <4>1. s = <<>>
        BY <2>12, <2>13, <3>1
      <4>2. QED BY <3>1, <4>1
    <3>2. CASE emitted[a] > 0
      <4>1. s # <<>> /\ s[1].n = 1 /\ s[Len(s)].n = emitted[a]
        BY <2>11, <2>12, <2>13, <2>15, <3>2
      <4>2. Len(s) \in 1 .. Len(s)
        BY <2>14, <4>1, LastIs
      <4>3. s[Len(s)].n = s[1].n + Len(s) - 1
        BY <2>12, <2>14, <4>2, InLineNumbers
      <4>4. QED BY <2>14, <4>1, <4>3
    <3>3. QED BY <2>1, <3>1, <3>2
  <2>16. Said(line) = s
    BY <2>9 DEF Said, U
  <2>17. line = applied[a] \o pending[a] \o Waiting(a)
    BY DEF x, p, w, Waiting
  <2>18. QED BY <2>10, <2>12, <2>13, <2>15, <2>16, <2>17
<1>2. IInv => OrderIsKept
  BY <1>1 DEF OrderIsKept
<1>3. QED BY <1>2, InvariantHolds, PTL
=============================================================================
