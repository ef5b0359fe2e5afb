------------------------- MODULE MutationLeaseProofs -------------------------
(* Theorems about MutationLease, for every set of attempts, every clock and *)
(* every bound.                                                             *)
EXTENDS MutationLease, TLAPS

-----------------------------------------------------------------------------
(* The order in which the rebuild lets facts win.                          *)

\* Of two different facts of a typed log one gives way to the other, and
\* never both ways round.
LEMMA SupersededTotal ==
  ASSUME TypeOK, NEW i \in DOMAIN log, NEW j \in DOMAIN log, i # j
  PROVE  /\ Superseded(i, j) \/ Superseded(j, i)
         /\ ~(Superseded(i, j) /\ Superseded(j, i))
<1>1. /\ log[i] \in Fact /\ log[j] \in Fact
      /\ i \in Nat /\ j \in Nat
  BY DEF TypeOK
<1>2. /\ SessionOf[log[i].attempt] \in Nat /\ SessionOf[log[j].attempt] \in Nat
      /\ log[i].epoch \in Nat /\ log[j].epoch \in Nat
      /\ log[i].at \in Nat /\ log[j].at \in Nat
  BY <1>1, LeaseAssumption DEF Fact
<1>3. QED BY <1>1, <1>2 DEF Superseded, ReadBefore

LEMMA LatestUnique ==
  ASSUME TypeOK, NEW w, NEW i, NEW j, Latest(i, w), Latest(j, w)
  PROVE  i = j
<1>1. i \in DOMAIN log /\ j \in DOMAIN log
  BY DEF Latest, LeaseFacts
<1>2. i # j => Superseded(i, j) /\ Superseded(j, i)
  BY DEF Latest
<1>3. QED BY <1>1, <1>2, SupersededTotal

\* What the fold of the rebuild leaves for a workspace, without CHOOSE.
RowOf(i) == [attempt |-> log[i].attempt, epoch |-> log[i].epoch,
             state |-> StateOf(log[i].change)]

RebuildsTo(w, r) ==
  IF LeaseFacts(w) = {} THEN r = NoRow
  ELSE \E i \in LeaseFacts(w) : Latest(i, w) /\ r = RowOf(i)

HasLatest ==
  \A w \in Workspace : LeaseFacts(w) # {} => \E i \in LeaseFacts(w) : Latest(i, w)

LEMMA RebuiltIs ==
  ASSUME TypeOK, HasLatest, NEW w \in Workspace
  PROVE  /\ RebuildsTo(w, Rebuilt(w))
         /\ \A r : RebuildsTo(w, r) => r = Rebuilt(w)
<1>1. CASE LeaseFacts(w) = {}
  BY <1>1 DEF Rebuilt, RebuildsTo
<1>2. CASE LeaseFacts(w) # {}
  <2> DEFINE c == CHOOSE i \in LeaseFacts(w) : Latest(i, w)
  <2>1. c \in LeaseFacts(w) /\ Latest(c, w)
    BY <1>2 DEF HasLatest
  <2>2. Rebuilt(w) = RowOf(c)
    BY <1>2 DEF Rebuilt, RowOf
  <2>3. \A i \in LeaseFacts(w) : Latest(i, w) => i = c
    BY <2>1, LatestUnique
  <2>4. QED BY <1>2, <2>1, <2>2, <2>3 DEF RebuildsTo
<1>3. QED BY <1>1, <1>2

-----------------------------------------------------------------------------
(* Type correctness.                                                       *)

LEMMA RebuiltType ==
  ASSUME TypeOK, HasLatest, NEW w \in Workspace
  PROVE  Rebuilt(w) \in Row \cup {NoRow}
<1>1. RebuildsTo(w, Rebuilt(w))
  BY RebuiltIs
<1>2. ASSUME NEW i \in LeaseFacts(w)
      PROVE  RowOf(i) \in Row
  <2>1. log[i] \in Fact
    BY DEF TypeOK, LeaseFacts
  <2>2. QED BY <2>1 DEF RowOf, Fact, Row, StateOf
<1>3. QED BY <1>1, <1>2 DEF RebuildsTo

-----------------------------------------------------------------------------
(* One more fact at the end of the log.                                    *)

LEMMA AppendedLog ==
  ASSUME TypeOK, NEW f \in Fact, log' = Append(log, f)
  PROVE  /\ log' \in Seq(Fact)
         /\ DOMAIN log' = DOMAIN log \cup {Len(log) + 1}
         /\ Len(log) + 1 \notin DOMAIN log
         /\ \A i \in DOMAIN log : log'[i] = log[i]
         /\ log'[Len(log) + 1] = f
BY DEF TypeOK

\* An audit fact, or a fact of another workspace, changes nothing the
\* rebuild reads for w.
LEMMA OtherFactsStay ==
  ASSUME TypeOK, NEW f \in Fact, log' = Append(log, f), NEW w \in Workspace,
         f.change = "blocked" \/ WorkspaceOf[f.attempt] # w
  PROVE  /\ LeaseFacts(w)' = LeaseFacts(w)
         /\ \A i \in LeaseFacts(w) : log'[i] = log[i]
         /\ \A i \in LeaseFacts(w) : Latest(i, w)' <=> Latest(i, w)
<1>1. /\ DOMAIN log' = DOMAIN log \cup {Len(log) + 1}
      /\ \A i \in DOMAIN log : log'[i] = log[i]
      /\ log'[Len(log) + 1] = f
  BY AppendedLog
<1>2. LeaseFacts(w)' = LeaseFacts(w)
  BY <1>1 DEF LeaseFacts
<1>3. \A i \in LeaseFacts(w) : log'[i] = log[i]
  BY <1>1 DEF LeaseFacts
<1>4. \A i, j \in LeaseFacts(w) : Superseded(j, i)' <=> Superseded(j, i)
  BY <1>3 DEF Superseded, ReadBefore
<1>5. \A i \in LeaseFacts(w) : Latest(i, w)' <=> Latest(i, w)
  BY <1>2, <1>4 DEF Latest
<1>6. QED BY <1>2, <1>3, <1>5

LEMMA OwnFactArrives ==
  ASSUME TypeOK, NEW f \in Fact, log' = Append(log, f), NEW w \in Workspace,
         f.change # "blocked", WorkspaceOf[f.attempt] = w
  PROVE  /\ LeaseFacts(w)' = LeaseFacts(w) \cup {Len(log) + 1}
         /\ \A i \in LeaseFacts(w) : log'[i] = log[i]
         /\ log'[Len(log) + 1] = f
         /\ \A i, j \in LeaseFacts(w) : Superseded(j, i)' <=> Superseded(j, i)
<1>1. /\ DOMAIN log' = DOMAIN log \cup {Len(log) + 1}
      /\ Len(log) + 1 \notin DOMAIN log
      /\ \A i \in DOMAIN log : log'[i] = log[i]
      /\ log'[Len(log) + 1] = f
  BY AppendedLog
<1>2. LeaseFacts(w)' = LeaseFacts(w) \cup {Len(log) + 1}
  BY <1>1 DEF LeaseFacts
<1>3. \A i \in LeaseFacts(w) : log'[i] = log[i]
  BY <1>1 DEF LeaseFacts
<1>4. \A i, j \in LeaseFacts(w) : Superseded(j, i)' <=> Superseded(j, i)
  BY <1>3 DEF Superseded, ReadBefore
<1>5. QED BY <1>1, <1>2, <1>3, <1>4

\* A fact of a higher epoch than all of its workspace wins the rebuild.
LEMMA HigherEpochWins ==
  ASSUME TypeOK, NEW f \in Fact, log' = Append(log, f), NEW w \in Workspace,
         f.change # "blocked", WorkspaceOf[f.attempt] = w,
         \A i \in LeaseFacts(w) : log[i].epoch < f.epoch,
         NEW n, n = Len(log) + 1
  PROVE  Latest(n, w)'
<1>1. /\ LeaseFacts(w)' = LeaseFacts(w) \cup {n}
      /\ \A i \in LeaseFacts(w) : log'[i] = log[i]
      /\ log'[n] = f
  BY OwnFactArrives
<1>2. \A i \in LeaseFacts(w) : Superseded(i, n)'
  BY <1>1 DEF Superseded
<1>3. QED BY <1>1, <1>2 DEF Latest

\* Whatever fact arrives, the rebuild keeps having a last one.
LEMMA LatestStays ==
  ASSUME TypeOK, TypeOK', HasLatest, NEW f \in Fact, log' = Append(log, f)
  PROVE  HasLatest'
<1> SUFFICES ASSUME NEW w \in Workspace, LeaseFacts(w)' # {}
             PROVE  \E i \in LeaseFacts(w)' : Latest(i, w)'
  BY DEF HasLatest
<1> PICK n : n = Len(log) + 1
  OBVIOUS
<1>1. CASE f.change = "blocked" \/ WorkspaceOf[f.attempt] # w
  <2>1. /\ LeaseFacts(w)' = LeaseFacts(w)
        /\ \A i \in LeaseFacts(w) : Latest(i, w)' <=> Latest(i, w)
    BY <1>1, OtherFactsStay
  <2>2. QED BY <2>1 DEF HasLatest
<1>2. CASE f.change # "blocked" /\ WorkspaceOf[f.attempt] = w
  <2>1. /\ LeaseFacts(w)' = LeaseFacts(w) \cup {n}
        /\ \A i, j \in LeaseFacts(w) : Superseded(j, i)' <=> Superseded(j, i)
    BY <1>2, OwnFactArrives
  <2>2. /\ n \in Nat /\ n \notin DOMAIN log
        /\ \A j \in LeaseFacts(w)' : log'[j] \in Fact /\ j \in Nat
    BY AppendedLog DEF LeaseFacts, TypeOK
  <2>3. \A j \in LeaseFacts(w)' :
          /\ SessionOf[log'[j].attempt] \in Nat
          /\ log'[j].epoch \in Nat
          /\ log'[j].at \in Nat
          /\ j \in Nat
    BY <2>2, LeaseAssumption DEF Fact
  <2>4. CASE LeaseFacts(w) = {}
    BY <2>1, <2>4 DEF Latest
  <2>5. CASE LeaseFacts(w) # {}
    <3>1. PICK i \in LeaseFacts(w) : Latest(i, w)
      BY <2>5 DEF HasLatest
    <3>2. i # n /\ i \in LeaseFacts(w)' /\ n \in LeaseFacts(w)'
      BY <2>1, <2>2 DEF LeaseFacts
    <3>3. \A j \in LeaseFacts(w) \ {i} : Superseded(j, i)'
      BY <2>1, <3>1 DEF Latest
    <3>4. CASE Superseded(n, i)'
      BY <2>1, <3>1, <3>3, <3>4 DEF Latest
    <3>5. CASE Superseded(i, n)'
      <4>1. ASSUME NEW j \in LeaseFacts(w) \ {i}
            PROVE  Superseded(j, n)'
        <5>1. j \in LeaseFacts(w)'
          BY <2>1
        <5>2. Superseded(j, i)'
          BY <3>3
        <5>3. QED BY ONLY <2>3, <3>2, <3>5, <5>1, <5>2 DEF Superseded, ReadBefore
      <4>2. QED BY <2>1, <3>5, <4>1 DEF Latest
    <3>6. Superseded(i, n)' \/ Superseded(n, i)'
      BY ONLY <2>3, <3>2 DEF Superseded, ReadBefore
    <3>7. QED BY <3>4, <3>5, <3>6
  <2>6. QED BY <2>4, <2>5
<1>3. QED BY <1>1, <1>2

-----------------------------------------------------------------------------
(* The inductive invariant behind exclusive mutation.  An attempt's claim  *)
(* is safe only if the row backs it now (ClaimsAreBacked) and a restart     *)
(* would rebuild that very row (HeldSurvives); a new epoch wins the rebuild *)
(* because the row's epoch bounds those of all the facts (RowCoversLog).   *)

RowCoversLog ==
  \A w \in Workspace :
    /\ row[w] = NoRow => LeaseFacts(w) = {}
    /\ row[w] # NoRow => \A i \in LeaseFacts(w) : log[i].epoch <= row[w].epoch

\* One call outstanding, and nothing is owned while a release is under way.
CallsAreSequential ==
  \A a \in Attempt :
    mail[a] # NoCall =>
      /\ reply[a] = NoReply
      /\ mail[a].action = "Release" => owned[a] = 0

HeldSurvives ==
  \A w \in Workspace :
    row[w] # NoRow /\ row[w].state = "held" => RebuildsTo(w, row[w])

LeaseInv ==
  /\ TypeOK
  /\ RowCoversLog
  /\ HasLatest
  /\ CallsAreSequential
  /\ ClaimsAreBacked
  /\ HeldSurvives

LEMMA LeaseInvInit == Init => LeaseInv
<1> SUFFICES ASSUME Init PROVE LeaseInv
  OBVIOUS
<1>1. TypeOK
  BY LeaseAssumption DEF Init, TypeOK, Time
<1>2. \A w : LeaseFacts(w) = {}
  BY DEF Init, LeaseFacts
<1>3. RowCoversLog /\ HasLatest
  BY <1>2 DEF Init, RowCoversLog, HasLatest
<1>4. CallsAreSequential /\ ClaimsAreBacked /\ HeldSurvives
  BY DEF Init, CallsAreSequential, ClaimsAreBacked, HeldSurvives
<1>5. QED BY <1>1, <1>3, <1>4 DEF LeaseInv

\* What the rebuild reads depends on the log alone.
LEMMA SameLog ==
  ASSUME UNCHANGED log
  PROVE  \A w : /\ LeaseFacts(w)' = LeaseFacts(w)
                /\ \A i : Latest(i, w)' <=> Latest(i, w)
<1>1. \A w : LeaseFacts(w)' = LeaseFacts(w)
  BY DEF LeaseFacts
<1>2. \A i, j : Superseded(i, j)' <=> Superseded(i, j)
  BY DEF Superseded, ReadBefore
<1>3. QED BY <1>1, <1>2 DEF Latest

\* A step that leaves log and row alone keeps every part about them.
LEMMA SameLogAndRow ==
  ASSUME UNCHANGED <<log, row>>, RowCoversLog, HasLatest
  PROVE  /\ RowCoversLog' /\ HasLatest'
         /\ \A w : RebuildsTo(w, row[w])' <=> RebuildsTo(w, row[w])
<1>1. RowCoversLog' /\ HasLatest'
  BY SameLog DEF RowCoversLog, HasLatest
<1>2. \A w : RebuildsTo(w, row[w])' <=> RebuildsTo(w, row[w])
  BY SameLog DEF RebuildsTo, RowOf
<1>3. QED BY <1>1, <1>2

LEMMA SendCallKeeps ==
  ASSUME LeaseInv, NEW a \in Attempt, NEW action \in {"Acquire", "Release"},
         SendCall(a, action)
  PROVE  LeaseInv'
<1> USE DEF SendCall
<1>1. TypeOK'
  BY DEF LeaseInv, TypeOK, Call, Time
<1>2. RowCoversLog' /\ HasLatest' /\ \A w : RebuildsTo(w, row[w])' <=> RebuildsTo(w, row[w])
  BY SameLogAndRow DEF LeaseInv
<1>3. CallsAreSequential'
  BY DEF LeaseInv, TypeOK, CallsAreSequential, Idle
<1>4. \A b \in Attempt : owned'[b] = owned[b] \/ owned'[b] = 0
  BY DEF LeaseInv, TypeOK
<1>5. ClaimsAreBacked'
  <2> SUFFICES ASSUME NEW b \in Attempt
               PROVE  /\ owned'[b] > 0 => HoldsUnder(b, owned[b])'
                      /\ reply'[b] # NoReply /\ reply'[b].kind = "Acquired"
                           => HoldsUnder(b, reply[b].epoch)'
    BY DEF ClaimsAreBacked
  <2>1. owned'[b] > 0 => owned'[b] = owned[b]
    BY <1>4
  <2>2. QED BY <2>1 DEF LeaseInv, ClaimsAreBacked, HoldsUnder
<1>6. HeldSurvives'
  BY <1>2 DEF LeaseInv, HeldSurvives
<1>7. QED BY <1>1, <1>2, <1>3, <1>5, <1>6 DEF LeaseInv

LEMMA ReceiveAnswerKeeps ==
  ASSUME LeaseInv, NEW a \in Attempt, ReceiveAnswer(a)
  PROVE  LeaseInv'
<1> USE DEF ReceiveAnswer
<1>1. TypeOK'
  BY DEF LeaseInv, TypeOK, Answer, NoReply
<1>2. RowCoversLog' /\ HasLatest' /\ \A w : RebuildsTo(w, row[w])' <=> RebuildsTo(w, row[w])
  BY SameLogAndRow DEF LeaseInv
<1>3. CallsAreSequential'
  BY DEF LeaseInv, TypeOK, CallsAreSequential
<1>4. ClaimsAreBacked'
  BY DEF LeaseInv, TypeOK, ClaimsAreBacked, HoldsUnder
<1>5. HeldSurvives'
  BY <1>2 DEF LeaseInv, HeldSurvives
<1>6. QED BY <1>1, <1>2, <1>3, <1>4, <1>5 DEF LeaseInv

LEMMA ReopenKeeps ==
  ASSUME LeaseInv, Reopen
  PROVE  LeaseInv'
<1>1. TypeOK'
  BY RebuiltType DEF Reopen, LeaseInv, TypeOK
<1>2. \A w \in Workspace : RebuildsTo(w, row'[w])
  BY RebuiltIs DEF Reopen, LeaseInv, TypeOK
<1>3. HasLatest' /\ \A w : LeaseFacts(w)' = LeaseFacts(w)
  BY SameLog DEF Reopen, LeaseInv, HasLatest
<1>4. \A w \in Workspace : RebuildsTo(w, row[w])'
  BY <1>2, SameLog DEF RebuildsTo, RowOf, Reopen
<1>5. RowCoversLog'
  <2> SUFFICES ASSUME NEW w \in Workspace
               PROVE  /\ row'[w] = NoRow => LeaseFacts(w) = {}
                      /\ row'[w] # NoRow => \A i \in LeaseFacts(w) : log[i].epoch <= row'[w].epoch
    BY <1>3 DEF RowCoversLog, Reopen
  <2>1. CASE LeaseFacts(w) = {}
    BY <2>1
  <2>2. CASE LeaseFacts(w) # {}
    <3>1. PICK i \in LeaseFacts(w) : Latest(i, w) /\ row'[w] = RowOf(i)
      BY <1>2, <2>2 DEF RebuildsTo
    <3>2. \A j \in LeaseFacts(w) : log[j].epoch \in Nat
      <4>1. \A j \in LeaseFacts(w) : log[j] \in Fact
        BY DEF LeaseInv, TypeOK, LeaseFacts
      <4>2. QED BY <4>1 DEF Fact
    <3>3. row'[w] # NoRow /\ row'[w].epoch = log[i].epoch
      BY <3>1 DEF RowOf, NoRow, StateOf
    <3>4. \A j \in LeaseFacts(w) : log[j].epoch <= log[i].epoch
      BY <3>1, <3>2 DEF Latest, Superseded
    <3>5. QED BY <3>3, <3>4
  <2>3. QED BY <2>1, <2>2
<1>6. CallsAreSequential'
  BY DEF Reopen, CallsAreSequential
<1>7. ClaimsAreBacked'
  <2> SUFFICES ASSUME NEW a \in Attempt, owned[a] > 0
               PROVE  row'[WorkspaceOf[a]] = row[WorkspaceOf[a]]
    BY DEF Reopen, ClaimsAreBacked, HoldsUnder, LeaseInv
  <2>1. RebuildsTo(WorkspaceOf[a], row[WorkspaceOf[a]])
    <3>1. HoldsUnder(a, owned[a]) /\ WorkspaceOf[a] \in Workspace
      BY LeaseAssumption DEF LeaseInv, ClaimsAreBacked
    <3>2. row[WorkspaceOf[a]] # NoRow /\ row[WorkspaceOf[a]].state = "held"
      BY <3>1 DEF HoldsUnder, NoRow
    <3>3. QED BY <3>1, <3>2 DEF LeaseInv, HeldSurvives
  <2>2. WorkspaceOf[a] \in Workspace
    BY LeaseAssumption
  <2>3. QED BY <2>1, <2>2, RebuiltIs DEF Reopen, LeaseInv
<1>8. HeldSurvives'
  BY <1>4 DEF HeldSurvives
<1>9. QED BY <1>1, <1>3, <1>5, <1>6, <1>7, <1>8 DEF LeaseInv

-----------------------------------------------------------------------------
(* The writer's transactions.                                              *)

LEMMA AnswerOnlyKeeps ==
  ASSUME LeaseInv, NEW a \in Attempt, mail[a] # NoCall,
         NEW kind \in {"Acquired", "Released", "Busy", "IdempotencyConflict"},
         NEW epoch \in Nat, AnswerOnly(a, kind, epoch),
         kind = "Acquired" => HoldsUnder(a, epoch)
  PROVE  LeaseInv'
<1> USE DEF AnswerOnly, Serving
<1>1. TypeOK'
  BY DEF LeaseInv, TypeOK, Answer
<1>2. RowCoversLog' /\ HasLatest' /\ \A w : RebuildsTo(w, row[w])' <=> RebuildsTo(w, row[w])
  BY SameLogAndRow DEF LeaseInv
<1>3. CallsAreSequential'
  BY DEF LeaseInv, TypeOK, CallsAreSequential
<1>4. ClaimsAreBacked'
  BY DEF LeaseInv, TypeOK, ClaimsAreBacked, HoldsUnder
<1>5. HeldSurvives'
  BY <1>2 DEF LeaseInv, HeldSurvives
<1>6. QED BY <1>1, <1>2, <1>3, <1>4, <1>5 DEF LeaseInv

\* The audit fact of a refused acquire.
LEMMA AuditKeeps ==
  ASSUME LeaseInv, NEW a \in Attempt, mail[a] # NoCall,
         NEW f \in Fact, f.change = "blocked", NEW epoch \in Nat,
         Serving(a, "Busy", epoch), log' = Appended(f), UNCHANGED row
  PROVE  LeaseInv'
<1> USE DEF Serving
<1>1. CASE UNCHANGED log
  <2>1. AnswerOnly(a, "Busy", epoch)
    BY <1>1 DEF AnswerOnly
  <2>2. QED BY <2>1, AnswerOnlyKeeps
<1>2. CASE log' = Append(log, f)
  <2>1. TypeOK'
    BY <1>2 DEF LeaseInv, TypeOK, Answer
  <2>2. \A w \in Workspace :
          /\ LeaseFacts(w)' = LeaseFacts(w)
          /\ \A i \in LeaseFacts(w) : log'[i] = log[i]
          /\ \A i \in LeaseFacts(w) : Latest(i, w)' <=> Latest(i, w)
    BY <1>2, OtherFactsStay DEF LeaseInv
  <2>3. RowCoversLog' /\ HasLatest'
    BY <2>2 DEF LeaseInv, RowCoversLog, HasLatest
  <2>4. HeldSurvives'
    <3>1. ASSUME NEW w \in Workspace, RebuildsTo(w, row[w])
          PROVE  RebuildsTo(w, row[w])'
      BY <2>2, <3>1 DEF RebuildsTo, RowOf
    <3>2. QED BY <3>1 DEF LeaseInv, HeldSurvives
  <2>5. CallsAreSequential' /\ ClaimsAreBacked'
    BY DEF LeaseInv, TypeOK, CallsAreSequential, ClaimsAreBacked, HoldsUnder
  <2>6. QED BY <2>1, <2>3, <2>4, <2>5 DEF LeaseInv
<1>3. QED BY <1>1, <1>2 DEF Appended

\* A row written together with a fact that is not on record yet.
LEMMA NoFactAheadOfRow ==
  ASSUME LeaseInv, NEW w \in Workspace, NEW f \in Fact, f.change # "blocked",
         WorkspaceOf[f.attempt] = w, f.epoch = Epoch(w) + 1
  PROVE  /\ \A i \in LeaseFacts(w) : log[i].epoch < f.epoch
         /\ Existing(f) = {}
<1>1. \A i \in LeaseFacts(w) : log[i] \in Fact
  BY DEF LeaseInv, TypeOK, LeaseFacts
<1>2. \A i \in LeaseFacts(w) : log[i].epoch \in Nat
  BY <1>1 DEF Fact
<1>3. row[w] # NoRow => row[w].epoch \in Nat
  BY DEF LeaseInv, TypeOK, Row
<1>4. \A i \in LeaseFacts(w) : log[i].epoch < f.epoch
  BY <1>2, <1>3 DEF LeaseInv, RowCoversLog, Epoch
<1>5. \A i \in Existing(f) : i \in LeaseFacts(w) /\ log[i].epoch = f.epoch
  BY DEF Existing, SameFactId, LeaseFacts
<1>6. QED BY <1>2, <1>4, <1>5

LEMMA AcquireFreeKeeps ==
  ASSUME LeaseInv, NEW a \in Attempt, AcquireFree(a, WorkspaceOf[a])
  PROVE  LeaseInv'
<1> DEFINE w == WorkspaceOf[a]
           e == Epoch(w) + 1
           f == FactOf(a, "acquired", e)
           n == Len(log) + 1
<1>1. w \in Workspace /\ mail[a] \in Call /\ mail[a] # NoCall
  BY LeaseAssumption DEF AcquireFree, Asks, LeaseInv, TypeOK
<1>2. e \in Nat /\ e > 0 /\ f \in Fact /\ f.epoch = e /\ f.change = "acquired" /\ f.attempt = a
  <2>1. Epoch(w) \in Nat
    BY <1>1 DEF LeaseInv, TypeOK, Row, Epoch
  <2>2. QED BY <1>1, <2>1 DEF FactOf, Fact, Change, Call
<1>3. (\A i \in LeaseFacts(w) : log[i].epoch < e) /\ Existing(f) = {}
  BY <1>1, <1>2, NoFactAheadOfRow
<1>4. /\ Serving(a, "Acquired", e)
      /\ log' = Append(log, f)
      /\ row' = [row EXCEPT ![w] = [attempt |-> a, epoch |-> e, state |-> "held"]]
  BY <1>3 DEF AcquireFree, ChangeRow, Refuse, Conflicts, Appended, StateOf
<1> HIDE DEF e, f
<1>5. TypeOK'
  BY <1>1, <1>2, <1>4 DEF LeaseInv, TypeOK, Serving, Answer, Row
<1>6. /\ LeaseFacts(w)' = LeaseFacts(w) \cup {n}
      /\ \A i \in LeaseFacts(w) : log'[i] = log[i]
      /\ log'[n] = f
  BY <1>1, <1>2, <1>4, OwnFactArrives DEF LeaseInv
<1>7. \A v \in Workspace \ {w} :
        /\ LeaseFacts(v)' = LeaseFacts(v)
        /\ \A i \in LeaseFacts(v) : log'[i] = log[i]
        /\ \A i \in LeaseFacts(v) : Latest(i, v)' <=> Latest(i, v)
  BY <1>2, <1>4, OtherFactsStay DEF LeaseInv
<1>8. \A v \in Workspace \ {w} : row'[v] = row[v]
  BY <1>4 DEF LeaseInv, TypeOK
<1>9. row'[w] = [attempt |-> a, epoch |-> e, state |-> "held"]
  BY <1>1, <1>4 DEF LeaseInv, TypeOK
<1>10. RowCoversLog'
  <2>1. \A i \in LeaseFacts(w)' : log'[i].epoch <= e
    <3>1. \A i \in LeaseFacts(w) : log[i].epoch \in Nat
      <4>1. \A i \in LeaseFacts(w) : log[i] \in Fact
        BY DEF LeaseInv, TypeOK, LeaseFacts
      <4>2. QED BY <4>1 DEF Fact
    <3>2. QED BY <1>2, <1>3, <1>6, <3>1
  <2>2. row'[w] # NoRow /\ row'[w].epoch = e
    BY <1>9 DEF NoRow
  <2>3. ASSUME NEW v \in Workspace, v # w
        PROVE  /\ row'[v] = NoRow => LeaseFacts(v)' = {}
               /\ row'[v] # NoRow => \A i \in LeaseFacts(v)' : log'[i].epoch <= row'[v].epoch
    BY <1>7, <1>8, <2>3 DEF LeaseInv, RowCoversLog
  <2>4. QED BY <2>1, <2>2, <2>3 DEF RowCoversLog
<1>11. HasLatest'
  BY <1>2, <1>4, <1>5, LatestStays DEF LeaseInv
<1>12. CallsAreSequential'
  BY <1>4 DEF LeaseInv, TypeOK, CallsAreSequential, Serving
<1>13. ClaimsAreBacked'
  <2>1. \A b \in Attempt : WorkspaceOf[b] = w => owned[b] = 0 /\ (reply[b] = NoReply \/ reply[b].kind # "Acquired")
    <3> SUFFICES ASSUME NEW b \in Attempt, WorkspaceOf[b] = w
                 PROVE  owned[b] = 0 /\ (reply[b] = NoReply \/ reply[b].kind # "Acquired")
      OBVIOUS
    <3>1. \A k : ~HoldsUnder(b, k)
      BY DEF AcquireFree, Free, HoldsUnder, NoRow
    <3>2. owned[b] \in Nat
      BY DEF LeaseInv, TypeOK
    <3>3. QED BY <3>1, <3>2 DEF LeaseInv, ClaimsAreBacked
  <2>2. QED BY <1>4, <1>8, <1>9, <2>1, LeaseAssumption DEF LeaseInv, TypeOK, ClaimsAreBacked, HoldsUnder, Serving
<1>14. HeldSurvives'
  <2>1. RebuildsTo(w, row[w])'
    <3>1. PICK m : m = Len(log) + 1
      OBVIOUS
    <3>2. Latest(m, w)'
      BY <1>1, <1>2, <1>3, <1>4, <3>1, HigherEpochWins DEF LeaseInv
    <3>3. RowOf(m)' = row'[w]
      BY <1>2, <1>6, <1>9, <3>1 DEF RowOf, StateOf
    <3>4. QED BY <1>6, <3>1, <3>2, <3>3 DEF RebuildsTo
  <2>2. ASSUME NEW v \in Workspace \ {w}, row'[v] # NoRow, row'[v].state = "held"
        PROVE  RebuildsTo(v, row[v])'
    <3>1. RebuildsTo(v, row[v])
      BY <1>8, <2>2 DEF LeaseInv, HeldSurvives
    <3>2. QED BY <1>7, <1>8, <3>1 DEF RebuildsTo, RowOf
  <2>3. QED BY <2>1, <2>2 DEF HeldSurvives
<1>15. QED BY <1>5, <1>10, <1>11, <1>12, <1>13, <1>14 DEF LeaseInv

LEMMA ReleaseHeldKeeps ==
  ASSUME LeaseInv, NEW a \in Attempt, ReleaseHeld(a, WorkspaceOf[a]),
         NEW f, f = FactOf(a, "released", row[WorkspaceOf[a]].epoch), ~Conflicts(f)
  PROVE  LeaseInv'
<1> DEFINE w == WorkspaceOf[a]
           e == row[w].epoch
<1>1. w \in Workspace /\ mail[a] \in Call /\ mail[a] # NoCall
  BY LeaseAssumption DEF ReleaseHeld, Asks, LeaseInv, TypeOK
<1>2. /\ row[w] # NoRow /\ row[w].state = "held" /\ row[w].attempt = a
      /\ mail[a].action = "Release"
  BY DEF ReleaseHeld, HeldBy, Asks
<1>3. e \in Nat /\ f \in Fact /\ f.epoch = e /\ f.change = "released" /\ f.attempt = a
  <2>1. e \in Nat
    BY <1>1, <1>2 DEF LeaseInv, TypeOK, Row
  <2>2. QED BY <1>1, <2>1 DEF FactOf, Fact, Change, Call
<1>4. /\ Serving(a, "Released", e)
      /\ log' = Appended(f)
      /\ row' = [row EXCEPT ![w] = [attempt |-> a, epoch |-> e, state |-> "released"]]
  BY DEF ReleaseHeld, ChangeRow, Refuse, StateOf
<1> HIDE DEF e
<1>5. /\ row'[w] = [attempt |-> a, epoch |-> e, state |-> "released"]
      /\ row'[w] # NoRow /\ row'[w].epoch = e /\ row'[w].state = "released"
  <2>1. row'[w] = [attempt |-> a, epoch |-> e, state |-> "released"]
    BY <1>1, <1>4 DEF LeaseInv, TypeOK
  <2>2. QED BY <2>1 DEF NoRow
<1>6. \A v \in Workspace \ {w} : row'[v] = row[v]
  BY <1>4 DEF LeaseInv, TypeOK
<1>7. TypeOK'
  BY <1>1, <1>3, <1>4 DEF LeaseInv, TypeOK, Serving, Answer, Row, Appended
<1>8. ASSUME log' = log
      PROVE  HasLatest' /\ RowCoversLog' /\ \A v \in Workspace \ {w} : RebuildsTo(v, row[v]) => RebuildsTo(v, row[v])'
  <2>1. HasLatest' /\ \A v : LeaseFacts(v)' = LeaseFacts(v) /\ \A i : Latest(i, v)' <=> Latest(i, v)
    BY <1>8, SameLog DEF LeaseInv, HasLatest
  <2>2. RowCoversLog'
    <3>1. \A i \in LeaseFacts(w) : log[i].epoch <= e
      BY <1>1, <1>2 DEF LeaseInv, RowCoversLog, e
    <3>2. QED BY <1>5, <1>6, <1>8, <2>1, <3>1 DEF LeaseInv, RowCoversLog
  <2>3. \A v \in Workspace \ {w} : RebuildsTo(v, row[v]) => RebuildsTo(v, row[v])'
    BY <1>6, <1>8, <2>1 DEF RebuildsTo, RowOf
  <2>4. QED BY <2>1, <2>2, <2>3
<1>9. ASSUME log' = Append(log, f)
      PROVE  HasLatest' /\ RowCoversLog' /\ \A v \in Workspace \ {w} : RebuildsTo(v, row[v]) => RebuildsTo(v, row[v])'
  <2> DEFINE n == Len(log) + 1
  <2>1. /\ LeaseFacts(w)' = LeaseFacts(w) \cup {n}
        /\ \A i \in LeaseFacts(w) : log'[i] = log[i]
        /\ log'[n] = f
    BY <1>1, <1>3, <1>9, OwnFactArrives DEF LeaseInv
  <2>2. \A v \in Workspace \ {w} :
          /\ LeaseFacts(v)' = LeaseFacts(v)
          /\ \A i \in LeaseFacts(v) : log'[i] = log[i]
          /\ \A i \in LeaseFacts(v) : Latest(i, v)' <=> Latest(i, v)
    BY <1>3, <1>9, OtherFactsStay DEF LeaseInv
  <2>3. HasLatest'
    BY <1>3, <1>7, <1>9, LatestStays DEF LeaseInv
  <2>4. RowCoversLog'
    <3>1. \A i \in LeaseFacts(w)' : log'[i].epoch <= e
      <4>1. \A i \in LeaseFacts(w) : log[i].epoch <= e
        BY <1>1, <1>2 DEF LeaseInv, RowCoversLog, e
      <4>2. QED BY <1>3, <2>1, <4>1
    <3>2. ASSUME NEW v \in Workspace, v # w
          PROVE  /\ row'[v] = NoRow => LeaseFacts(v)' = {}
                 /\ row'[v] # NoRow => \A i \in LeaseFacts(v)' : log'[i].epoch <= row'[v].epoch
      BY <1>6, <2>2, <3>2 DEF LeaseInv, RowCoversLog
    <3>3. QED BY <1>5, <3>1, <3>2 DEF RowCoversLog
  <2>5. \A v \in Workspace \ {w} : RebuildsTo(v, row[v]) => RebuildsTo(v, row[v])'
    BY <1>6, <2>2 DEF RebuildsTo, RowOf
  <2>6. QED BY <2>3, <2>4, <2>5
<1>10. HasLatest' /\ RowCoversLog' /\ \A v \in Workspace \ {w} : RebuildsTo(v, row[v]) => RebuildsTo(v, row[v])'
  BY <1>4, <1>8, <1>9 DEF Appended
<1>11. CallsAreSequential'
  BY <1>4 DEF LeaseInv, TypeOK, CallsAreSequential, Serving
<1>12. ClaimsAreBacked'
  <2>1. \A b \in Attempt : WorkspaceOf[b] = w =>
          owned[b] = 0 /\ (b = a \/ reply[b] = NoReply \/ reply[b].kind # "Acquired")
    <3> SUFFICES ASSUME NEW b \in Attempt, WorkspaceOf[b] = w
                 PROVE  owned[b] = 0 /\ (b = a \/ reply[b] = NoReply \/ reply[b].kind # "Acquired")
      OBVIOUS
    <3>1. CASE b = a
      BY <1>1, <1>2, <3>1 DEF LeaseInv, CallsAreSequential
    <3>2. CASE b # a
      <4>1. \A k : ~HoldsUnder(b, k)
        BY <1>2, <3>2 DEF HoldsUnder
      <4>2. owned[b] \in Nat
        BY DEF LeaseInv, TypeOK
      <4>3. QED BY <4>1, <4>2 DEF LeaseInv, ClaimsAreBacked
    <3>3. QED BY <3>1, <3>2
  <2>2. QED BY <1>4, <1>6, <2>1, LeaseAssumption DEF LeaseInv, TypeOK, ClaimsAreBacked, HoldsUnder, Serving
<1>13. HeldSurvives'
  BY <1>5, <1>6, <1>10 DEF LeaseInv, HeldSurvives
<1>14. QED BY <1>7, <1>10, <1>11, <1>12, <1>13 DEF LeaseInv

LEMMA ChangeMutationLeaseKeeps ==
  ASSUME LeaseInv, NEW a \in Attempt, ChangeMutationLease(a)
  PROVE  LeaseInv'
<1> DEFINE w == WorkspaceOf[a]
<1>0. w \in Workspace /\ mail[a] \in Call \cup {NoCall}
  BY LeaseAssumption DEF LeaseInv, TypeOK
<1>1. row[w] # NoRow => row[w].epoch \in Nat
  BY <1>0 DEF LeaseInv, TypeOK, Row
<1>2. \A change : \A e \in Nat : mail[a] # NoCall => FactOf(a, change, e).epoch = e
  BY DEF FactOf
<1>3. ASSUME mail[a] # NoCall, NEW f, f.epoch \in Nat, Refuse(a, f)
      PROVE  LeaseInv'
  BY <1>3, AnswerOnlyKeeps DEF Refuse
<1>4. CASE AcquireAgain(a, w)
  <2>1. HoldsUnder(a, row[w].epoch)
    <3>1. row[w] \in Row
      BY <1>0, <1>4 DEF AcquireAgain, HeldBy, LeaseInv, TypeOK
    <3>2. QED BY <1>4, <3>1 DEF AcquireAgain, HeldBy, HoldsUnder, Row
  <2>2. QED BY <1>1, <1>4, <2>1, AnswerOnlyKeeps DEF AcquireAgain, HeldBy, Asks
<1>5. CASE AcquireBusy(a, w)
  <2> DEFINE f == FactOf(a, "blocked", row[w].epoch)
  <2>1. mail[a] \in Call /\ mail[a] # NoCall /\ row[w].epoch \in Nat
    BY <1>0, <1>1, <1>5 DEF AcquireBusy, Asks, HeldByOther
  <2>2. f \in Fact /\ f.change = "blocked" /\ f.epoch \in Nat
    BY <2>1 DEF FactOf, Fact, Change, Call
  <2>3. CASE Refuse(a, f)
    BY <1>3, <2>1, <2>2, <2>3
  <2>4. CASE Serving(a, "Busy", row[w].epoch) /\ log' = Appended(f) /\ UNCHANGED row
    BY <2>1, <2>2, <2>4, AuditKeeps
  <2>5. QED BY <1>5, <2>3, <2>4 DEF AcquireBusy
<1>6. CASE AcquireFree(a, w)
  BY <1>6, AcquireFreeKeeps
<1>7. CASE ReleaseAgain(a, w)
  BY <1>1, <1>7, AnswerOnlyKeeps DEF ReleaseAgain, Epoch, Asks
<1>8. CASE ReleaseOther(a, w)
  BY <1>1, <1>8, AnswerOnlyKeeps DEF ReleaseOther, HeldByOther, Asks
<1>9. CASE ReleaseHeld(a, w)
  <2> DEFINE f == FactOf(a, "released", row[w].epoch)
  <2>1. mail[a] # NoCall /\ f.epoch \in Nat
    BY <1>1, <1>2, <1>9 DEF ReleaseHeld, Asks, HeldBy
  <2>2. CASE Conflicts(f)
    BY <1>3, <1>9, <2>1, <2>2 DEF ReleaseHeld, ChangeRow
  <2>3. CASE ~Conflicts(f)
    BY <1>9, <2>3, ReleaseHeldKeeps
  <2>4. QED BY <2>2, <2>3
<1>10. QED
  BY <1>4, <1>5, <1>6, <1>7, <1>8, <1>9 DEF ChangeMutationLease

LEMMA StutterKeeps ==
  ASSUME LeaseInv, Tick \/ UNCHANGED vars
  PROVE  LeaseInv'
<1>1. UNCHANGED <<log, row, mail, reply, owned>> /\ clock' \in Time
  BY LeaseAssumption DEF Tick, vars, Time, LeaseInv, TypeOK
<1>2. RowCoversLog' /\ HasLatest' /\ \A w : RebuildsTo(w, row[w])' <=> RebuildsTo(w, row[w])
  BY <1>1, SameLogAndRow DEF LeaseInv
<1>3. TypeOK' /\ CallsAreSequential' /\ ClaimsAreBacked'
  BY <1>1 DEF LeaseInv, TypeOK, CallsAreSequential, ClaimsAreBacked, HoldsUnder
<1>4. HeldSurvives'
  BY <1>1, <1>2 DEF LeaseInv, HeldSurvives
<1>5. QED BY <1>2, <1>3, <1>4 DEF LeaseInv

LEMMA LeaseInvNext == LeaseInv /\ [Next]_vars => LeaseInv'
<1> SUFFICES ASSUME LeaseInv, [Next]_vars PROVE LeaseInv'
  OBVIOUS
<1>1. CASE \E a \in Attempt, action \in {"Acquire", "Release"} : SendCall(a, action)
  BY <1>1, SendCallKeeps
<1>2. CASE \E a \in Attempt : ReceiveAnswer(a)
  BY <1>2, ReceiveAnswerKeeps
<1>3. CASE \E a \in Attempt : ChangeMutationLease(a)
  BY <1>3, ChangeMutationLeaseKeeps
<1>4. CASE Reopen
  BY <1>4, ReopenKeeps
<1>5. CASE Tick \/ UNCHANGED vars
  BY <1>5, StutterKeeps
<1>6. QED BY <1>1, <1>2, <1>3, <1>4, <1>5 DEF Next

\* The lease, its log and its calls keep their types.
THEOREM LeaseTypeCorrect == Spec => []TypeOK
<1>1. LeaseInv => TypeOK
  BY DEF LeaseInv
<1>2. QED BY LeaseInvInit, LeaseInvNext, <1>1, PTL DEF Spec

\* For any number of attempts, workspaces and sessions, any loss of calls and
\* answers in crashes, and any movement of the wall clock: whoever was told
\* Acquired and has not released is backed by the lease row.
THEOREM LeaseClaimsAreBacked == Spec => []ClaimsAreBacked
<1>1. LeaseInv => ClaimsAreBacked
  BY DEF LeaseInv
<1>2. QED BY LeaseInvInit, LeaseInvNext, <1>1, PTL DEF Spec

\* ... and so two attempts never change one workspace at the same time.
THEOREM LeaseExclusiveMutation == Spec => []ExclusiveMutation
<1>1. LeaseInv => ExclusiveMutation
  <2> SUFFICES ASSUME LeaseInv, NEW a \in Attempt, NEW b \in Attempt,
                      owned[a] > 0, owned[b] > 0, WorkspaceOf[a] = WorkspaceOf[b]
               PROVE  a = b
    BY DEF ExclusiveMutation
  <2>1. HoldsUnder(a, owned[a]) /\ HoldsUnder(b, owned[b])
    BY DEF LeaseInv, ClaimsAreBacked
  <2>2. QED BY <2>1 DEF HoldsUnder
<1>2. QED BY LeaseInvInit, LeaseInvNext, <1>1, PTL DEF Spec

-----------------------------------------------------------------------------
(* The index, as long as the clock is not set back.  The rebuild orders    *)
(* the facts of one epoch by their stamps, so the release of an epoch must *)
(* not be stamped before its acquisition.  It is not: both are stamped by  *)
(* the one attempt that has the epoch (EpochIsOneAttempts), which has one  *)
(* call outstanding, and stamps it after all its facts (CallsAreLatest),   *)
(* as no stamp is ahead of the clock (StampsArePast).                      *)

StampsArePast ==
  /\ \A i \in DOMAIN log : log[i].at <= clock
  /\ \A a \in Attempt : mail[a] # NoCall => mail[a].at <= clock

CallsAreLatest ==
  \A a \in Attempt : mail[a] # NoCall =>
    \A i \in DOMAIN log : log[i].attempt = a => log[i].at <= mail[a].at

EpochIsOneAttempts ==
  \A w \in Workspace : row[w] # NoRow =>
    \A i \in LeaseFacts(w) :
      log[i].epoch = row[w].epoch => log[i].attempt = row[w].attempt

HeldIsUnreleased ==
  \A w \in Workspace : row[w] # NoRow /\ row[w].state = "held" =>
    \A i \in LeaseFacts(w) :
      log[i].epoch = row[w].epoch => log[i].change = "acquired"

RowSurvives == \A w \in Workspace : RebuildsTo(w, row[w])

IndexInv ==
  /\ LeaseInv
  /\ StampsArePast
  /\ CallsAreLatest
  /\ EpochIsOneAttempts
  /\ HeldIsUnreleased
  /\ RowSurvives

LEMMA IndexInvInit == Init => IndexInv
<1> SUFFICES ASSUME Init PROVE IndexInv
  OBVIOUS
<1>1. DOMAIN log = {} /\ \A w : LeaseFacts(w) = {}
  BY DEF Init, LeaseFacts
<1>2. StampsArePast /\ CallsAreLatest
  BY <1>1 DEF Init, StampsArePast, CallsAreLatest
<1>3. EpochIsOneAttempts /\ HeldIsUnreleased /\ RowSurvives
  BY <1>1 DEF Init, EpochIsOneAttempts, HeldIsUnreleased, RowSurvives, RebuildsTo
<1>4. QED BY <1>2, <1>3, LeaseInvInit DEF IndexInv

\* What the invariant says of the index depends on log and row alone.
LEMMA IndexStays ==
  ASSUME IndexInv, UNCHANGED <<log, row>>
  PROVE  EpochIsOneAttempts' /\ HeldIsUnreleased' /\ RowSurvives'
<1>1. \A w : RebuildsTo(w, row[w])' <=> RebuildsTo(w, row[w])
  BY SameLogAndRow DEF IndexInv, LeaseInv
<1>2. \A w : LeaseFacts(w)' = LeaseFacts(w)
  BY SameLog
<1>3. QED
  BY <1>1, <1>2 DEF IndexInv, EpochIsOneAttempts, HeldIsUnreleased, RowSurvives

\* The stamps, in a step that adds no fact.
LEMMA NoFactKeepsStamps ==
  ASSUME IndexInv, UNCHANGED log, clock \in Nat, clock' \in Nat, clock <= clock',
         \A a \in Attempt : mail'[a] # NoCall =>
           mail'[a] = mail[a] \/ mail'[a].at = clock
  PROVE  StampsArePast' /\ CallsAreLatest'
<1>1. \A i \in DOMAIN log : log[i] \in Fact /\ log[i].at \in Nat
  <2>1. \A i \in DOMAIN log : log[i] \in Fact
    BY DEF IndexInv, LeaseInv, TypeOK
  <2>2. QED BY <2>1 DEF Fact
<1>2. \A a \in Attempt : mail[a] # NoCall => mail[a].at \in Nat
  <2>1. \A a \in Attempt : mail[a] # NoCall => mail[a] \in Call
    BY DEF IndexInv, LeaseInv, TypeOK
  <2>2. QED BY <2>1 DEF Call
<1>3. \A m, n, k \in Nat : m <= n /\ n <= k => m <= k
  OBVIOUS
<1>4. StampsArePast'
  BY <1>1, <1>2, <1>3 DEF IndexInv, StampsArePast
<1>5. CallsAreLatest'
  BY DEF IndexInv, StampsArePast, CallsAreLatest
<1>6. QED BY <1>4, <1>5

\* The stamps, in a transaction that adds the fact of a call.
LEMMA FactKeepsStamps ==
  ASSUME IndexInv, NEW a \in Attempt, mail[a] # NoCall, NEW f \in Fact,
         f.attempt = a, f.at = mail[a].at, log' = Append(log, f),
         UNCHANGED clock, mail' = [mail EXCEPT ![a] = NoCall]
  PROVE  StampsArePast' /\ CallsAreLatest'
<1>1. /\ DOMAIN log' = DOMAIN log \cup {Len(log) + 1}
      /\ \A i \in DOMAIN log : log'[i] = log[i]
      /\ log'[Len(log) + 1] = f
  BY AppendedLog DEF IndexInv, LeaseInv
<1>2. mail'[a] = NoCall /\ \A b \in Attempt \ {a} : mail'[b] = mail[b]
  BY DEF IndexInv, LeaseInv, TypeOK
<1>3. StampsArePast'
  BY <1>1, <1>2 DEF IndexInv, StampsArePast
<1>4. CallsAreLatest'
  BY <1>1, <1>2 DEF IndexInv, CallsAreLatest
<1>5. QED BY <1>3, <1>4

\* A fact that the rebuild does not read for w leaves the index of w as it is.
LEMMA OtherIndexStays ==
  ASSUME IndexInv, NEW f \in Fact, log' = Append(log, f), NEW w \in Workspace,
         f.change = "blocked" \/ WorkspaceOf[f.attempt] # w, row'[w] = row[w]
  PROVE  /\ row'[w] # NoRow => \A i \in LeaseFacts(w)' :
              log'[i].epoch = row'[w].epoch => log'[i].attempt = row'[w].attempt
         /\ row'[w] # NoRow /\ row'[w].state = "held" => \A i \in LeaseFacts(w)' :
              log'[i].epoch = row'[w].epoch => log'[i].change = "acquired"
         /\ RebuildsTo(w, row[w])'
<1>1. /\ LeaseFacts(w)' = LeaseFacts(w)
      /\ \A i \in LeaseFacts(w) : log'[i] = log[i]
      /\ \A i \in LeaseFacts(w) : Latest(i, w)' <=> Latest(i, w)
  BY OtherFactsStay DEF IndexInv, LeaseInv
<1>2. RebuildsTo(w, row[w])'
  <2>1. RebuildsTo(w, row[w])
    BY DEF IndexInv, RowSurvives
  <2>2. QED BY <1>1, <2>1 DEF RebuildsTo, RowOf
<1>3. QED
  BY <1>1, <1>2 DEF IndexInv, EpochIsOneAttempts, HeldIsUnreleased

\* A release wins the rebuild against the acquisition of its epoch.
LEMMA ReleaseWins ==
  ASSUME IndexInv, NEW a \in Attempt, NEW w \in Workspace, w = WorkspaceOf[a],
         mail[a] # NoCall, row[w] # NoRow, row[w].attempt = a,
         NEW f \in Fact, f.attempt = a, f.change = "released",
         f.epoch = row[w].epoch, f.at = mail[a].at, log' = Append(log, f),
         NEW n, n = Len(log) + 1
  PROVE  Latest(n, w)'
<1>1. /\ LeaseFacts(w)' = LeaseFacts(w) \cup {n}
      /\ \A i \in LeaseFacts(w) : log'[i] = log[i]
      /\ log'[n] = f
  BY OwnFactArrives DEF IndexInv, LeaseInv
<1>2. f.epoch \in Nat /\ f.at \in Nat /\ SessionOf[a] \in Nat
  BY LeaseAssumption DEF Fact
<1>3. ASSUME NEW i \in LeaseFacts(w)
      PROVE  Superseded(i, n)'
  <2>1. i \in DOMAIN log /\ log[i] \in Fact /\ i \in Nat /\ i < n
    BY DEF LeaseFacts, IndexInv, LeaseInv, TypeOK
  <2>2. log[i].epoch \in Nat /\ log[i].at \in Nat
    BY <2>1 DEF Fact
  <2>3. log[i].epoch <= f.epoch
    BY DEF IndexInv, LeaseInv, RowCoversLog
  <2>4. CASE log[i].epoch < f.epoch
    BY <1>1, <2>4 DEF Superseded
  <2>5. CASE log[i].epoch = f.epoch
    <3>1. log[i].attempt = a
      BY <2>5 DEF IndexInv, EpochIsOneAttempts
    <3>2. log[i].at <= f.at
      BY <2>1, <3>1 DEF IndexInv, CallsAreLatest
    <3>3. log[i].at < f.at \/ log[i].at = f.at
      BY <1>2, <2>2, <3>2
    <3>4. ReadBefore(i, n)'
      BY <1>1, <2>1, <3>1, <3>3 DEF ReadBefore
    <3>5. QED BY <1>1, <2>5, <3>4 DEF Superseded
  <2>6. QED BY <1>2, <2>2, <2>3, <2>4, <2>5
<1>4. QED BY <1>1, <1>3 DEF Latest

LEMMA AcquireFreeKeepsIndex ==
  ASSUME IndexInv, LeaseInv', NEW a \in Attempt, AcquireFree(a, WorkspaceOf[a])
  PROVE  IndexInv'
<1> DEFINE w == WorkspaceOf[a]
           e == Epoch(w) + 1
           f == FactOf(a, "acquired", e)
<1>1. w \in Workspace /\ mail[a] \in Call /\ mail[a] # NoCall
  BY LeaseAssumption DEF AcquireFree, Asks, IndexInv, LeaseInv, TypeOK
<1>2. /\ e \in Nat /\ e > 0 /\ f \in Fact /\ f.epoch = e
      /\ f.change = "acquired" /\ f.attempt = a /\ f.at = mail[a].at
  <2>1. Epoch(w) \in Nat
    BY <1>1 DEF IndexInv, LeaseInv, TypeOK, Row, Epoch
  <2>2. QED BY <1>1, <2>1 DEF FactOf, Fact, Change, Call
<1>3. (\A i \in LeaseFacts(w) : log[i].epoch < e) /\ Existing(f) = {}
  BY <1>1, <1>2, NoFactAheadOfRow DEF IndexInv
<1>4. /\ Serving(a, "Acquired", e)
      /\ log' = Append(log, f)
      /\ row' = [row EXCEPT ![w] = [attempt |-> a, epoch |-> e, state |-> "held"]]
  BY <1>3 DEF AcquireFree, ChangeRow, Refuse, Conflicts, Appended, StateOf
<1> HIDE DEF w, e, f
<1>5. StampsArePast' /\ CallsAreLatest'
  BY <1>1, <1>2, <1>4, FactKeepsStamps DEF Serving
<1>6. /\ row'[w] = [attempt |-> a, epoch |-> e, state |-> "held"]
      /\ \A v \in Workspace \ {w} : row'[v] = row[v]
  BY <1>1, <1>4 DEF IndexInv, LeaseInv, TypeOK
<1>7. PICK n : n = Len(log) + 1
  OBVIOUS
<1>8. WorkspaceOf[f.attempt] = w
  BY <1>2 DEF w
<1>9. /\ LeaseFacts(w)' = LeaseFacts(w) \cup {n}
      /\ \A i \in LeaseFacts(w) : log'[i] = log[i]
      /\ log'[n] = f
  BY <1>1, <1>2, <1>4, <1>7, <1>8, OwnFactArrives DEF IndexInv, LeaseInv
<1>10. Latest(n, w)'
  BY <1>1, <1>2, <1>3, <1>4, <1>7, <1>8, HigherEpochWins DEF IndexInv, LeaseInv
<1>11. \A i \in LeaseFacts(w) : log[i].epoch \in Nat /\ log'[i].epoch # e
  <2>1. \A i \in LeaseFacts(w) : log[i] \in Fact
    BY DEF IndexInv, LeaseInv, TypeOK, LeaseFacts
  <2>2. \A i \in LeaseFacts(w) : log[i].epoch \in Nat
    BY <2>1 DEF Fact
  <2>3. QED BY <1>2, <1>3, <1>9, <2>2
<1>12. /\ \A i \in LeaseFacts(w)' : log'[i].epoch = e => i = n
       /\ RebuildsTo(w, row[w])'
  <2>1. RowOf(n)' = row'[w]
    BY <1>2, <1>6, <1>9 DEF RowOf, StateOf
  <2>2. QED BY <1>9, <1>10, <1>11, <2>1 DEF RebuildsTo
<1>13. ASSUME NEW v \in Workspace \ {w}
       PROVE  /\ row'[v] # NoRow => \A i \in LeaseFacts(v)' :
                   log'[i].epoch = row'[v].epoch => log'[i].attempt = row'[v].attempt
              /\ row'[v] # NoRow /\ row'[v].state = "held" => \A i \in LeaseFacts(v)' :
                   log'[i].epoch = row'[v].epoch => log'[i].change = "acquired"
              /\ RebuildsTo(v, row[v])'
  BY <1>2, <1>4, <1>6, <1>8, OtherIndexStays
<1>14. row'[w].epoch = e /\ row'[w].attempt = a
  BY <1>6
<1>15. EpochIsOneAttempts'
  BY <1>2, <1>9, <1>12, <1>13, <1>14 DEF EpochIsOneAttempts
<1>16. HeldIsUnreleased'
  BY <1>2, <1>9, <1>12, <1>13, <1>14 DEF HeldIsUnreleased
<1>17. RowSurvives'
  BY <1>12, <1>13 DEF RowSurvives
<1>18. QED BY <1>5, <1>15, <1>16, <1>17 DEF IndexInv

LEMMA ReleaseHeldKeepsIndex ==
  ASSUME IndexInv, LeaseInv', NEW a \in Attempt, ReleaseHeld(a, WorkspaceOf[a])
  PROVE  IndexInv'
<1> DEFINE w == WorkspaceOf[a]
           e == row[w].epoch
           f == FactOf(a, "released", e)
<1>1. w \in Workspace /\ mail[a] \in Call /\ mail[a] # NoCall
  BY LeaseAssumption DEF ReleaseHeld, Asks, IndexInv, LeaseInv, TypeOK
<1>2. row[w] # NoRow /\ row[w].state = "held" /\ row[w].attempt = a
  BY DEF ReleaseHeld, HeldBy
<1>3. /\ e \in Nat /\ f \in Fact /\ f.epoch = e
      /\ f.change = "released" /\ f.attempt = a /\ f.at = mail[a].at
  <2>1. e \in Nat
    BY <1>1, <1>2 DEF IndexInv, LeaseInv, TypeOK, Row
  <2>2. QED BY <1>1, <2>1 DEF FactOf, Fact, Change, Call
<1>4. Existing(f) = {}
  <2>1. ASSUME NEW i \in Existing(f) PROVE FALSE
    <3>1. /\ i \in LeaseFacts(w) /\ log[i].epoch = row[w].epoch
          /\ log[i].change = "released"
      BY <1>3 DEF Existing, SameFactId, LeaseFacts
    <3>2. log[i].change = "acquired"
      BY <1>1, <1>2, <3>1 DEF IndexInv, HeldIsUnreleased
    <3>3. QED BY <3>1, <3>2
  <2>2. QED BY <2>1
<1>5. /\ Serving(a, "Released", e)
      /\ log' = Append(log, f)
      /\ row' = [row EXCEPT ![w] = [attempt |-> a, epoch |-> e, state |-> "released"]]
  BY <1>4 DEF ReleaseHeld, ChangeRow, Refuse, Conflicts, Appended, StateOf
<1> HIDE DEF w, f
<1>6. StampsArePast' /\ CallsAreLatest'
  BY <1>1, <1>3, <1>5, FactKeepsStamps DEF Serving
<1>7. /\ row'[w] = [attempt |-> a, epoch |-> e, state |-> "released"]
      /\ \A v \in Workspace \ {w} : row'[v] = row[v]
  BY <1>1, <1>5 DEF IndexInv, LeaseInv, TypeOK
<1>8. PICK n : n = Len(log) + 1
  OBVIOUS
<1>9. WorkspaceOf[f.attempt] = w
  BY <1>3 DEF w
<1>10. /\ LeaseFacts(w)' = LeaseFacts(w) \cup {n}
       /\ \A i \in LeaseFacts(w) : log'[i] = log[i]
       /\ log'[n] = f
  BY <1>1, <1>3, <1>5, <1>8, <1>9, OwnFactArrives DEF IndexInv, LeaseInv
<1>11. Latest(n, w)'
  <2>1. w = WorkspaceOf[a]
    BY DEF w
  <2>2. QED BY <1>1, <1>2, <1>3, <1>5, <1>8, <2>1, ReleaseWins
<1>12. RebuildsTo(w, row[w])'
  <2>1. RowOf(n)' = row'[w]
    BY <1>3, <1>7, <1>10 DEF RowOf, StateOf
  <2>2. QED BY <1>10, <1>11, <2>1 DEF RebuildsTo
<1>13. ASSUME NEW v \in Workspace \ {w}
       PROVE  /\ row'[v] # NoRow => \A i \in LeaseFacts(v)' :
                   log'[i].epoch = row'[v].epoch => log'[i].attempt = row'[v].attempt
              /\ row'[v] # NoRow /\ row'[v].state = "held" => \A i \in LeaseFacts(v)' :
                   log'[i].epoch = row'[v].epoch => log'[i].change = "acquired"
              /\ RebuildsTo(v, row[v])'
  BY <1>3, <1>5, <1>7, <1>9, OtherIndexStays
<1>14. row'[w].epoch = e /\ row'[w].attempt = a /\ row'[w].state = "released"
  BY <1>7
<1>15. EpochIsOneAttempts'
  <2>1. \A i \in LeaseFacts(w) : log[i].epoch = e => log[i].attempt = a
    BY <1>1, <1>2 DEF IndexInv, EpochIsOneAttempts
  <2>2. QED BY <1>3, <1>10, <1>13, <1>14, <2>1 DEF EpochIsOneAttempts
<1>16. HeldIsUnreleased'
  BY <1>13, <1>14 DEF HeldIsUnreleased
<1>17. RowSurvives'
  BY <1>12, <1>13 DEF RowSurvives
<1>18. QED BY <1>6, <1>15, <1>16, <1>17 DEF IndexInv

LEMMA ChangeKeepsIndex ==
  ASSUME IndexInv, LeaseInv', NEW a \in Attempt, ChangeMutationLease(a)
  PROVE  IndexInv'
<1> DEFINE w == WorkspaceOf[a]
<1>0. w \in Workspace /\ mail[a] \in Call \cup {NoCall} /\ clock \in Nat
  BY LeaseAssumption DEF IndexInv, LeaseInv, TypeOK, Time
<1>1. ASSUME NEW kind, NEW epoch, AnswerOnly(a, kind, epoch)
      PROVE  IndexInv'
  <2>1. UNCHANGED <<log, row, clock>> /\ \A b \in Attempt : mail'[b] # NoCall => mail'[b] = mail[b]
    BY <1>1 DEF AnswerOnly, Serving, IndexInv, LeaseInv, TypeOK
  <2>2. StampsArePast' /\ CallsAreLatest'
    BY <1>0, <2>1, NoFactKeepsStamps
  <2>3. QED BY <2>1, <2>2, IndexStays DEF IndexInv
<1>2. CASE AcquireAgain(a, w) \/ ReleaseAgain(a, w) \/ ReleaseOther(a, w)
  BY <1>1, <1>2 DEF AcquireAgain, ReleaseAgain, ReleaseOther
<1>3. CASE AcquireBusy(a, w)
  <2> DEFINE f == FactOf(a, "blocked", row[w].epoch)
  <2>1. mail[a] \in Call /\ mail[a] # NoCall /\ row[w].epoch \in Nat
    BY <1>0, <1>3 DEF AcquireBusy, Asks, HeldByOther, IndexInv, LeaseInv, TypeOK, Row
  <2>2. f \in Fact /\ f.change = "blocked" /\ f.attempt = a /\ f.at = mail[a].at
    BY <2>1 DEF FactOf, Fact, Change, Call
  <2>3. CASE Refuse(a, f)
    BY <1>1, <2>3 DEF Refuse
  <2>4. ASSUME Serving(a, "Busy", row[w].epoch), log' = log, UNCHANGED row
        PROVE  IndexInv'
    BY <1>1, <2>4 DEF AnswerOnly
  <2>5. ASSUME Serving(a, "Busy", row[w].epoch), log' = Append(log, f), UNCHANGED row
        PROVE  IndexInv'
    <3> HIDE DEF f
    <3>1. StampsArePast' /\ CallsAreLatest'
      BY <2>1, <2>2, <2>5, FactKeepsStamps DEF Serving
    <3>2. ASSUME NEW v \in Workspace
          PROVE  /\ row'[v] # NoRow => \A i \in LeaseFacts(v)' :
                      log'[i].epoch = row'[v].epoch => log'[i].attempt = row'[v].attempt
                 /\ row'[v] # NoRow /\ row'[v].state = "held" => \A i \in LeaseFacts(v)' :
                      log'[i].epoch = row'[v].epoch => log'[i].change = "acquired"
                 /\ RebuildsTo(v, row[v])'
      BY <2>2, <2>5, OtherIndexStays
    <3>3. EpochIsOneAttempts' /\ HeldIsUnreleased' /\ RowSurvives'
      BY <3>2 DEF EpochIsOneAttempts, HeldIsUnreleased, RowSurvives
    <3>4. QED BY <3>1, <3>3 DEF IndexInv
  <2>6. QED BY <1>3, <2>3, <2>4, <2>5 DEF AcquireBusy, Appended
<1>4. CASE AcquireFree(a, w)
  BY <1>4, AcquireFreeKeepsIndex
<1>5. CASE ReleaseHeld(a, w)
  BY <1>5, ReleaseHeldKeepsIndex
<1>6. QED BY <1>2, <1>3, <1>4, <1>5 DEF ChangeMutationLease

\* The row of a workspace is what the rebuild makes of its facts.
LEMMA RowIsRebuilt ==
  ASSUME IndexInv
  PROVE  IndexMatchesFacts
<1> SUFFICES ASSUME NEW w \in Workspace PROVE row[w] = Rebuilt(w)
  BY DEF IndexMatchesFacts
<1>1. RebuildsTo(w, row[w])
  BY DEF IndexInv, RowSurvives
<1>2. QED BY <1>1, RebuiltIs DEF IndexInv, LeaseInv

\* A restart leaves the table as it was.
LEMMA ReopenShowsNothing ==
  ASSUME IndexInv, Reopen
  PROVE  row' = row
<1>1. row' = [w \in Workspace |-> row[w]]
  BY RowIsRebuilt DEF Reopen, IndexMatchesFacts
<1>2. QED BY <1>1 DEF IndexInv, LeaseInv, TypeOK

LEMMA IndexInvNext ==
  ASSUME ~ClockStepsBack, IndexInv, [Next]_vars
  PROVE  IndexInv'
<1>0. LeaseInv' /\ clock \in Nat /\ clock' \in Nat
  <2>1. LeaseInv'
    BY LeaseInvNext DEF IndexInv
  <2>2. QED BY <2>1, LeaseAssumption DEF IndexInv, LeaseInv, TypeOK, Time
<1>1. ASSUME UNCHANGED <<log, row>>, clock <= clock',
             \A a \in Attempt : mail'[a] # NoCall => mail'[a] = mail[a] \/ mail'[a].at = clock
      PROVE  IndexInv'
  BY <1>0, <1>1, NoFactKeepsStamps, IndexStays DEF IndexInv
<1>2. ASSUME NEW a \in Attempt, NEW action \in {"Acquire", "Release"}, SendCall(a, action)
      PROVE  IndexInv'
  <2>1. \A b \in Attempt : mail'[b] = mail[b] \/ mail'[b].at = clock
    BY <1>2 DEF SendCall, IndexInv, LeaseInv, TypeOK
  <2>2. UNCHANGED <<log, row, clock>>
    BY <1>2 DEF SendCall
  <2>3. QED BY <1>0, <1>1, <2>1, <2>2
<1>3. ASSUME NEW a \in Attempt, ReceiveAnswer(a)
      PROVE  IndexInv'
  BY <1>0, <1>1, <1>3 DEF ReceiveAnswer
<1>4. ASSUME NEW a \in Attempt, ChangeMutationLease(a)
      PROVE  IndexInv'
  BY <1>0, <1>4, ChangeKeepsIndex
<1>5. CASE Reopen
  <2>1. UNCHANGED <<log, row, clock>> /\ \A a \in Attempt : mail'[a] = NoCall
    BY <1>5, ReopenShowsNothing DEF Reopen
  <2>2. QED BY <1>0, <1>1, <2>1
<1>6. CASE Tick
  <2>1. UNCHANGED <<log, row, mail>> /\ clock' = clock + 1
    BY <1>6 DEF Tick
  <2>2. QED BY <1>0, <1>1, <2>1
<1>7. CASE UNCHANGED vars
  BY <1>0, <1>1, <1>7 DEF vars
<1>8. QED BY <1>2, <1>3, <1>4, <1>5, <1>6, <1>7 DEF Next

\* While the clock is not set back, a restart rebuilds the index that it found.
THEOREM LeaseIndexMatches ==
  ASSUME ~ClockStepsBack
  PROVE  Spec => []IndexMatchesFacts
<1>1. IndexInv => IndexMatchesFacts
  BY RowIsRebuilt
<1>2. IndexInv /\ [Next]_vars => IndexInv'
  BY IndexInvNext
<1>3. QED BY IndexInvInit, <1>1, <1>2, PTL DEF Spec

-----------------------------------------------------------------------------
(* The lease implements the lock.                                          *)

Holder == [w \in Workspace |-> IF row[w] # NoRow /\ row[w].state = "held"
                               THEN row[w].attempt ELSE Nobody]
Number == [w \in Workspace |-> Epoch(w)]

LEMMA LockInit == Init => Lock!Init
BY DEF Init, Lock!Init, Epoch

\* A step that leaves the table alone shows at most in owned.
LEMMA LockStays ==
  ASSUME UNCHANGED row
  PROVE  Holder' = Holder /\ Number' = Number
BY DEF Holder, Number, Epoch

\* A new row of one workspace.
LEMMA LockMoves ==
  ASSUME TypeOK, NEW w \in Workspace, NEW r \in Row, row' = [row EXCEPT ![w] = r]
  PROVE  /\ Number' = [Number EXCEPT ![w] = r.epoch]
         /\ Holder' = [Holder EXCEPT ![w] = IF r.state = "held" THEN r.attempt ELSE Nobody]
<1>1. row'[w] = r /\ \A v \in Workspace \ {w} : row'[v] = row[v]
  BY DEF TypeOK
<1>2. r # NoRow
  BY DEF Row, NoRow
<1>3. Epoch(w)' = r.epoch /\ \A v \in Workspace \ {w} : Epoch(v)' = Epoch(v)
  BY <1>1, <1>2 DEF Epoch
<1>4. Number' = [Number EXCEPT ![w] = r.epoch]
  BY <1>3 DEF Number
<1>5. Holder' = [Holder EXCEPT ![w] = IF r.state = "held" THEN r.attempt ELSE Nobody]
  <2>1. Holder'[w] = IF r.state = "held" THEN r.attempt ELSE Nobody
    BY <1>1, <1>2 DEF Holder
  <2>2. \A v \in Workspace \ {w} : Holder'[v] = Holder[v]
    BY <1>1 DEF Holder
  <2>3. /\ Holder = [v \in Workspace |-> Holder[v]]
        /\ Holder' = [v \in Workspace |-> Holder'[v]]
    BY DEF Holder
  <2>4. QED BY <2>1, <2>2, <2>3
<1>6. QED BY <1>4, <1>5

LEMMA LockSendCall ==
  ASSUME LeaseInv, NEW a \in Attempt, NEW action \in {"Acquire", "Release"},
         SendCall(a, action)
  PROVE  [Lock!Next]_(Lock!lockVars)
<1>1. Holder' = Holder /\ Number' = Number
  BY LockStays DEF SendCall
<1>2. CASE action = "Release"
  <2>1. owned' = [owned EXCEPT ![a] = 0]
    BY <1>2 DEF SendCall
  <2>2. Lock!Stop(a)
    BY <1>1, <2>1 DEF Lock!Stop, Holder, Number
  <2>3. QED BY <2>2 DEF Lock!Next
<1>3. CASE action = "Acquire"
  <2>1. owned' = owned
    BY <1>3 DEF SendCall, LeaseInv, TypeOK
  <2>2. QED BY <1>1, <2>1 DEF Lock!lockVars, Holder, Number
<1>4. QED BY <1>2, <1>3

LEMMA LockReceiveAnswer ==
  ASSUME LeaseInv, NEW a \in Attempt, ReceiveAnswer(a)
  PROVE  [Lock!Next]_(Lock!lockVars)
<1> DEFINE w == WorkspaceOf[a]
<1>1. Holder' = Holder /\ Number' = Number /\ w \in Workspace
  BY LockStays, LeaseAssumption DEF ReceiveAnswer
<1>2. CASE reply[a].kind = "Acquired"
  <2>1. row[w] = [attempt |-> a, epoch |-> reply[a].epoch, state |-> "held"]
    BY <1>2 DEF ReceiveAnswer, LeaseInv, ClaimsAreBacked, HoldsUnder
  <2>2. row[w] # NoRow /\ row[w].state = "held" /\ row[w].attempt = a /\ row[w].epoch = reply[a].epoch
    BY <2>1 DEF NoRow
  <2>3. Holder[w] = a /\ Number[w] = reply[a].epoch
    BY <1>1, <2>2 DEF Holder, Number, Epoch
  <2>4. owned' = [owned EXCEPT ![a] = Number[w]]
    BY <1>2, <2>3 DEF ReceiveAnswer
  <2>5. Lock!Work(a)
    BY <1>1, <2>3, <2>4 DEF Lock!Work, Holder, Number
  <2>6. QED BY <2>5 DEF Lock!Next
<1>3. CASE reply[a].kind # "Acquired"
  <2>1. owned' = owned
    BY <1>3 DEF ReceiveAnswer, LeaseInv, TypeOK
  <2>2. QED BY <1>1, <2>1 DEF Lock!lockVars, Holder, Number
<1>4. QED BY <1>2, <1>3

LEMMA LockSameTable ==
  ASSUME UNCHANGED <<row, owned>>
  PROVE  [Lock!Next]_(Lock!lockVars)
<1>1. Holder' = Holder /\ Number' = Number
  BY LockStays
<1>2. QED BY <1>1 DEF Lock!lockVars, Holder, Number

LEMMA LockAcquireFree ==
  ASSUME LeaseInv, NEW a \in Attempt, NEW w \in Workspace, w = WorkspaceOf[a],
         AcquireFree(a, w)
  PROVE  [Lock!Next]_(Lock!lockVars)
<1> DEFINE r == [attempt |-> a, epoch |-> Epoch(w) + 1, state |-> "held"]
<1>1. CASE UNCHANGED row
  <2>1. UNCHANGED owned
    BY DEF AcquireFree, ChangeRow, Refuse, AnswerOnly, Serving
  <2>2. QED BY <1>1, <2>1, LockSameTable
<1>2. CASE row' = [row EXCEPT ![w] = r] /\ UNCHANGED owned
  <2>1. r \in Row /\ r.state = "held" /\ r.attempt = a /\ r.epoch = Epoch(w) + 1
    <3>1. Epoch(w) \in Nat
      BY DEF LeaseInv, TypeOK, Row, Epoch
    <3>2. QED BY <3>1 DEF Row
  <2> HIDE DEF r
  <2>2. /\ Number' = [Number EXCEPT ![w] = r.epoch]
        /\ Holder' = [Holder EXCEPT ![w] = IF r.state = "held" THEN r.attempt ELSE Nobody]
    BY <1>2, <2>1, LockMoves DEF LeaseInv
  <2>3. Holder[w] = Nobody /\ Number[w] = Epoch(w)
    BY DEF AcquireFree, Free, Holder, Number
  <2>4. Number' = [Number EXCEPT ![w] = @ + 1]
    BY <2>1, <2>2, <2>3
  <2>5. Holder' = [Holder EXCEPT ![w] = a]
    BY <2>1, <2>2
  <2>6. Lock!Grant(a)
    BY <1>2, <2>3, <2>4, <2>5 DEF Lock!Grant, Holder, Number
  <2>7. QED BY <2>6 DEF Lock!Next
<1>3. QED
  BY <1>1, <1>2 DEF AcquireFree, ChangeRow, Refuse, AnswerOnly, Serving, StateOf

LEMMA LockReleaseHeld ==
  ASSUME LeaseInv, NEW a \in Attempt, NEW w \in Workspace, w = WorkspaceOf[a],
         ReleaseHeld(a, w)
  PROVE  [Lock!Next]_(Lock!lockVars)
<1> DEFINE r == [attempt |-> a, epoch |-> row[w].epoch, state |-> "released"]
<1>1. CASE UNCHANGED row
  <2>1. UNCHANGED owned
    BY DEF ReleaseHeld, ChangeRow, Refuse, AnswerOnly, Serving
  <2>2. QED BY <1>1, <2>1, LockSameTable
<1>2. CASE row' = [row EXCEPT ![w] = r] /\ UNCHANGED owned
  <2>1. row[w] # NoRow /\ row[w].state = "held" /\ row[w].attempt = a
    BY DEF ReleaseHeld, HeldBy
  <2>2. r \in Row /\ r.state = "released" /\ r.epoch = row[w].epoch
    <3>1. row[w].epoch \in Nat
      BY <2>1 DEF LeaseInv, TypeOK, Row
    <3>2. QED BY <3>1 DEF Row
  <2> HIDE DEF r
  <2>3. /\ Number' = [Number EXCEPT ![w] = r.epoch]
        /\ Holder' = [Holder EXCEPT ![w] = IF r.state = "held" THEN r.attempt ELSE Nobody]
    BY <1>2, <2>2, LockMoves DEF LeaseInv
  <2>4. Holder[w] = a /\ Number[w] = row[w].epoch
    BY <2>1 DEF Holder, Number, Epoch
  <2>5. Number' = Number
    BY <2>2, <2>3, <2>4 DEF Number
  <2>6. Holder' = [Holder EXCEPT ![w] = Nobody]
    BY <2>2, <2>3
  <2>7. owned[a] = 0
    BY DEF ReleaseHeld, Asks, LeaseInv, CallsAreSequential
  <2>8. Lock!GiveBack(a)
    BY <1>2, <2>4, <2>5, <2>6, <2>7 DEF Lock!GiveBack, Holder, Number
  <2>9. QED BY <2>8 DEF Lock!Next
<1>3. QED
  BY <1>1, <1>2 DEF ReleaseHeld, ChangeRow, Refuse, AnswerOnly, Serving, StateOf

LEMMA LockNext ==
  ASSUME IndexInv, [Next]_vars
  PROVE  [Lock!Next]_(Lock!lockVars)
<1>1. ASSUME NEW a \in Attempt, NEW action \in {"Acquire", "Release"}, SendCall(a, action)
      PROVE  [Lock!Next]_(Lock!lockVars)
  BY <1>1, LockSendCall DEF IndexInv
<1>2. ASSUME NEW a \in Attempt, ReceiveAnswer(a)
      PROVE  [Lock!Next]_(Lock!lockVars)
  BY <1>2, LockReceiveAnswer DEF IndexInv
<1>3. ASSUME NEW a \in Attempt, ChangeMutationLease(a)
      PROVE  [Lock!Next]_(Lock!lockVars)
  <2> DEFINE w == WorkspaceOf[a]
  <2>1. w \in Workspace
    BY LeaseAssumption
  <2>2. CASE AcquireFree(a, w)
    BY <2>1, <2>2, LockAcquireFree DEF IndexInv
  <2>3. CASE ReleaseHeld(a, w)
    BY <2>1, <2>3, LockReleaseHeld DEF IndexInv
  <2>4. CASE AcquireAgain(a, w) \/ AcquireBusy(a, w) \/ ReleaseAgain(a, w) \/ ReleaseOther(a, w)
    <3>1. UNCHANGED <<row, owned>>
      BY <2>4 DEF AcquireAgain, AcquireBusy, ReleaseAgain, ReleaseOther, Refuse, AnswerOnly, Serving
    <3>2. QED BY <3>1, LockSameTable
  <2>5. QED BY <1>3, <2>2, <2>3, <2>4 DEF ChangeMutationLease
<1>4. CASE Reopen
  <2>1. UNCHANGED <<row, owned>>
    BY <1>4, ReopenShowsNothing DEF Reopen
  <2>2. QED BY <2>1, LockSameTable
<1>5. CASE Tick \/ UNCHANGED vars
  <2>1. UNCHANGED <<row, owned>>
    BY <1>5 DEF Tick, vars
  <2>2. QED BY <2>1, LockSameTable
<1>6. QED BY <1>1, <1>2, <1>3, <1>4, <1>5 DEF Next

\* While the clock is not set back, the lease is a lock with fencing numbers:
\* neither lost answers nor restarts show in it.
THEOREM LeaseImplementsLock ==
  ASSUME ~ClockStepsBack
  PROVE  Spec => ImplementsLock
<1>1. IndexInv /\ [Next]_vars => IndexInv'
  BY IndexInvNext
<1>2. IndexInv /\ [Next]_vars => [Lock!Next]_(Lock!lockVars)
  BY LockNext
<1>3. QED
  BY IndexInvInit, <1>1, <1>2, LockInit, PTL DEF Spec, ImplementsLock, Lock!LockSpec

=============================================================================
