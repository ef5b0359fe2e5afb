---------------------------- MODULE MutationLease ----------------------------
(***************************************************************************)
(* The workspace mutation lease of src-tauri/src/shared_event_log/writer.rs:*)
(* the table squad_workspace_mutation_lease says which squad attempt may   *)
(* change a workspace, and every change of it appends one                  *)
(* squad.mutationLeaseChanged fact to the canonical event log in the same  *)
(* SQLite transaction.  The table is an index: opening the store deletes   *)
(* it and rebuilds it from the facts.                                      *)
(*                                                                         *)
(* Simplifications.                                                        *)
(*  - An attempt stands for the triple run/node/attempt of a request; the  *)
(*    session and the workspace it works in are constants of the attempt,  *)
(*    as a run seals both.                                                 *)
(*  - A fact's session-local sequence is its place in the whole log: the   *)
(*    two orders agree inside one session, and only there does the code    *)
(*    compare sequences.                                                   *)
(*  - acquired_at and updated_at of the row are left out: nothing reads    *)
(*    them back.                                                           *)
(***************************************************************************)
EXTENDS Naturals, Sequences, FiniteSets

CONSTANTS
  Attempt,          \* run/node/attempt triples that may ask for the lease
  Workspace,        \* canonical absolute workspace roots
  WorkspaceOf,      \* the root each attempt's run is sealed to
  SessionOf,        \* the session of each attempt (its order breaks ties)
  ClockStepsBack,   \* may the wall clock that stamps requests be set back?
  MaxTime,          \* bound: the last reading of the clock
  MaxLog            \* bound: facts in the log and calls that may add one

ASSUME LeaseAssumption ==
  /\ WorkspaceOf \in [Attempt -> Workspace]
  /\ SessionOf \in [Attempt -> Nat]
  /\ ClockStepsBack \in BOOLEAN
  /\ MaxTime \in Nat
  /\ MaxLog \in Nat

VARIABLES
  clock,   \* wall clock read by the callers for occurred_at
  log,     \* the squad.mutationLeaseChanged facts, in commit order
  row,     \* the lease table: one row or NoRow per workspace
  mail,    \* per caller, the call on its way to the writer actor
  reply,   \* the answer travelling back to each caller
  owned    \* the epoch under which an attempt changes its workspace, 0: none

vars == <<clock, log, row, mail, reply, owned>>

Time    == 0 .. MaxTime
Change  == {"acquired", "released", "blocked"}
Fact    == [attempt : Attempt, epoch : Nat, change : Change, at : Nat]
Call    == [action : {"Acquire", "Release"}, at : Nat]
NoCall  == [action |-> "none"]
Row     == [attempt : Attempt, epoch : Nat, state : {"held", "released"}]
NoRow   == [state |-> "absent"]
Answer  == [kind : {"Acquired", "Released", "Busy", "IdempotencyConflict"},
            epoch : Nat]
NoReply == [kind |-> "none"]

TypeOK ==
  /\ clock \in Time
  /\ log \in Seq(Fact)
  /\ row \in [Workspace -> Row \cup {NoRow}]
  /\ mail \in [Attempt -> Call \cup {NoCall}]
  /\ reply \in [Attempt -> Answer \cup {NoReply}]
  /\ owned \in [Attempt -> Nat]

Init ==
  /\ clock = 0
  /\ log = <<>>
  /\ row = [w \in Workspace |-> NoRow]
  /\ mail = [a \in Attempt |-> NoCall]
  /\ reply = [a \in Attempt |-> NoReply]
  /\ owned = [a \in Attempt |-> 0]

-----------------------------------------------------------------------------
(* Rebuilding the index (rebuild_mutation_lease_index).  The code folds    *)
(* the facts in the order committed_at, session_id, sequence, skips the    *)
(* blocked ones and those of an epoch below the one it has, and otherwise  *)
(* overwrites: what remains is the last fact of the highest epoch.         *)

LeaseFacts(w) ==
  {i \in DOMAIN log : /\ WorkspaceOf[log[i].attempt] = w
                      /\ log[i].change # "blocked"}

\* Fact i comes before fact j in the ORDER BY of the rebuild.
ReadBefore(i, j) ==
  \/ log[i].at < log[j].at
  \/ /\ log[i].at = log[j].at
     /\ SessionOf[log[i].attempt] < SessionOf[log[j].attempt]
  \/ /\ log[i].at = log[j].at
     /\ SessionOf[log[i].attempt] = SessionOf[log[j].attempt]
     /\ i < j

\* Mutant: the fold does not look at the epochs.
OlderInTime(i, j) == ReadBefore(i, j)

\* Fact i gives way to fact j in the fold.
Superseded(i, j) ==
  \/ log[i].epoch < log[j].epoch
  \/ log[i].epoch = log[j].epoch /\ ReadBefore(i, j)

Latest(i, w) ==
  /\ i \in LeaseFacts(w)
  /\ \A j \in LeaseFacts(w) \ {i} : Superseded(j, i)

\* Mutant: the change is written as the state.
StateAsChange(change) == change

StateOf(change) == IF change = "acquired" THEN "held" ELSE "released"

Rebuilt(w) ==
  IF LeaseFacts(w) = {} THEN NoRow
  ELSE LET i == CHOOSE i \in LeaseFacts(w) : Latest(i, w)
       IN [attempt |-> log[i].attempt, epoch |-> log[i].epoch,
           state |-> StateOf(log[i].change)]

-----------------------------------------------------------------------------
(* Appending a fact inside the transaction.  The fact id names run, node,  *)
(* attempt, change and epoch, not the time; an existing fact with that id  *)
(* must carry the same payload, time included, or the append fails and the *)
(* whole transaction rolls back.                                           *)

SameFactId(f, g) ==
  f.attempt = g.attempt /\ f.change = g.change /\ f.epoch = g.epoch

Existing(f) == {i \in DOMAIN log : SameFactId(log[i], f)}

Conflicts(f) == \E i \in Existing(f) : log[i] # f

\* The log after f is accepted: unchanged when f is a replay.
Appended(f) == IF Existing(f) = {} THEN Append(log, f) ELSE log

-----------------------------------------------------------------------------
(* The callers: one attempt has one call outstanding.  A call is stamped   *)
(* when it is built and reaches the actor's mailbox some time later, so    *)
(* calls of different attempts are served in any order.                    *)

Idle(a) == mail[a] = NoCall /\ reply[a] = NoReply

Outstanding == {a \in Attempt : mail[a] # NoCall}

\* Stamp a request and send it.  An attempt that releases has stopped
\* changing the workspace.
SendCall(a, action) ==
  /\ Idle(a)
  /\ Len(log) + Cardinality(Outstanding) < MaxLog
  /\ mail' = [mail EXCEPT ![a] = [action |-> action, at |-> clock]]
  /\ owned' = [owned EXCEPT ![a] = IF action = "Release" THEN 0 ELSE @]
  /\ UNCHANGED <<clock, log, row, reply>>

\* recv: an attempt told Acquired starts to change the workspace.
ReceiveAnswer(a) ==
  /\ reply[a] # NoReply
  /\ reply' = [reply EXCEPT ![a] = NoReply]
  /\ owned' = [owned EXCEPT ![a] =
                 IF reply[a].kind = "Acquired" THEN reply[a].epoch ELSE @]
  /\ UNCHANGED <<clock, log, row, mail>>

-----------------------------------------------------------------------------
(* The writer (change_mutation_lease), one transaction per call.           *)

HeldBy(w, a) == row[w] # NoRow /\ row[w].state = "held" /\ row[w].attempt = a

HeldByOther(w, a) ==
  row[w] # NoRow /\ row[w].state = "held" /\ row[w].attempt # a

Free(w) == row[w] = NoRow \/ row[w].state = "released"

Epoch(w) == IF row[w] = NoRow THEN 0 ELSE row[w].epoch

Asks(a, action) == mail[a] # NoCall /\ mail[a].action = action

\* Take the call of a and answer it.
Serving(a, kind, epoch) ==
  /\ mail' = [mail EXCEPT ![a] = NoCall]
  /\ reply' = [reply EXCEPT ![a] = [kind |-> kind, epoch |-> epoch]]
  /\ UNCHANGED <<clock, owned>>

\* The early returns that write nothing.
AnswerOnly(a, kind, epoch) ==
  /\ Serving(a, kind, epoch)
  /\ UNCHANGED <<log, row>>

\* An append that meets its own id with another payload fails the call.
Refuse(a, f) ==
  /\ Conflicts(f)
  /\ AnswerOnly(a, "IdempotencyConflict", f.epoch)

FactOf(a, change, epoch) ==
  [attempt |-> a, epoch |-> epoch, change |-> change, at |-> mail[a].at]

\* The holder asks again: the same epoch, no fact.
AcquireAgain(a, w) ==
  /\ Asks(a, "Acquire")
  /\ HeldBy(w, a)
  /\ AnswerOnly(a, "Acquired", row[w].epoch)

\* Another attempt holds the lease: an audit fact, and Busy.
AcquireBusy(a, w) ==
  LET f == FactOf(a, "blocked", row[w].epoch) IN
  /\ Asks(a, "Acquire")
  /\ HeldByOther(w, a)
  /\ \/ Refuse(a, f)
     \/ /\ ~Conflicts(f)
        /\ Serving(a, "Busy", row[w].epoch)
        /\ log' = Appended(f)
        /\ UNCHANGED row

\* Write the row and its fact together.
ChangeRow(a, w, change, kind, epoch) ==
  LET f == FactOf(a, change, epoch) IN
  \/ Refuse(a, f)
  \/ /\ ~Conflicts(f)
     /\ Serving(a, kind, epoch)
     /\ log' = Appended(f)
     /\ row' = [row EXCEPT ![w] = [attempt |-> a, epoch |-> epoch,
                                   state |-> StateOf(change)]]

\* Mutants: the state of the row is not looked at; the epoch of the row that
\* was released is used again.
AcquireAnyway(a, w) ==
  /\ Asks(a, "Acquire")
  /\ ChangeRow(a, w, "acquired", "Acquired", Epoch(w) + 1)

AcquireSameEpoch(a, w) ==
  /\ Asks(a, "Acquire")
  /\ Free(w)
  /\ ChangeRow(a, w, "acquired", "Acquired",
               IF row[w] = NoRow THEN 1 ELSE row[w].epoch)

\* Nobody holds the lease: the next epoch goes to the caller.
AcquireFree(a, w) ==
  /\ Asks(a, "Acquire")
  /\ Free(w)
  /\ ChangeRow(a, w, "acquired", "Acquired", Epoch(w) + 1)

\* Release with no row, or of a lease that is already released.
ReleaseAgain(a, w) ==
  /\ Asks(a, "Release")
  /\ Free(w)
  /\ AnswerOnly(a, "Released", Epoch(w))

\* Mutant: anyone may release.
ReleaseForOther(a, w) ==
  /\ Asks(a, "Release")
  /\ HeldByOther(w, a)
  /\ ChangeRow(a, w, "released", "Released", row[w].epoch)

\* Release by an attempt that is not the holder.
ReleaseOther(a, w) ==
  /\ Asks(a, "Release")
  /\ HeldByOther(w, a)
  /\ AnswerOnly(a, "Busy", row[w].epoch)

\* Release by the holder: same epoch.
ReleaseHeld(a, w) ==
  /\ Asks(a, "Release")
  /\ HeldBy(w, a)
  /\ ChangeRow(a, w, "released", "Released", row[w].epoch)

ChangeMutationLease(a) ==
  LET w == WorkspaceOf[a] IN
  \/ AcquireAgain(a, w)
  \/ AcquireBusy(a, w)
  \/ AcquireFree(a, w)
  \/ ReleaseAgain(a, w)
  \/ ReleaseOther(a, w)
  \/ ReleaseHeld(a, w)

-----------------------------------------------------------------------------
(* The process dies between two transactions (a transaction is all or      *)
(* nothing) and opens the store again.  Calls and answers in flight are    *)
(* lost; the external worker of an attempt that was told Acquired may go   *)
(* on changing the workspace, so owned survives.                           *)
Reopen ==
  /\ row' = [w \in Workspace |-> Rebuilt(w)]
  /\ mail' = [a \in Attempt |-> NoCall]
  /\ reply' = [a \in Attempt |-> NoReply]
  /\ UNCHANGED <<clock, log, owned>>

\* The wall clock moves on, or is set back.
Tick ==
  /\ \/ clock < MaxTime /\ clock' = clock + 1
     \/ ClockStepsBack /\ clock > 0 /\ clock' = clock - 1
  /\ UNCHANGED <<log, row, mail, reply, owned>>

Next ==
  \/ \E a \in Attempt, action \in {"Acquire", "Release"} : SendCall(a, action)
  \/ \E a \in Attempt : ReceiveAnswer(a)
  \/ \E a \in Attempt : ChangeMutationLease(a)
  \/ Reopen
  \/ Tick

Spec == Init /\ [][Next]_vars

-----------------------------------------------------------------------------
(* Properties.                                                             *)

\* At most one attempt changes a workspace at a time, whatever is lost in
\* crashes and however the clock moves ("exactly one acquire transaction
\* succeeds", spec of the squad recovery change).
ExclusiveMutation ==
  \A a, b \in Attempt :
    /\ owned[a] > 0
    /\ owned[b] > 0
    /\ WorkspaceOf[a] = WorkspaceOf[b]
    => a = b

HoldsUnder(a, e) ==
  row[WorkspaceOf[a]] = [attempt |-> a, epoch |-> e, state |-> "held"]

\* An attempt that changes a workspace, or is about to be told that it may,
\* has the lease row, under the epoch it was given.
ClaimsAreBacked ==
  \A a \in Attempt :
    /\ owned[a] > 0 => HoldsUnder(a, owned[a])
    /\ reply[a] # NoReply /\ reply[a].kind = "Acquired"
         => HoldsUnder(a, reply[a].epoch)

\* The index is what the next start of the program would rebuild from the
\* facts: a restart never moves the lease (row and fact commit together, and
\* the fold of the rebuild agrees with the sequence of the changes).
IndexMatchesFacts == \A w \in Workspace : row[w] = Rebuilt(w)

\* An epoch for which a released fact is on record is not held any more:
\* the comment of the rebuild says it "never invents authority".
ReleasedEpochIsNotHeld ==
  \A i \in DOMAIN log :
    LET w == WorkspaceOf[log[i].attempt] IN
    log[i].change = "released" =>
      ~(row[w].state = "held" /\ row[w].epoch = log[i].epoch)

\* The lease implements the lock of WorkspaceLock: neither lost answers nor
\* restarts show in it, as long as the clock is not set back (specification of
\* change_mutation_lease and rebuild_mutation_lease_index together).
Nobody == "nobody"

Lock == INSTANCE WorkspaceLock WITH
  holder <- [w \in Workspace |-> IF row[w] # NoRow /\ row[w].state = "held"
                                 THEN row[w].attempt ELSE Nobody],
  number <- [w \in Workspace |-> Epoch(w)],
  working <- owned

ImplementsLock == Lock!LockSpec

=============================================================================
