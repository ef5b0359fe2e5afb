-------------------------- MODULE RuntimeGateProofs --------------------------
(***************************************************************************)
(* Theorems about RuntimeGate, for any number of calls, sessions and       *)
(* tickets and any set of faults.                                          *)
(*                                                                         *)
(* A step is taken by one call, and moves the calls it wakes from one wait *)
(* to the next (Moves).  What it does to the rest of the state falls into  *)
(* a few kinds: it leaves the acquire gate alone, takes it or gives it up  *)
(* (GateIdle, GateBegins, GateEnds), leaves the replacement gate alone,    *)
(* begins or ends a replacement (SwapIdle, SwapBegins, SwapEnds), and      *)
(* tends to the sessions (Tended).  One lemma per action says of which     *)
(* kinds it is; the invariant is kept by every step of these kinds.        *)
(***************************************************************************)
EXTENDS RuntimeGate, FiniteSetTheorems, TLAPS

-----------------------------------------------------------------------------
(* The invariant.                                                          *)

\* Where a call knows a ticket of the replacement gate, where it holds the
\* session it started, and where it knows a ticket of the acquire gate.
SwapKeyPCs == ReplacerPCs \cup {"subscribeSwap", "listenSwap"}
CarryPCs == SwapKeyPCs \cup {"replace", "yield", "dropMine"}
KeyPCs == LeaderPCs \cup {"subscribe", "listen", "takeOver", "quarantine"}

Sound(r) ==
  /\ r \in TaskRecord
  /\ r.kind \in Kinds \cup {"none"}
  /\ r.mine # 0 <=> r.pc \in CarryPCs
  /\ r.rkey # 0 => r.pc \in SwapKeyPCs
  /\ r.key # 0 => \/ r.pc \in KeyPCs
                  \/ r.pc = "fail" /\ r.next = "takeOver"

CallsAreSound == \A t \in Tasks : Sound(task[t])

\* What a call knows of the session it started.
Placed(t) ==
  /\ task[t].pc \in {"dropMine", "killNew"} => proc[task[t].mine] # "up"
  /\ task[t].pc \in {"killOld", "settle"} /\ proc[task[t].mine] = "up"
       => registry = task[t].mine

SessionsArePlaced == NoProcessIsLost /\ \A t \in Tasks : Placed(t)

TicketsAreApart ==
  \A t, u \in Tasks : /\ Leads(t) /\ Leads(u)
                      /\ task[t].key = task[u].key
                      => t = u

\* A call replaces through the gate.  The replacement for workspace settings
\* has no ticket.
Replaces(r) == r.pc \in ReplacerPCs /\ r.rkey # 0

OneReplaces ==
  /\ \A t \in Tasks : Replaces(task[t]) => task[t].rkey = replacing
  /\ \A t, u \in Tasks : Replaces(task[t]) /\ Replaces(task[u]) => t = u

GateInv ==
  /\ TypeOK
  /\ CallsAreSound
  /\ SessionsArePlaced
  /\ TicketsAreApart
  /\ GateIsItsLeaders
  /\ OneReplaces

-----------------------------------------------------------------------------
(* What a step does to the calls that do not take it, and what most steps  *)
(* leave alone.                                                            *)

Stays(u) ==
  \/ task'[u] = task[u]
  \/ /\ task[u].pc = "listen"
     /\ task'[u] = [task[u] EXCEPT !.pc = "look", !.key = 0]
  \/ /\ task[u].pc = "listenSwap"
     /\ task'[u] = [task[u] EXCEPT !.pc = "yield", !.rkey = 0]

Moves(t) ==
  /\ task' \in [Tasks -> TaskRecord]
  /\ Sound(task'[t])
  /\ \A u \in Tasks : u # t => Stays(u)

GateIdle(t) ==
  /\ startup'.key = startup.key
  /\ overtaken' = overtaken
  /\ Leads(t)' => Leads(t) /\ task'[t].key = task[t].key

SwapIdle(t) ==
  /\ replacing' = replacing
  /\ Replaces(task'[t])
       => Replaces(task[t]) /\ task'[t].rkey = task[t].rkey

Lowers == \A s \in Sessions : proc'[s] = "up" => proc[s] = "up"

SessionsIdle(t) ==
  /\ registry' = registry
  /\ Lowers
  /\ task[t].mine # 0 /\ task'[t].mine # task[t].mine
       => proc'[task[t].mine] # "up" \/ registry = task[t].mine
  /\ Placed(t)'

RestTyped ==
  /\ registry' \in Sessions \cup {0}
  /\ proc' \in [Sessions -> {"down", "up", "doomed"}]
  /\ startup' \in [key : Tickets \cup {0}, stale : BOOLEAN]
  /\ replacing' \in Tickets \cup {0}
  /\ recovery' \in [failures : 0..MaxConsecutiveFailures,
                    quarantine : {"none", "active", "over"}]
  /\ overtaken' \subseteq Tickets
  /\ attempts' \in 0..AttemptCap
  /\ quiet' \in BOOLEAN

Idles(t) == GateIdle(t) /\ SwapIdle(t) /\ SessionsIdle(t)

\* The pcs a call at work has between its steps, by what it may hold there.
LEMMA LookPCs ==
  ASSUME NEW pc \in {"idle", "look", "probe", "evict", "killEvicted",
                     "admit", "begin", "recovered"}
  PROVE  pc \in PCs /\ pc \notin CarryPCs /\ pc \notin KeyPCs
         /\ pc \notin LeaderPCs /\ pc \notin ReplacerPCs
BY DEF PCs, LeaderPCs, ReplacerPCs, SwapKeyPCs, CarryPCs, KeyPCs

LEMMA WaitPCs ==
  ASSUME NEW pc \in {"subscribe", "listen", "takeOver", "quarantine"}
  PROVE  pc \in PCs /\ pc \notin CarryPCs /\ pc \in KeyPCs
         /\ pc \notin LeaderPCs /\ pc \notin ReplacerPCs
BY DEF PCs, LeaderPCs, ReplacerPCs, SwapKeyPCs, CarryPCs, KeyPCs

LEMMA FailPC ==
  /\ "fail" \in PCs /\ "fail" \notin CarryPCs /\ "fail" \notin KeyPCs
  /\ "fail" \notin LeaderPCs /\ "fail" \notin ReplacerPCs
BY DEF PCs, LeaderPCs, ReplacerPCs, SwapKeyPCs, CarryPCs, KeyPCs

LEMMA LeadPCs ==
  ASSUME NEW pc \in {"spawn", "release"}
  PROVE  pc \in PCs /\ pc \notin CarryPCs /\ pc \in KeyPCs
         /\ pc \in LeaderPCs /\ pc \notin ReplacerPCs
BY DEF PCs, LeaderPCs, ReplacerPCs, SwapKeyPCs, CarryPCs, KeyPCs

LEMMA HoldPCs ==
  ASSUME NEW pc \in {"replace", "subscribeSwap", "listenSwap", "yield",
                     "dropMine"}
  PROVE  /\ pc \in PCs /\ pc \in CarryPCs /\ pc \in KeyPCs
         /\ pc \in LeaderPCs /\ pc \notin ReplacerPCs
         /\ pc \in SwapKeyPCs <=> pc \in {"subscribeSwap", "listenSwap"}
BY DEF PCs, LeaderPCs, ReplacerPCs, SwapKeyPCs, CarryPCs, KeyPCs

LEMMA SwapPCs ==
  ASSUME NEW pc \in {"swap", "killOld", "rollback", "killNew", "settle"}
  PROVE  pc \in PCs /\ pc \in CarryPCs /\ pc \in KeyPCs
         /\ pc \in LeaderPCs /\ pc \in ReplacerPCs /\ pc \in SwapKeyPCs
BY DEF PCs, LeaderPCs, ReplacerPCs, SwapKeyPCs, CarryPCs, KeyPCs

LEMMA PutIs ==
  ASSUME TypeOK, NEW t \in Tasks, NEW r, Sound(r), task' = Put(t, r)
  PROVE  task'[t] = r /\ Moves(t)
<1>1. task \in [Tasks -> TaskRecord] /\ r \in TaskRecord
  BY DEF TypeOK, Sound
<1>2. task'[t] = r BY <1>1 DEF Put
<1>3. \A u \in Tasks : u # t => task'[u] = task[u] BY <1>1 DEF Put
<1>4. task' \in [Tasks -> TaskRecord] BY <1>1 DEF Put
<1> QED BY <1>2, <1>3, <1>4 DEF Moves, Stays

LEMMA IdleIsSound == Sound(Idle)
<1>1. Idle \in TaskRecord BY LookPCs DEF Idle, TaskRecord
<1> QED BY <1>1, LookPCs DEF Sound, Idle

LEMMA PutWakes ==
  ASSUME TypeOK, NEW t \in Tasks, NEW r, Sound(r), NEW k,
         r.pc \notin {"listen", "listenSwap"},
         \/ task' = WakeAcquirers(Put(t, r), k)
         \/ task' = WakeReplacers(Put(t, r), k)
  PROVE  task'[t] = r /\ Moves(t)
<1>1. task \in [Tasks -> TaskRecord] /\ r \in TaskRecord
  BY DEF TypeOK, Sound
<1> DEFINE f == Put(t, r)
<1>2. f[t] = r /\ f \in [Tasks -> TaskRecord] BY <1>1 DEF Put
<1>3. \A u \in Tasks : u # t => f[u] = task[u] BY <1>1 DEF Put
<1>4. \/ task' = WakeAcquirers(f, k)
      \/ task' = WakeReplacers(f, k)
  OBVIOUS
<1> HIDE DEF f
<1>5. ASSUME NEW u \in Tasks
      PROVE  /\ [f[u] EXCEPT !.pc = "look", !.key = 0] \in TaskRecord
             /\ [f[u] EXCEPT !.pc = "yield", !.rkey = 0] \in TaskRecord
  BY <1>2, LookPCs, HoldPCs DEF TaskRecord
<1>6. task' \in [Tasks -> TaskRecord]
  BY <1>2, <1>4, <1>5 DEF WakeAcquirers, WakeReplacers
<1>7. task'[t] = r
  BY <1>2, <1>4 DEF WakeAcquirers, WakeReplacers
<1>8. ASSUME NEW u \in Tasks, u # t PROVE Stays(u)
  <2>1. f[u] = task[u] BY <1>3, <1>8
  <2>2. CASE task' = WakeAcquirers(f, k)
    <3>1. task'[u] = IF f[u].pc = "listen" /\ f[u].key = k
                       THEN [f[u] EXCEPT !.pc = "look", !.key = 0]
                       ELSE f[u]
      BY <2>2 DEF WakeAcquirers
    <3> QED BY <3>1, <2>1 DEF Stays
  <2>3. CASE task' = WakeReplacers(f, k)
    <3>1. task'[u] = IF f[u].pc = "listenSwap" /\ f[u].rkey = k
                       THEN [f[u] EXCEPT !.pc = "yield", !.rkey = 0]
                       ELSE f[u]
      BY <2>3 DEF WakeReplacers
    <3> QED BY <3>1, <2>1 DEF Stays
  <2> QED BY <1>4, <2>2, <2>3
<1> QED BY <1>6, <1>7, <1>8 DEF Moves

-----------------------------------------------------------------------------
(* Every step leaves the calls sound; most of them idle.                   *)

\* A step of a call that starts nothing it must stop and holds no gate.
LEMMA LightIdles ==
  ASSUME TypeOK, NEW t \in Tasks, Sound(task[t]), Sound(task'[t]),
         startup'.key = startup.key, overtaken' = overtaken,
         replacing' = replacing, registry' = registry, Lowers,
         task[t].pc \notin CarryPCs, task'[t].pc \notin CarryPCs,
         task'[t].pc \notin LeaderPCs \/ task'[t].key = 0
           \/ (task[t].pc \in LeaderPCs /\ task'[t].key = task[t].key)
  PROVE  Idles(t)
<1>1. task'[t].mine = 0 /\ task[t].mine = 0 BY DEF Sound
<1>2. ~Replaces(task'[t]) BY DEF CarryPCs, SwapKeyPCs, Replaces
<1>3. task'[t].pc \notin {"dropMine", "killNew", "killOld", "settle"}
  BY HoldPCs, SwapPCs
<1>4. GateIdle(t) BY DEF GateIdle, Leads
<1>5. SwapIdle(t) BY <1>2 DEF SwapIdle
<1>6. SessionsIdle(t) BY <1>1, <1>3 DEF SessionsIdle, Placed
<1> QED BY <1>4, <1>5, <1>6 DEF Idles

LEMMA CallKeeps ==
  ASSUME TypeOK, NEW t \in Tasks, Sound(task[t]), NEW k \in Kinds, Call(t, k)
  PROVE  RestTyped /\ Moves(t) /\ Idles(t)
<1> DEFINE r == [task[t] EXCEPT !.kind = k,
                   !.pc = IF k = "stop" THEN "evict" ELSE "look"]
<1>1. /\ r.kind = k /\ r.pc \in {"evict", "look"} /\ r.mine = task[t].mine
      /\ r.key = task[t].key /\ r.rkey = task[t].rkey /\ r \in TaskRecord
  BY LookPCs, GateAssumption DEF Sound, TaskRecord
<1>2. task[t].pc = "idle" /\ task' = Put(t, r) BY DEF Call, At
<1> HIDE DEF r
<1>3. Sound(r) BY <1>1, <1>2, LookPCs DEF CarryPCs, Sound
<1>4. task'[t] = r /\ Moves(t) BY <1>2, <1>3, PutIs
<1>5. RestTyped BY DEF Call, RestTyped, TypeOK, gates, guard
<1>6. Idles(t)
  BY <1>1, <1>2, <1>3, <1>4, LookPCs, LightIdles
     DEF Call, gates, guard, Lowers
<1> QED BY <1>4, <1>5, <1>6

LEMMA LightStep ==
  ASSUME TypeOK, NEW t \in Tasks, Sound(task[t]), task[t].pc \notin CarryPCs,
         NEW r, Sound(r), r.pc \notin CarryPCs,
         r.key = 0 \/ r.pc \notin LeaderPCs
           \/ (task[t].pc \in LeaderPCs /\ r.key = task[t].key),
         task' = Put(t, r), Lowers, UNCHANGED <<registry, gates>>
  PROVE  Moves(t) /\ Idles(t)
<1>1. task'[t] = r /\ Moves(t) BY PutIs
<1> QED BY <1>1, LightIdles DEF gates

\* A call that carries nothing and leads nothing goes on.
On(q, w) == [q EXCEPT !.pc = w]
Saw(q, w, s) == [q EXCEPT !.pc = w, !.seen = s]
Failed(q) == [q EXCEPT !.pc = "fail", !.next = "look", !.seen = 0]

Free(q) == Sound(q) /\ q.pc \notin CarryPCs /\ q.key = 0

LEMMA OnIsFree ==
  ASSUME NEW q, Free(q), NEW w \in PCs, w \notin CarryPCs,
         NEW s \in Sessions \cup {0}
  PROVE  /\ Free(On(q, w)) /\ On(q, w).pc = w
         /\ Free(Saw(q, w, s)) /\ Saw(q, w, s).pc = w
         /\ Free(Failed(q)) /\ Failed(q).pc = "fail"
BY FailPC DEF CarryPCs, Free, On, Saw, Failed, Sound, TaskRecord

LEMMA IdleIsFree == Free(Idle)
BY IdleIsSound, LookPCs DEF Idle, Free

LEMMA LookIsFree ==
  ASSUME NEW q, Sound(q),
         q.pc \in {"idle", "look", "probe", "evict", "killEvicted", "admit",
                   "begin", "recovered"}
  PROVE  Free(q)
<1>1. q.pc \notin CarryPCs /\ q.pc \notin KeyPCs BY LookPCs
<1> QED BY <1>1 DEF Sound, Free

LEMMA LookKeeps ==
  ASSUME TypeOK, NEW t \in Tasks, Sound(task[t]),
         \/ LookEmpty(t) \/ LookRejects(t) \/ LookFinds(t)
         \/ ProbeHealthy(t) \/ ProbeFails(t) \/ Admit(t) \/ Recovered(t)
  PROVE  RestTyped /\ Moves(t) /\ Idles(t)
<1> DEFINE W == {"admit", "evict", "probe", "spawn", "recovered", "begin"}
<1>1. Free(task[t]) /\ registry \in Sessions \cup {0}
  BY LookIsFree
     DEF TypeOK, LookEmpty, LookRejects, LookFinds, ProbeHealthy, ProbeFails,
         Admit, Recovered, At
<1>2. \A w \in W : w \in PCs /\ w \notin CarryPCs
  BY LookPCs, LeadPCs
<1>3. \/ task' = Put(t, Idle)
      \/ \E w \in W : \/ task' = Put(t, On(task[t], w))
                      \/ task' = Put(t, Saw(task[t], w, registry))
  BY DEF LookEmpty, LookRejects, LookFinds, ProbeHealthy, ProbeFails, Admit,
         Recovered, Goto, Return, On, Saw
<1> HIDE DEF W
<1>4. PICK r : task' = Put(t, r) /\ Free(r)
  BY <1>1, <1>2, <1>3, IdleIsFree, OnIsFree
<1>5. UNCHANGED <<registry, proc, gates>>
  BY DEF LookEmpty, LookRejects, LookFinds, ProbeHealthy, ProbeFails, Admit,
         Recovered
<1>6. Moves(t) /\ Idles(t)
  BY <1>1, <1>4, <1>5, LightStep DEF Lowers, Free
<1>7. Clear \in [failures : 0..MaxConsecutiveFailures,
                 quarantine : {"none", "active", "over"}]
  BY GateAssumption DEF Clear
<1>8. RestTyped
  BY <1>7, GateAssumption
     DEF LookEmpty, LookRejects, LookFinds, ProbeHealthy, ProbeFails, Admit,
         Recovered, RestTyped, TypeOK, gates, guard
<1> QED BY <1>6, <1>8

LEMMA WaitKeeps ==
  ASSUME TypeOK, NEW t \in Tasks, Sound(task[t]),
         Subscribe(t) \/ WaitTimesOut(t) \/ Fail(t) \/ Quarantine(t)
  PROVE  RestTyped /\ Moves(t) /\ Idles(t)
<1> DEFINE q == task[t]
<1>1. /\ q.pc \notin CarryPCs /\ q \in TaskRecord
      /\ q.pc \in {"subscribe", "listen", "fail", "quarantine"}
  BY WaitPCs, FailPC
     DEF Subscribe, WaitTimesOut, Fail, Quarantine, At, Sound
<1>2. \/ task' = Put(t, Idle)
      \/ q.pc = "subscribe" /\ task' = Put(t, On(q, "listen"))
      \/ /\ q.pc = "listen"
         /\ task' = Put(t, [q EXCEPT !.pc = "fail", !.next = "takeOver"])
      \/ q.pc = "fail" /\ task' = Put(t, On(q, "quarantine"))
      \/ q.pc = "fail" /\ task' = Put(t, On(q, q.next))
  BY DEF Subscribe, WaitTimesOut, Fail, Quarantine, At, Goto, Return, On
<1>3. Sound(q) OBVIOUS
<1>4. q.pc = "fail" => q.next \in {"look", "takeOver"}
  BY <1>1 DEF TaskRecord
<1> HIDE DEF q
<1> DEFINE Good(r) == Sound(r) /\ r.pc \notin CarryPCs /\ r.pc \notin LeaderPCs
<1>5. Good(Idle) BY IdleIsSound, LookPCs DEF Idle
<1>6. q.pc = "subscribe" => Good(On(q, "listen"))
  BY <1>1, <1>3, WaitPCs DEF CarryPCs, On, Sound, TaskRecord
<1>7. q.pc = "listen"
        => Good([q EXCEPT !.pc = "fail", !.next = "takeOver"])
  BY <1>1, <1>3, FailPC DEF CarryPCs, Sound, TaskRecord
<1>8. q.pc = "fail" => Good(On(q, "quarantine"))
  BY <1>1, <1>3, WaitPCs DEF CarryPCs, On, Sound, TaskRecord
<1>9. q.pc = "fail" => Good(On(q, q.next))
  BY <1>1, <1>3, <1>4, WaitPCs, LookPCs, FailPC DEF CarryPCs, On, Sound, TaskRecord
<1> HIDE DEF Good
<1>10. PICK r : task' = Put(t, r) /\ Good(r)
  BY <1>2, <1>5, <1>6, <1>7, <1>8, <1>9
<1>11. Sound(r) /\ r.pc \notin CarryPCs /\ r.pc \notin LeaderPCs
  BY <1>10 DEF Good
<1>12. UNCHANGED <<registry, proc, gates>>
  BY DEF Subscribe, WaitTimesOut, Fail, Quarantine
<1>13. Moves(t) /\ Idles(t)
  BY <1>1, <1>3, <1>10, <1>11, <1>12, LightStep DEF Lowers, q
<1>14. recovery' \in [failures : 0..MaxConsecutiveFailures,
                      quarantine : {"none", "active", "over"}]
  BY GateAssumption
     DEF Subscribe, WaitTimesOut, Fail, Quarantine, TypeOK, guard
<1>15. RestTyped
  BY <1>14, GateAssumption
     DEF Subscribe, WaitTimesOut, Fail, Quarantine, RestTyped, TypeOK, gates,
         guard
<1> QED BY <1>13, <1>15

LEMMA CountTyped ==
  ASSUME TypeOK, NEW t \in Tasks PROVE Count(t) \in 0..AttemptCap
BY GateAssumption DEF TypeOK, Count

LEMMA SpawnFailsKeeps ==
  ASSUME TypeOK, NEW t \in Tasks, Sound(task[t]), SpawnFails(t)
  PROVE  RestTyped /\ Moves(t) /\ Idles(t)
<1> DEFINE q == task[t]
<1>1. Sound(q) /\ q.pc = "spawn" BY DEF SpawnFails, At
<1>2. q.pc \notin CarryPCs /\ q.pc \in LeaderPCs BY <1>1, LeadPCs
<1>3. task' = Put(t, Idle) \/ task' = Put(t, On(q, "release"))
  BY DEF SpawnFails, Goto, Return, On
<1> HIDE DEF q
<1>4. /\ Sound(On(q, "release")) /\ On(q, "release").pc \notin CarryPCs
      /\ On(q, "release").key = q.key
  BY <1>1, <1>2, LeadPCs DEF CarryPCs, On, Sound, TaskRecord
<1>5. PICK r : /\ task' = Put(t, r) /\ Sound(r) /\ r.pc \notin CarryPCs
               /\ r.key = 0 \/ r.key = q.key
  BY <1>3, <1>4, IdleIsFree DEF Free
<1>6. Moves(t) /\ Idles(t)
  BY <1>1, <1>2, <1>5, LightStep DEF SpawnFails, Lowers, q
<1>7. RestTyped BY CountTyped DEF SpawnFails, RestTyped, TypeOK, gates
<1> QED BY <1>6, <1>7

-----------------------------------------------------------------------------
(* Steps that take or free the acquire gate.                               *)

NewOnes ==
  /\ NewTicket \in Tickets
  /\ NewTicket # startup.key /\ NewTicket # replacing
  /\ \A u \in Tasks : task[u].key # NewTicket /\ task[u].rkey # NewTicket

LEMMA TicketIsNew == ASSUME FreeTickets # {} PROVE NewOnes
<1>1. NewTicket \in FreeTickets BY DEF NewTicket
<1> QED BY <1>1 DEF FreeTickets, HeldTickets, NewOnes

\* t takes the gate, and whoever led it until now is overtaken.
GateBegins(t) ==
  /\ startup'.key \in Tickets
  /\ \A u \in Tasks : task[u].key # startup'.key
  /\ task'[t].key = startup'.key
  /\ overtaken \subseteq overtaken'
  /\ \A u \in Tasks : Leads(u) /\ task[u].key = startup.key
                        => startup.key \in overtaken'

\* t gives up its ticket, and the gate if that is its own.
GateEnds(t) ==
  /\ ~Leads(t)'
  /\ task[t].key # 0 => Leads(t)
  /\ overtaken' = overtaken \ {task[t].key}
  /\ \/ startup'.key = startup.key
     \/ task[t].key # 0 /\ startup.key = task[t].key

\* A step at the gate concerns no session and no replacement.
LEMMA HolderIdles ==
  ASSUME TypeOK, NEW t \in Tasks, Sound(task[t]), Sound(task'[t]),
         replacing' = replacing, UNCHANGED <<registry, proc>>,
         task[t].pc \notin CarryPCs, task'[t].pc \notin CarryPCs
  PROVE  SwapIdle(t) /\ SessionsIdle(t)
<1>1. task'[t].mine = 0 /\ task[t].mine = 0 BY DEF Sound
<1>2. ~Replaces(task'[t]) BY DEF CarryPCs, SwapKeyPCs, Replaces
<1>3. task'[t].pc \notin {"dropMine", "killNew", "killOld", "settle"}
  BY HoldPCs, SwapPCs
<1> QED BY <1>1, <1>2, <1>3 DEF SwapIdle, SessionsIdle, Placed, Lowers

LeaderOf(q) == [q EXCEPT !.pc = "spawn", !.key = NewTicket]

LEMMA LeaderIsSound ==
  ASSUME NEW q, Sound(q), q.pc \notin CarryPCs, FreeTickets # {}
  PROVE  /\ Sound(LeaderOf(q)) /\ LeaderOf(q).pc = "spawn"
         /\ LeaderOf(q).key = NewTicket
BY TicketIsNew, LeadPCs DEF CarryPCs, Sound, TaskRecord, LeaderOf, NewOnes

LEMMA BeginAcquireKeeps ==
  ASSUME TypeOK, NEW t \in Tasks, Sound(task[t]), BeginAcquire(t)
  PROVE  /\ RestTyped /\ Moves(t) /\ SwapIdle(t) /\ SessionsIdle(t)
         /\ GateIdle(t) \/ GateBegins(t)
<1> DEFINE q == task[t]
           w == [q EXCEPT !.pc = "subscribe", !.key = startup.key]
<1>1. Sound(q) /\ q.pc \notin CarryPCs
  BY LookIsFree DEF BeginAcquire, At, Free
<1>2. /\ Sound(w) /\ w.pc \notin CarryPCs /\ w.pc \notin LeaderPCs
  BY <1>1, WaitPCs DEF CarryPCs, Sound, TaskRecord, TypeOK
<1>3. CASE startup = NoGate
  <2>1. /\ FreeTickets # {} /\ task' = Put(t, LeaderOf(q))
        /\ startup' = [key |-> NewTicket, stale |-> FALSE]
    BY <1>3 DEF BeginAcquire, Leader, LeaderOf, NewGate
  <2> HIDE DEF q, w
  <2>2. task'[t] = LeaderOf(q) /\ Moves(t)
    BY <1>1, <2>1, PutIs, LeaderIsSound
  <2>3. /\ Sound(task'[t]) /\ task'[t].pc \notin CarryPCs
        /\ task'[t].key = NewTicket
    BY <1>1, <2>1, <2>2, LeaderIsSound, LeadPCs
  <2>4. NewOnes BY <2>1, TicketIsNew
  <2>5. SwapIdle(t) /\ SessionsIdle(t)
    BY <1>1, <2>3, HolderIdles DEF BeginAcquire, q
  <2>6. \A u \in Tasks : Leads(u) => task[u].key # startup.key
    BY <1>3 DEF Leads, NoGate
  <2>7. GateBegins(t)
    BY <2>1, <2>3, <2>4, <2>6 DEF GateBegins, NewOnes, BeginAcquire
  <2>8. RestTyped
    BY <2>1, <2>4 DEF NewOnes, RestTyped, TypeOK, BeginAcquire, guard
  <2> QED BY <2>2, <2>5, <2>7, <2>8
<1>4. CASE startup # NoGate
  <2>1. task' = Put(t, w) /\ startup' = startup BY <1>4 DEF BeginAcquire
  <2> HIDE DEF q, w
  <2>2. task'[t] = w /\ Moves(t) BY <1>2, <2>1, PutIs
  <2>3. Moves(t) /\ Idles(t)
    BY <1>1, <1>2, <2>1, <2>2, LightIdles DEF BeginAcquire, Lowers, q
  <2>4. RestTyped
    BY <2>1 DEF BeginAcquire, RestTyped, TypeOK, guard
  <2> QED BY <2>3, <2>4 DEF Idles
<1> QED BY <1>3, <1>4

LEMMA TakeOverKeeps ==
  ASSUME TypeOK, NEW t \in Tasks, Sound(task[t]), TakeOver(t)
  PROVE  /\ RestTyped /\ Moves(t) /\ SwapIdle(t) /\ SessionsIdle(t)
         /\ GateIdle(t) \/ GateBegins(t)
<1> DEFINE q == task[t]
           w == [q EXCEPT !.pc = "look", !.key = 0]
<1>1. Sound(q) /\ q.pc \notin CarryPCs
  BY WaitPCs DEF TakeOver, At
<1>2. Sound(w) /\ w.pc \notin CarryPCs /\ w.pc \notin LeaderPCs
  BY <1>1, LookPCs DEF CarryPCs, Sound, TaskRecord
<1>3. CASE startup.stale /\ startup.key = task[t].key
  <2>1. /\ FreeTickets # {}
        /\ task' = WakeAcquirers(Put(t, LeaderOf(q)), startup.key)
        /\ startup' = [key |-> NewTicket, stale |-> FALSE]
    BY <1>3 DEF TakeOver, Leader, LeaderOf, NewGate
  <2> HIDE DEF q, w
  <2>2. task'[t] = LeaderOf(q) /\ Moves(t)
    BY <1>1, <2>1, PutWakes, LeaderIsSound
  <2>3. /\ Sound(task'[t]) /\ task'[t].pc \notin CarryPCs
        /\ task'[t].key = NewTicket
    BY <1>1, <2>1, <2>2, LeaderIsSound, LeadPCs
  <2>4. NewOnes BY <2>1, TicketIsNew
  <2>5. SwapIdle(t) /\ SessionsIdle(t)
    BY <1>1, <2>3, HolderIdles DEF TakeOver, q
  <2>6. /\ overtaken \subseteq overtaken'
        /\ \A u \in Tasks : Leads(u) /\ task[u].key = startup.key
                              => startup.key \in overtaken'
    BY <1>3 DEF TakeOver
  <2>7. GateBegins(t) BY <2>1, <2>3, <2>4, <2>6 DEF GateBegins, NewOnes
  <2>8. \A u \in Tasks : Leads(u) => task[u].key \in Tickets
    BY DEF TypeOK, Leads, TaskRecord
  <2>9. overtaken' \subseteq Tickets BY <1>3, <2>8 DEF TakeOver, TypeOK
  <2>10. RestTyped
    BY <2>1, <2>4, <2>9 DEF NewOnes, RestTyped, TypeOK, TakeOver, guard
  <2> QED BY <2>2, <2>5, <2>7, <2>10
<1>4. CASE ~(startup.stale /\ startup.key = task[t].key)
  <2>1. /\ task' = Put(t, w) /\ startup' = startup /\ overtaken' = overtaken
    BY <1>4 DEF TakeOver
  <2> HIDE DEF q, w
  <2>2. task'[t] = w /\ Moves(t) BY <1>2, <2>1, PutIs
  <2>3. Moves(t) /\ Idles(t)
    BY <1>1, <1>2, <2>1, <2>2, LightIdles DEF TakeOver, Lowers, q
  <2>4. RestTyped BY <2>1 DEF TakeOver, RestTyped, TypeOK, guard
  <2> QED BY <2>3, <2>4 DEF Idles
<1> QED BY <1>3, <1>4

LEMMA SetupFailsKeeps ==
  ASSUME TypeOK, NEW t \in Tasks, Sound(task[t]), SetupFails(t)
  PROVE  /\ RestTyped /\ Moves(t) /\ SwapIdle(t) /\ SessionsIdle(t)
         /\ GateEnds(t)
<1>1. task[t].pc = "spawn" /\ task' = Put(t, Idle)
  BY DEF SetupFails, At, Return
<1>2. task[t].pc \notin CarryPCs /\ task[t].pc \in LeaderPCs
  BY <1>1, LeadPCs
<1>3. Sound(Idle) /\ Idle.pc \notin CarryPCs /\ Idle.key = 0
  BY IdleIsFree DEF Free
<1>4. task'[t] = Idle /\ Moves(t) BY <1>1, <1>3, PutIs
<1>5. SwapIdle(t) /\ SessionsIdle(t)
  BY <1>2, <1>3, <1>4, HolderIdles DEF SetupFails
<1>6. GateEnds(t) BY <1>2, <1>3, <1>4 DEF GateEnds, Leads, SetupFails
<1>7. RestTyped BY DEF SetupFails, RestTyped, TypeOK, guard
<1> QED BY <1>4, <1>5, <1>6, <1>7

LEMMA ReleaseKeeps ==
  ASSUME TypeOK, NEW t \in Tasks, Sound(task[t]), Release(t)
  PROVE  /\ RestTyped /\ Moves(t) /\ SwapIdle(t) /\ SessionsIdle(t)
         /\ GateEnds(t)
<1> DEFINE q == task[t]
           done == [q EXCEPT !.pc = "recovered", !.key = 0]
           failed == [Idle EXCEPT !.kind = "reconnect", !.pc = "fail"]
<1>1. Sound(q) /\ q.pc = "release" BY DEF Release, At
<1>2. q.pc \notin CarryPCs /\ q.pc \in LeaderPCs BY <1>1, LeadPCs
<1> DEFINE Freed(r) == /\ Sound(r) /\ r.pc \notin CarryPCs /\ r.key = 0
                       /\ r.pc \notin {"listen", "listenSwap"}
<1>3. Freed(Idle) BY IdleIsFree DEF Free, Idle
<1>4. Freed(done) BY <1>1, <1>2, LookPCs DEF CarryPCs, Sound, TaskRecord
<1>5. q.kind = "reconnect" => Freed(failed)
  BY <1>1, FailPC DEF Sound, TaskRecord, Idle
<1>6. \/ AfterRelease(t) = Put(t, Idle)
      \/ AfterRelease(t) = Put(t, done)
      \/ q.kind = "reconnect" /\ AfterRelease(t) = Put(t, failed)
  BY DEF AfterRelease, Automatic, Return
<1> HIDE DEF done, failed, q, Freed
<1>7. PICK r : AfterRelease(t) = Put(t, r) /\ Freed(r)
  BY <1>3, <1>4, <1>5, <1>6
<1>8. \/ task' = WakeAcquirers(Put(t, r), startup.key)
      \/ task' = Put(t, r)
  BY <1>7 DEF Release
<1>9. task'[t] = r /\ Moves(t)
  BY <1>7, <1>8, PutIs, PutWakes DEF Freed
<1>10. SwapIdle(t) /\ SessionsIdle(t)
  BY <1>2, <1>7, <1>9, HolderIdles DEF Release, Freed, q
<1>11. /\ overtaken' = overtaken \ {task[t].key}
       /\ \/ startup' = startup
          \/ task[t].key # 0 /\ startup.key = task[t].key
  BY DEF Release
<1>12. GateEnds(t)
  BY <1>2, <1>7, <1>9, <1>11 DEF GateEnds, Leads, Freed, q
<1>13. RestTyped
  BY DEF Release, NoGate, RestTyped, TypeOK, guard
<1> QED BY <1>9, <1>10, <1>12, <1>13

\* A call that does not take the step leads with the ticket it led with.
LEMMA StaysLeads ==
  ASSUME TypeOK, NEW u \in Tasks, Stays(u), Leads(u)'
  PROVE  Leads(u) /\ task'[u].key = task[u].key
<1>1. task[u] \in TaskRecord BY DEF TypeOK
<1>2. CASE task'[u] = task[u] BY <1>2 DEF Leads
<1>3. CASE /\ task[u].pc = "listen"
           /\ task'[u] = [task[u] EXCEPT !.pc = "look", !.key = 0]
  <2>1. task'[u].pc = "look" BY <1>1, <1>3 DEF TaskRecord
  <2> QED BY <2>1, LookPCs DEF Leads
<1>4. CASE /\ task[u].pc = "listenSwap"
           /\ task'[u] = [task[u] EXCEPT !.pc = "yield", !.rkey = 0]
  <2>1. task'[u].key = task[u].key BY <1>1, <1>4 DEF TaskRecord
  <2> QED BY <2>1, <1>4, HoldPCs DEF Leads
<1> QED BY <1>2, <1>3, <1>4 DEF Stays

LEMMA GateKeeps ==
  ASSUME TypeOK, NEW t \in Tasks, Moves(t), TicketsAreApart,
         GateIsItsLeaders, GateIdle(t) \/ GateBegins(t) \/ GateEnds(t)
  PROVE  TicketsAreApart' /\ GateIsItsLeaders'
<1>1. \A u \in Tasks : u # t /\ Leads(u)'
                         => Leads(u) /\ task'[u].key = task[u].key
  BY StaysLeads DEF Moves
<1>2. \A u \in Tasks : Leads(u) => task[u].key \in Tickets
  BY DEF TypeOK, Leads, TaskRecord
<1>3. CASE GateIdle(t)
  <2>1. \A u \in Tasks : Leads(u)' => Leads(u) /\ task'[u].key = task[u].key
    BY <1>1, <1>3 DEF GateIdle
  <2>2. TicketsAreApart' BY <2>1 DEF TicketsAreApart
  <2>3. GateIsItsLeaders' BY <2>1, <1>3 DEF GateIsItsLeaders, GateIdle
  <2> QED BY <2>2, <2>3
<1>4. CASE GateBegins(t)
  <2>1. TicketsAreApart' BY <1>1, <1>4 DEF TicketsAreApart, GateBegins
  <2>2. ASSUME NEW u \in Tasks, Leads(u)', task'[u].key \notin overtaken'
        PROVE  startup'.key = task'[u].key
    BY <1>1, <1>4, <2>2 DEF GateIsItsLeaders, GateBegins
  <2> QED BY <2>1, <2>2 DEF GateIsItsLeaders
<1>5. CASE GateEnds(t)
  <2>1. \A u \in Tasks : Leads(u)' => /\ Leads(u) /\ u # t
                                      /\ task'[u].key = task[u].key
    BY <1>1, <1>5 DEF GateEnds
  <2>2. TicketsAreApart' BY <2>1 DEF TicketsAreApart
  <2>3. \A u \in Tasks : Leads(u)' => task'[u].key # task[t].key
    <3>1. task[t].key # 0 => Leads(t) BY <1>5 DEF GateEnds
    <3>2. \A u \in Tasks : Leads(u) => task[u].key # 0 BY DEF Leads
    <3> QED BY <2>1, <3>1, <3>2 DEF TicketsAreApart
  <2>4. ASSUME NEW u \in Tasks, Leads(u)', task'[u].key \notin overtaken'
        PROVE  startup'.key = task'[u].key
    <3>1. Leads(u) /\ task'[u].key = task[u].key /\ task[u].key # task[t].key
      BY <2>1, <2>3, <2>4
    <3>2. task[u].key \notin overtaken BY <1>5, <2>4, <3>1 DEF GateEnds
    <3>3. startup.key = task[u].key BY <3>1, <3>2 DEF GateIsItsLeaders
    <3> QED BY <1>5, <3>1, <3>3 DEF GateEnds
  <2> QED BY <2>2, <2>4 DEF GateIsItsLeaders
<1> QED BY <1>3, <1>4, <1>5

-----------------------------------------------------------------------------
(* Steps of a replacement.                                                 *)

\* t begins a replacement while there is no other.
SwapBegins(t) ==
  /\ replacing = 0
  /\ replacing' \in Tickets
  /\ task'[t].rkey = replacing'

\* t is through with its replacement.
SwapEnds(t) == Replaces(task[t]) /\ ~Replaces(task'[t])

LEMMA StaysReplaces ==
  ASSUME TypeOK, NEW u \in Tasks, Stays(u), Replaces(task'[u])
  PROVE  Replaces(task[u]) /\ task'[u].rkey = task[u].rkey
<1>1. task[u] \in TaskRecord BY DEF TypeOK
<1>2. ASSUME NEW r, r = [task[u] EXCEPT !.pc = "look", !.key = 0]
      PROVE  ~Replaces(r)
  BY <1>1, <1>2, LookPCs DEF TaskRecord, Replaces
<1>3. ASSUME NEW r, r = [task[u] EXCEPT !.pc = "yield", !.rkey = 0]
      PROVE  ~Replaces(r)
  BY <1>1, <1>3, HoldPCs DEF TaskRecord, Replaces
<1> QED BY <1>2, <1>3 DEF Stays

LEMMA SwapKeeps ==
  ASSUME TypeOK, NEW t \in Tasks, Moves(t), OneReplaces,
         SwapIdle(t) \/ SwapBegins(t) \/ SwapEnds(t)
  PROVE  OneReplaces'
<1>1. \A u \in Tasks : u # t /\ Replaces(task'[u])
        => Replaces(task[u]) /\ task'[u].rkey = task[u].rkey
  BY StaysReplaces DEF Moves
<1>2. CASE SwapIdle(t)
  BY <1>1, <1>2 DEF OneReplaces, SwapIdle
<1>3. CASE SwapBegins(t)
  <2>1. \A u \in Tasks : Replaces(task[u]) => task[u].rkey # 0
    BY DEF Replaces
  <2>2. \A u \in Tasks : Replaces(task'[u]) => u = t
    BY <1>1, <1>3, <2>1 DEF OneReplaces, SwapBegins
  <2> QED BY <1>3, <2>2 DEF OneReplaces, SwapBegins
<1>4. CASE SwapEnds(t)
  <2>1. \A u \in Tasks : ~Replaces(task'[u])
    BY <1>1, <1>4 DEF OneReplaces, SwapEnds
  <2> QED BY <2>1 DEF OneReplaces
<1> QED BY <1>2, <1>3, <1>4

-----------------------------------------------------------------------------
(* Steps that start, register or stop a session.                           *)

\* What becomes of the sessions when t steps: one is started only for t to
\* hold it, the registry is not taken from one that goes on, and t lets go of
\* none that is up but the registered one.
Tended(t) ==
  /\ \A s \in Sessions : proc'[s] = "up" /\ proc[s] # "up"
       => task'[t].mine = s /\ \A u \in Tasks : task[u].mine # s
  /\ registry' # registry => registry = 0 \/ proc'[registry] # "up"
  /\ task[t].mine # 0 /\ task'[t].mine # task[t].mine
       => proc'[task[t].mine] # "up" \/ registry' = task[t].mine
  /\ Placed(t)'

LEMMA IdleIsTended ==
  ASSUME NEW t \in Tasks, SessionsIdle(t) PROVE Tended(t)
BY DEF SessionsIdle, Tended, Lowers

LEMMA StaysPlaced ==
  ASSUME TypeOK, NEW u \in Tasks, Stays(u)
  PROVE  /\ task'[u].mine = task[u].mine
         /\ task'[u].pc \in {"dropMine", "killNew", "killOld", "settle"}
              => task'[u].pc = task[u].pc
<1>1. task[u] \in TaskRecord BY DEF TypeOK
<1>2. ASSUME NEW r, \/ r = [task[u] EXCEPT !.pc = "look", !.key = 0]
                    \/ r = [task[u] EXCEPT !.pc = "yield", !.rkey = 0]
      PROVE  /\ r.mine = task[u].mine
             /\ r.pc \notin {"dropMine", "killNew", "killOld", "settle"}
  BY <1>1, <1>2 DEF TaskRecord
<1> QED BY <1>2 DEF Stays

LEMMA SessionsKeep ==
  ASSUME TypeOK, CallsAreSound, NEW t \in Tasks, Moves(t), Tended(t),
         SessionsArePlaced
  PROVE  SessionsArePlaced'
<1>1. \A u \in Tasks : u # t =>
        /\ task'[u].mine = task[u].mine
        /\ task'[u].pc \in {"dropMine", "killNew", "killOld", "settle"}
             => task'[u].pc = task[u].pc
  BY StaysPlaced DEF Moves
<1>2. \A u \in Tasks : task[u].mine \in Sessions \cup {0}
  BY DEF TypeOK, TaskRecord
<1>3. ASSUME NEW s \in Sessions, proc'[s] = "up"
      PROVE  s = registry' \/ \E u \in Tasks : task'[u].mine = s
  <2>1. CASE proc[s] # "up" BY <1>3, <2>1 DEF Tended
  <2>2. CASE s = registry
    <3>1. s # 0 BY GateAssumption
    <3> QED BY <1>3, <2>2, <3>1 DEF Tended
  <2>3. CASE \E u \in Tasks : task[u].mine = s
    <3>1. PICK u \in Tasks : task[u].mine = s BY <2>3
    <3>2. CASE u # t BY <1>1, <3>1, <3>2
    <3>3. CASE u = t
      <4>1. s # 0 BY GateAssumption
      <4> QED BY <1>3, <3>1, <3>3, <4>1 DEF Tended
    <3> QED BY <3>2, <3>3
  <2> QED BY <2>1, <2>2, <2>3 DEF SessionsArePlaced, NoProcessIsLost
<1>4. ASSUME NEW u \in Tasks, u # t PROVE Placed(u)'
  <2>1. /\ task'[u].mine = task[u].mine
        /\ task'[u].pc \in {"dropMine", "killNew", "killOld", "settle"}
             => task'[u].pc = task[u].pc
    BY <1>1, <1>4
  <2>2. ASSUME task'[u].pc \in {"dropMine", "killNew", "killOld", "settle"}
        PROVE  task[u].mine \in Sessions /\ task[u].mine # 0
    <3>1. task[u].pc \in CarryPCs BY <2>1, <2>2, HoldPCs, SwapPCs
    <3>2. task[u].mine # 0 BY <3>1 DEF CallsAreSound, Sound
    <3> QED BY <3>2, <1>2
  <2>3. \/ task'[u].pc \notin {"dropMine", "killNew", "killOld", "settle"}
        \/ proc'[task[u].mine] = "up" => proc[task[u].mine] = "up"
    BY <2>2 DEF Tended
  <2>4. Placed(u) BY DEF SessionsArePlaced
  <2>5. task'[u].pc \in {"dropMine", "killNew"}
          => proc'[task'[u].mine] # "up"
    BY <2>1, <2>3, <2>4 DEF Placed
  <2>6. ASSUME task'[u].pc \in {"killOld", "settle"},
               proc'[task'[u].mine] = "up"
        PROVE  registry' = task'[u].mine
    <3>1. registry = task[u].mine /\ registry # 0
      BY <2>1, <2>2, <2>3, <2>4, <2>6 DEF Placed
    <3>2. proc'[registry] = "up" BY <2>1, <2>6, <3>1
    <3>3. registry' = registry BY <3>1, <3>2 DEF Tended
    <3> QED BY <2>1, <3>1, <3>3
  <2> QED BY <2>5, <2>6 DEF Placed
<1>5. Placed(t)' BY DEF Tended
<1> QED BY <1>3, <1>4, <1>5 DEF SessionsArePlaced, NoProcessIsLost

Advances(t) ==
  /\ RestTyped
  /\ Moves(t)
  /\ GateIdle(t) \/ GateBegins(t) \/ GateEnds(t)
  /\ SwapIdle(t) \/ SwapBegins(t) \/ SwapEnds(t)
  /\ Tended(t)

LEMMA DoomIs ==
  ASSUME TypeOK, NEW s \in Sessions, proc' = Doom(s)
  PROVE  /\ proc' \in [Sessions -> {"down", "up", "doomed"}]
         /\ proc'[s] # "up" /\ Lowers
BY DEF TypeOK, Doom, Lowers

LEMMA KillIs ==
  ASSUME TypeOK, NEW s, Kills(s) \/ FailsToKill(s)
  PROVE  proc' \in [Sessions -> {"down", "up", "doomed"}] /\ Lowers
BY DEF TypeOK, Kills, FailsToKill, Lowers

LEMMA AfterEvictIs ==
  ASSUME TypeOK, NEW t \in Tasks, Free(task[t]), task' = AfterEvict(t)
  PROVE  Moves(t) /\ Free(task'[t]) /\ task'[t].pc \notin LeaderPCs
<1> DEFINE q == task[t]
<1>1. \/ task' = Put(t, Idle) \/ task' = Put(t, Failed(q))
      \/ task' = Put(t, Saw(q, "look", 0))
  BY DEF AfterEvict, Automatic, Return, Failed, Saw
<1>2. Free(q) OBVIOUS
<1> HIDE DEF q
<1>3. Free(Idle) /\ Idle.pc \notin LeaderPCs
  BY IdleIsFree, LookPCs DEF Idle
<1>4. Free(Failed(q)) /\ Failed(q).pc \notin LeaderPCs
  BY <1>2, OnIsFree, FailPC
<1>5. Free(Saw(q, "look", 0)) /\ Saw(q, "look", 0).pc \notin LeaderPCs
  BY <1>2, OnIsFree, LookPCs
<1>6. PICK r : task' = Put(t, r) /\ Free(r) /\ r.pc \notin LeaderPCs
  BY <1>1, <1>3, <1>4, <1>5
<1> QED BY <1>6, PutIs DEF Free

\* A call that carries nothing takes a session from the registry or stops it.
LEMMA FreeStep ==
  ASSUME TypeOK, NEW t \in Tasks, Free(task[t]), Free(task'[t]), Lowers,
         UNCHANGED gates,
         registry' # registry => registry = 0 \/ proc'[registry] # "up"
  PROVE  GateIdle(t) /\ SwapIdle(t) /\ Tended(t)
<1>1. task'[t].mine = 0 /\ task[t].mine = 0 BY DEF Sound, Free
<1>2. ~Replaces(task'[t]) BY DEF CarryPCs, SwapKeyPCs, Free, Replaces
<1>3. task'[t].pc \notin {"dropMine", "killNew", "killOld", "settle"}
  BY HoldPCs, SwapPCs DEF Free
<1>4. GateIdle(t) BY DEF GateIdle, Leads, Free, gates
<1>5. SwapIdle(t) BY <1>2 DEF SwapIdle, gates
<1> QED BY <1>1, <1>3, <1>4, <1>5 DEF Tended, Placed, Lowers

LEMMA EvictAdvances ==
  ASSUME TypeOK, NEW t \in Tasks, Sound(task[t]), Evict(t)
  PROVE  Advances(t)
<1>1. Free(task[t]) BY LookIsFree DEF Evict, At
<1>2. /\ Moves(t) /\ Free(task'[t]) /\ Lowers
      /\ proc' \in [Sessions -> {"down", "up", "doomed"}]
      /\ registry = 0 \/ proc'[registry] # "up"
  <2>1. CASE registry = 0
    BY <1>1, <2>1, AfterEvictIs DEF Evict, Lowers, TypeOK
  <2>2. CASE registry # 0
    <3>1. /\ task' = Put(t, Saw(task[t], "killEvicted", registry))
          /\ proc' = Doom(registry) /\ registry \in Sessions
      BY <2>2 DEF Evict, Saw, TypeOK
    <3>2. Free(Saw(task[t], "killEvicted", registry))
      BY <1>1, <3>1, OnIsFree, LookPCs
    <3>3. Moves(t) /\ Free(task'[t]) BY <3>1, <3>2, PutIs DEF Free
    <3> QED BY <3>1, <3>3, DoomIs
  <2> QED BY <2>1, <2>2
<1>3. GateIdle(t) /\ SwapIdle(t) /\ Tended(t)
  BY <1>1, <1>2, FreeStep DEF Evict
<1>4. RestTyped BY <1>2 DEF Evict, RestTyped, TypeOK, gates, guard
<1> QED BY <1>2, <1>3, <1>4 DEF Advances

LEMMA KillEvictedAdvances ==
  ASSUME TypeOK, NEW t \in Tasks, Sound(task[t]), KillEvicted(t)
  PROVE  Advances(t)
<1>1. Free(task[t]) BY LookIsFree DEF KillEvicted, At
<1>2. /\ Lowers /\ proc' \in [Sessions -> {"down", "up", "doomed"}]
  BY KillIs DEF KillEvicted
<1>3. Moves(t) /\ Free(task'[t])
  <2>1. task' = AfterEvict(t) \/ task' = Put(t, Idle)
    BY DEF KillEvicted, Return
  <2> QED BY <1>1, <2>1, AfterEvictIs, IdleIsFree, PutIs DEF Free
<1>4. GateIdle(t) /\ SwapIdle(t) /\ Tended(t)
  BY <1>1, <1>2, <1>3, FreeStep DEF KillEvicted
<1>5. RestTyped BY <1>2 DEF KillEvicted, RestTyped, TypeOK, gates, guard
<1> QED BY <1>2, <1>3, <1>4, <1>5 DEF Advances

LEMMA SessionIsNew ==
  ASSUME FreeSessions # {}
  PROVE  /\ NewSession \in Sessions /\ proc[NewSession] # "up"
         /\ \A u \in Tasks : task[u].mine # NewSession
<1>1. NewSession \in FreeSessions BY DEF NewSession
<1> QED BY <1>1 DEF FreeSessions

LEMMA SpawnAdvances ==
  ASSUME TypeOK, NEW t \in Tasks, Sound(task[t]), Spawn(t)
  PROVE  Advances(t)
<1> DEFINE q == task[t]
           r == [q EXCEPT !.mine = NewSession,
                          !.pc = IF q.kind = "settings" THEN "swap"
                                 ELSE "replace"]
<1>1. Sound(q) /\ q.pc = "spawn" BY DEF Spawn, At
<1>2. /\ NewSession \in Sessions /\ proc[NewSession] # "up"
      /\ \A u \in Tasks : task[u].mine # NewSession
      /\ NewSession # 0
  BY SessionIsNew, GateAssumption DEF Spawn
<1>3. /\ r.mine = NewSession /\ r.pc \in {"swap", "replace"}
      /\ r.kind = q.kind /\ r.key = q.key /\ r.rkey = q.rkey
      /\ r \in TaskRecord
  BY <1>1, <1>2, HoldPCs, SwapPCs DEF Sound, TaskRecord
<1>4. task' = Put(t, r) BY DEF Spawn
<1> HIDE DEF r, q
<1>7. q.pc \in LeaderPCs /\ q.mine = 0 /\ q.rkey = 0
  BY <1>1, LeadPCs DEF Sound, CarryPCs
<1>5. Sound(r) BY <1>1, <1>2, <1>3, <1>7, HoldPCs, SwapPCs DEF Sound
<1>6. task'[t] = r /\ Moves(t) BY <1>4, <1>5, PutIs
<1>8. GateIdle(t)
  BY <1>3, <1>6, <1>7 DEF GateIdle, Leads, Spawn, gates, q
<1>9. SwapIdle(t)
  BY <1>3, <1>6, <1>7 DEF SwapIdle, Replaces, Spawn, gates
<1>10. Tended(t)
  BY <1>2, <1>3, <1>6, <1>7 DEF Tended, Placed, Spawn, TypeOK, q
<1>11. RestTyped
  BY <1>2, CountTyped DEF Spawn, RestTyped, TypeOK, gates
<1> QED BY <1>6, <1>8, <1>9, <1>10, <1>11 DEF Advances

\* A call that carries a session goes on with it.
LEMMA HeldStep ==
  ASSUME TypeOK, NEW t \in Tasks, Sound(task[t]), task[t].pc \in CarryPCs,
         NEW r, Sound(r), task' = Put(t, r), r.key = task[t].key,
         Replaces(r) => Replaces(task[t]) /\ r.rkey = task[t].rkey,
         UNCHANGED gates
  PROVE  task'[t] = r /\ Moves(t) /\ GateIdle(t) /\ SwapIdle(t)
<1>1. task'[t] = r /\ Moves(t) BY PutIs
<1>2. task[t].pc \in LeaderPCs BY DEF CarryPCs, SwapKeyPCs, LeaderPCs
<1>3. GateIdle(t) BY <1>1, <1>2 DEF GateIdle, Leads, gates
<1>4. SwapIdle(t) BY <1>1 DEF SwapIdle, gates
<1> QED BY <1>1, <1>3, <1>4

\* The session a call carries stays with it while it moves to pc w.
Says(q, w, b) == [q EXCEPT !.pc = w, !.ok = b]
SawAndSays(q, w, s, b) == [q EXCEPT !.pc = w, !.seen = s, !.ok = b]

Carried(q, r, w) ==
  /\ Sound(r) /\ r.pc = w /\ r.mine = q.mine /\ r.key = q.key
  /\ r.rkey = q.rkey

LEMMA CarryIsSound ==
  ASSUME NEW q, Sound(q), q.pc \in CarryPCs, NEW w \in CarryPCs,
         NEW s \in Sessions \cup {0}, NEW b \in BOOLEAN,
         q.rkey = 0 \/ w \in SwapKeyPCs
  PROVE  /\ Carried(q, On(q, w), w)
         /\ Carried(q, Saw(q, w, s), w)
         /\ Carried(q, Says(q, w, b), w)
         /\ Carried(q, SawAndSays(q, w, s, b), w)
<1>1. w \in PCs /\ w \in KeyPCs /\ q \in TaskRecord
  BY DEF CarryPCs, SwapKeyPCs, PCs, KeyPCs, LeaderPCs, Sound
<1>2. ASSUME NEW r, \/ r = On(q, w) \/ r = Saw(q, w, s)
                    \/ r = Says(q, w, b) \/ r = SawAndSays(q, w, s, b)
      PROVE  /\ r \in TaskRecord /\ r.kind = q.kind /\ r.mine = q.mine
             /\ r.pc = w /\ r.key = q.key /\ r.rkey = q.rkey
  BY <1>1, <1>2 DEF TaskRecord, On, Saw, Says, SawAndSays
<1> QED BY <1>1, <1>2 DEF Sound, Carried

LEMMA CarriedIsUp ==
  ASSUME NEW q, Sound(q), q.pc \in CarryPCs
  PROVE  q.mine \in Sessions /\ q.mine # 0
BY DEF Sound, TaskRecord

\* A call that goes on with what it carries still replaces as it did.
LEMMA CarriedReplaces ==
  ASSUME NEW q, NEW r, NEW w, Carried(q, r, w),
         w \in ReplacerPCs => q.pc \in ReplacerPCs
  PROVE  Replaces(r) => Replaces(q) /\ r.rkey = q.rkey
BY DEF Carried, Replaces

LEMMA SubscribeSwapAdvances ==
  ASSUME TypeOK, NEW t \in Tasks, Sound(task[t]), SubscribeSwap(t)
  PROVE  Advances(t)
<1>1. /\ task[t].pc = "subscribeSwap" /\ task[t].pc \in CarryPCs
      /\ task' = Put(t, On(task[t], "listenSwap"))
  BY HoldPCs DEF SubscribeSwap, At, Goto, On
<1>2. PICK r : r = On(task[t], "listenSwap") OBVIOUS
<1>3. Carried(task[t], r, "listenSwap")
  BY <1>1, <1>2, CarryIsSound, HoldPCs
<1>4. task'[t] = r /\ Moves(t) /\ GateIdle(t) /\ SwapIdle(t)
  BY <1>1, <1>2, <1>3, HeldStep, HoldPCs, CarriedReplaces DEF SubscribeSwap, Carried
<1>5. Tended(t)
  BY <1>3, <1>4 DEF Tended, Placed, SubscribeSwap, Carried
<1>6. RestTyped BY DEF SubscribeSwap, RestTyped, TypeOK, gates, guard
<1> QED BY <1>4, <1>5, <1>6 DEF Advances

LEMMA YieldAdvances ==
  ASSUME TypeOK, NEW t \in Tasks, Sound(task[t]), Yield(t)
  PROVE  Advances(t)
<1>1. /\ task[t].pc \in CarryPCs /\ (registry # 0) \in BOOLEAN
      /\ task' = Put(t, Says(task[t], "dropMine", registry # 0))
  BY HoldPCs DEF Yield, At, Says
<1>2. PICK r : r = Says(task[t], "dropMine", registry # 0) OBVIOUS
<1>3. Carried(task[t], r, "dropMine")
  <2>1. task[t].rkey = 0 BY HoldPCs DEF Yield, At, Sound
  <2> QED BY <1>1, <1>2, <2>1, CarryIsSound, HoldPCs
<1>4. task'[t] = r /\ Moves(t) /\ GateIdle(t) /\ SwapIdle(t)
  BY <1>1, <1>2, <1>3, HeldStep, HoldPCs, CarriedReplaces DEF Yield, Carried
<1>5. /\ proc' \in [Sessions -> {"down", "up", "doomed"}] /\ Lowers
      /\ proc'[task[t].mine] # "up"
  BY <1>1, CarriedIsUp, DoomIs DEF Yield
<1>6. Tended(t)
  BY <1>3, <1>4, <1>5 DEF Tended, Placed, Yield, Carried, Lowers
<1>7. RestTyped BY <1>5 DEF Yield, RestTyped, TypeOK, gates, guard
<1> QED BY <1>4, <1>6, <1>7 DEF Advances

LEMMA DropMineAdvances ==
  ASSUME TypeOK, NEW t \in Tasks, Sound(task[t]), Placed(t), DropMine(t)
  PROVE  Advances(t)
<1> DEFINE q == task[t]
           r(b) == [q EXCEPT !.pc = "release", !.mine = 0, !.ok = b]
<1>1. Sound(q) /\ q.pc = "dropMine" /\ proc[q.mine] # "up"
  BY DEF DropMine, At, Placed
<1>2. /\ q.pc \in CarryPCs /\ q.pc \in LeaderPCs /\ q.ok \in BOOLEAN
      /\ q.rkey = 0
  BY <1>1, HoldPCs DEF Sound, TaskRecord
<1>3. \A b \in BOOLEAN :
        /\ Sound(r(b)) /\ r(b).pc = "release" /\ r(b).mine = 0
        /\ r(b).key = q.key
  BY <1>1, <1>2, LeadPCs DEF Sound, TaskRecord
<1>4. \E b \in BOOLEAN : task' = Put(t, r(b))
  <2>1. [q EXCEPT !.pc = "release", !.mine = 0] = r(q.ok)
    BY <1>1 DEF Sound, TaskRecord
  <2> QED BY <1>2, <2>1 DEF DropMine
<1>5. /\ proc' \in [Sessions -> {"down", "up", "doomed"}] /\ Lowers
  BY KillIs DEF DropMine
<1>6. q.mine \in Sessions BY <1>1, <1>2, CarriedIsUp
<1> HIDE DEF q, r
<1>7. PICK p : /\ task' = Put(t, p) /\ Sound(p) /\ p.pc = "release"
               /\ p.mine = 0 /\ p.key = q.key
  BY <1>3, <1>4
<1>8. task'[t] = p /\ Moves(t) BY <1>7, PutIs
<1>9. GateIdle(t)
  BY <1>2, <1>7, <1>8 DEF GateIdle, Leads, DropMine, gates, q
<1>10. SwapIdle(t)
  BY <1>7, <1>8, LeadPCs DEF SwapIdle, Replaces, DropMine, gates
<1>11. Tended(t)
  BY <1>1, <1>5, <1>6, <1>7, <1>8 DEF Tended, Placed, DropMine, Lowers, q
<1>12. RestTyped BY <1>5 DEF DropMine, RestTyped, TypeOK, gates, guard
<1> QED BY <1>8, <1>9, <1>10, <1>11, <1>12 DEF Advances

LEMMA SwapAdvances ==
  ASSUME TypeOK, NEW t \in Tasks, Sound(task[t]), Swap(t)
  PROVE  Advances(t)
<1>1. /\ task[t].pc \in CarryPCs /\ task[t].pc \in ReplacerPCs
      /\ registry \in Sessions \cup {0}
  BY SwapPCs DEF Swap, At, TypeOK
<1>2. task[t].mine \in Sessions /\ task[t].mine # 0
  BY <1>1, CarriedIsUp
<1>3. CASE registry = 0
  <2>1. /\ task' = Put(t, Says(task[t], "settle", TRUE)) /\ proc' = proc
        /\ registry' = task[t].mine
    BY <1>3 DEF Swap, Says
  <2>2. PICK r : r = Says(task[t], "settle", TRUE) OBVIOUS
  <2>3. Carried(task[t], r, "settle")
    BY <1>1, <2>2, CarryIsSound, SwapPCs
  <2>4. task'[t] = r /\ Moves(t) /\ GateIdle(t) /\ SwapIdle(t)
    BY <1>1, <2>1, <2>2, <2>3, HeldStep, CarriedReplaces DEF Swap, Carried
  <2>5. Tended(t)
    BY <1>3, <2>1, <2>3, <2>4 DEF Tended, Placed, Carried
  <2>6. RestTyped
    BY <1>2, <2>1 DEF Swap, RestTyped, TypeOK, gates, guard
  <2> QED BY <2>4, <2>5, <2>6 DEF Advances
<1>4. CASE registry # 0
  <2>1. /\ task' = Put(t, Saw(task[t], "killOld", registry))
        /\ proc' = Doom(registry) /\ registry' = task[t].mine
    BY <1>4 DEF Swap, Saw
  <2>2. PICK r : r = Saw(task[t], "killOld", registry) OBVIOUS
  <2>3. Carried(task[t], r, "killOld")
    BY <1>1, <2>2, CarryIsSound, SwapPCs
  <2>4. task'[t] = r /\ Moves(t) /\ GateIdle(t) /\ SwapIdle(t)
    BY <1>1, <2>1, <2>2, <2>3, HeldStep, CarriedReplaces DEF Swap, Carried
  <2>5. /\ proc' \in [Sessions -> {"down", "up", "doomed"}] /\ Lowers
        /\ proc'[registry] # "up"
    BY <1>1, <1>4, <2>1, DoomIs
  <2>6. Tended(t)
    BY <2>1, <2>3, <2>4, <2>5 DEF Tended, Placed, Carried, Lowers
  <2>7. RestTyped
    BY <1>2, <2>1, <2>5 DEF Swap, RestTyped, TypeOK, gates, guard
  <2> QED BY <2>4, <2>6, <2>7 DEF Advances
<1> QED BY <1>3, <1>4

LEMMA KillOldAdvances ==
  ASSUME TypeOK, NEW t \in Tasks, Sound(task[t]), Placed(t), KillOld(t)
  PROVE  Advances(t)
<1>1. /\ task[t].pc = "killOld" /\ task[t].pc \in CarryPCs
      /\ task[t].pc \in ReplacerPCs
  BY SwapPCs DEF KillOld, At
<1>2. \/ task' = Put(t, SawAndSays(task[t], "settle", 0, TRUE))
      \/ task' = Put(t, On(task[t], "rollback"))
  BY DEF KillOld, SawAndSays, On, Goto
<1>3. PICK r : \/ r = SawAndSays(task[t], "settle", 0, TRUE)
                  /\ task' = Put(t, r)
               \/ r = On(task[t], "rollback") /\ task' = Put(t, r)
  BY <1>2
<1>4. \/ Carried(task[t], r, "settle")
      \/ Carried(task[t], r, "rollback")
  BY <1>1, <1>3, CarryIsSound, SwapPCs
<1>5. task'[t] = r /\ Moves(t) /\ GateIdle(t) /\ SwapIdle(t)
  BY <1>1, <1>3, <1>4, HeldStep, CarriedReplaces DEF KillOld, Carried
<1>6. proc' \in [Sessions -> {"down", "up", "doomed"}] /\ Lowers
  BY KillIs DEF KillOld
<1>7. task[t].mine \in Sessions BY <1>1, CarriedIsUp
<1>8. Tended(t)
  BY <1>1, <1>4, <1>5, <1>6, <1>7
     DEF Tended, Placed, Carried, Lowers, KillOld
<1>9. RestTyped BY <1>6 DEF KillOld, RestTyped, TypeOK, gates, guard
<1> QED BY <1>5, <1>8, <1>9 DEF Advances

LEMMA RollbackAdvances ==
  ASSUME TypeOK, NEW t \in Tasks, Sound(task[t]), Rollback(t)
  PROVE  Advances(t)
<1>1. /\ task[t].pc \in CarryPCs /\ task[t].pc \in ReplacerPCs
      /\ task' = Put(t, Saw(task[t], "killNew", 0))
  BY SwapPCs DEF Rollback, At, Saw
<1>2. PICK r : r = Saw(task[t], "killNew", 0) OBVIOUS
<1>3. Carried(task[t], r, "killNew")
  BY <1>1, <1>2, CarryIsSound, SwapPCs
<1>4. task'[t] = r /\ Moves(t) /\ GateIdle(t) /\ SwapIdle(t)
  BY <1>1, <1>2, <1>3, HeldStep, CarriedReplaces DEF Rollback, Carried
<1>5. /\ proc' \in [Sessions -> {"down", "up", "doomed"}] /\ Lowers
      /\ proc'[task[t].mine] # "up"
  BY <1>1, CarriedIsUp, DoomIs DEF Rollback
<1>6. registry' \in Sessions \cup {0}
  BY DEF Rollback, TypeOK, TaskRecord
<1>7. registry' # registry => registry = task[t].mine BY DEF Rollback
<1>8. Tended(t)
  BY <1>3, <1>4, <1>5, <1>7 DEF Tended, Placed, Carried, Lowers
<1>9. RestTyped
  BY <1>5, <1>6 DEF Rollback, RestTyped, TypeOK, gates, guard
<1> QED BY <1>4, <1>8, <1>9 DEF Advances

LEMMA KillNewAdvances ==
  ASSUME TypeOK, NEW t \in Tasks, Sound(task[t]), Placed(t), KillNew(t)
  PROVE  Advances(t)
<1>1. /\ task[t].pc = "killNew" /\ task[t].pc \in CarryPCs
      /\ task[t].pc \in ReplacerPCs
      /\ task' = Put(t, On(task[t], "settle"))
  BY SwapPCs DEF KillNew, At, On, Goto
<1>2. PICK r : r = On(task[t], "settle") OBVIOUS
<1>3. Carried(task[t], r, "settle")
  BY <1>1, <1>2, CarryIsSound, SwapPCs
<1>4. task'[t] = r /\ Moves(t) /\ GateIdle(t) /\ SwapIdle(t)
  BY <1>1, <1>2, <1>3, HeldStep, CarriedReplaces DEF KillNew, Carried
<1>5. proc' \in [Sessions -> {"down", "up", "doomed"}] /\ Lowers
  BY KillIs DEF KillNew
<1>6. proc'[task[t].mine] # "up"
  BY <1>1, <1>5, CarriedIsUp DEF Placed, Lowers
<1>7. Tended(t)
  BY <1>3, <1>4, <1>5, <1>6 DEF Tended, Placed, Carried, Lowers, KillNew
<1>8. RestTyped BY <1>5 DEF KillNew, RestTyped, TypeOK, gates, guard
<1> QED BY <1>4, <1>7, <1>8 DEF Advances

LEMMA BeginReplacementAdvances ==
  ASSUME TypeOK, NEW t \in Tasks, Sound(task[t]), BeginReplacement(t)
  PROVE  Advances(t)
<1> DEFINE q == task[t]
           w(pc, k) == [q EXCEPT !.pc = pc, !.rkey = k]
<1>1. Sound(q) /\ q.pc = "replace" BY DEF BeginReplacement, At
<1>2. q.pc \in CarryPCs /\ q.pc \in LeaderPCs BY <1>1, HoldPCs
<1>3. ASSUME NEW pc \in {"swap", "subscribeSwap"}, NEW k \in Tickets \cup {0}
      PROVE  /\ Sound(w(pc, k)) /\ w(pc, k).pc = pc /\ w(pc, k).rkey = k
             /\ w(pc, k).mine = q.mine /\ w(pc, k).key = q.key
  BY <1>1, <1>2, HoldPCs, SwapPCs DEF Sound, TaskRecord
<1>4. \/ /\ replacing = 0 /\ FreeTickets # {} /\ replacing' = NewTicket
         /\ task' = Put(t, w("swap", NewTicket))
      \/ /\ replacing' = replacing
         /\ task' = Put(t, w("subscribeSwap", replacing))
  BY DEF BeginReplacement
<1>5. FreeTickets # {} => NewTicket \in Tickets
  BY TicketIsNew DEF NewOnes
<1>6. replacing \in Tickets \cup {0} BY DEF TypeOK
<1> HIDE DEF q, w
<1>7. PICK r : /\ task' = Put(t, r) /\ Sound(r)
               /\ r.mine = q.mine /\ r.key = q.key
               /\ \/ /\ replacing = 0 /\ replacing' \in Tickets
                     /\ r.rkey = replacing' /\ r.pc = "swap"
                  \/ replacing' = replacing /\ r.pc = "subscribeSwap"
  BY <1>3, <1>4, <1>5, <1>6
<1>8. task'[t] = r /\ Moves(t) BY <1>7, PutIs
<1>9. GateIdle(t)
  BY <1>2, <1>7, <1>8 DEF GateIdle, Leads, BeginReplacement, q
<1>10. SwapIdle(t) \/ SwapBegins(t)
  BY <1>7, <1>8, HoldPCs DEF SwapIdle, SwapBegins, Replaces
<1>11. Tended(t)
  BY <1>7, <1>8 DEF Tended, Placed, BeginReplacement, q
<1>12. RestTyped
  BY <1>6, <1>7 DEF BeginReplacement, RestTyped, TypeOK, guard
<1> QED BY <1>8, <1>9, <1>10, <1>11, <1>12 DEF Advances

LEMMA SettleAdvances ==
  ASSUME TypeOK, NEW t \in Tasks, Sound(task[t]), Placed(t), Settle(t)
  PROVE  Advances(t)
<1> DEFINE q == task[t]
           r == [q EXCEPT !.pc = "release", !.rkey = 0, !.mine = 0]
<1>1. Sound(q) /\ q.pc = "settle" BY DEF Settle, At
<1>2. /\ q.pc \in CarryPCs /\ q.pc \in LeaderPCs /\ q.pc \in ReplacerPCs
      /\ q.mine \in Sessions
  BY <1>1, SwapPCs, CarriedIsUp
<1>3. Sound(r) /\ r.pc = "release" /\ r.mine = 0 /\ r.key = q.key
  BY <1>1, <1>2, LeadPCs DEF Sound, TaskRecord
<1>4. \/ task' = Put(t, r) \/ task' = WakeReplacers(Put(t, r), replacing)
  BY DEF Settle
<1> HIDE DEF q, r
<1>5. task'[t] = r /\ Moves(t) BY <1>3, <1>4, PutIs, PutWakes
<1>6. GateIdle(t)
  BY <1>2, <1>3, <1>5 DEF GateIdle, Leads, Settle, q
<1>7. SwapIdle(t) \/ SwapEnds(t)
  <2>1. ~Replaces(task'[t]) BY <1>3, <1>5, LeadPCs DEF Replaces
  <2>2. CASE q.rkey # 0
    BY <1>2, <2>1, <2>2 DEF SwapEnds, Replaces, q
  <2>3. CASE q.rkey = 0
    <3>1. replacing' = replacing BY <2>3 DEF Settle, q
    <3> QED BY <2>1, <3>1 DEF SwapIdle
  <2> QED BY <2>2, <2>3
<1>8. proc[q.mine] = "up" => registry = q.mine
  BY <1>1 DEF Placed, q
<1>9. Tended(t)
  BY <1>2, <1>3, <1>5, <1>8 DEF Tended, Placed, Settle, q
<1>10. RestTyped BY DEF Settle, RestTyped, TypeOK, guard
<1> QED BY <1>5, <1>6, <1>7, <1>9, <1>10 DEF Advances

-----------------------------------------------------------------------------
(* The invariant and the theorems.                                         *)

LEMMA IdlesAdvances ==
  ASSUME NEW t \in Tasks, RestTyped, Moves(t), Idles(t) PROVE Advances(t)
BY IdleIsTended DEF Idles, Advances

LEMMA HolderAdvances ==
  ASSUME NEW t \in Tasks, RestTyped, Moves(t), SwapIdle(t), SessionsIdle(t),
         GateIdle(t) \/ GateBegins(t) \/ GateEnds(t)
  PROVE  Advances(t)
BY IdleIsTended DEF Advances

LEMMA StepAdvances ==
  ASSUME GateInv, NEW t \in Tasks, Step(t) PROVE Advances(t)
<1>1. TypeOK /\ Sound(task[t]) /\ Placed(t)
  BY DEF GateInv, CallsAreSound, SessionsArePlaced
<1>2. CASE \/ LookEmpty(t) \/ LookRejects(t) \/ LookFinds(t)
           \/ ProbeHealthy(t) \/ ProbeFails(t) \/ Admit(t) \/ Recovered(t)
  BY <1>1, <1>2, LookKeeps, IdlesAdvances
<1>3. CASE Subscribe(t) \/ WaitTimesOut(t) \/ Fail(t) \/ Quarantine(t)
  BY <1>1, <1>3, WaitKeeps, IdlesAdvances
<1>4. CASE BeginAcquire(t)
  BY <1>1, <1>4, BeginAcquireKeeps, HolderAdvances
<1>5. CASE TakeOver(t) BY <1>1, <1>5, TakeOverKeeps, HolderAdvances
<1>6. CASE SpawnFails(t) BY <1>1, <1>6, SpawnFailsKeeps, IdlesAdvances
<1>7. CASE SetupFails(t) BY <1>1, <1>7, SetupFailsKeeps, HolderAdvances
<1>8. CASE Release(t) BY <1>1, <1>8, ReleaseKeeps, HolderAdvances
<1>9. CASE Evict(t) BY <1>1, <1>9, EvictAdvances
<1>10. CASE KillEvicted(t) BY <1>1, <1>10, KillEvictedAdvances
<1>11. CASE Spawn(t) BY <1>1, <1>11, SpawnAdvances
<1>12. CASE BeginReplacement(t) BY <1>1, <1>12, BeginReplacementAdvances
<1>13. CASE SubscribeSwap(t) BY <1>1, <1>13, SubscribeSwapAdvances
<1>14. CASE Yield(t) BY <1>1, <1>14, YieldAdvances
<1>15. CASE DropMine(t) BY <1>1, <1>15, DropMineAdvances
<1>16. CASE Swap(t) BY <1>1, <1>16, SwapAdvances
<1>17. CASE KillOld(t) BY <1>1, <1>17, KillOldAdvances
<1>18. CASE Rollback(t) BY <1>1, <1>18, RollbackAdvances
<1>19. CASE KillNew(t) BY <1>1, <1>19, KillNewAdvances
<1>20. CASE Settle(t) BY <1>1, <1>20, SettleAdvances
<1> QED
  BY <1>2, <1>3, <1>4, <1>5, <1>6, <1>7, <1>8, <1>9, <1>10, <1>11, <1>12,
     <1>13, <1>14, <1>15, <1>16, <1>17, <1>18, <1>19, <1>20 DEF Step

LEMMA CallAdvances ==
  ASSUME GateInv, NEW t \in Tasks, NEW k \in Kinds, Call(t, k)
  PROVE  Advances(t)
BY CallKeeps, IdlesAdvances DEF GateInv, CallsAreSound

LEMMA StaysSound ==
  ASSUME TypeOK, NEW u \in Tasks, Sound(task[u]), Stays(u)
  PROVE  Sound(task'[u])
<1> DEFINE q == task[u]
<1>1. q.pc = "listen" => Sound([q EXCEPT !.pc = "look", !.key = 0])
  BY LookPCs, WaitPCs DEF CarryPCs, Sound, TaskRecord
<1>2. q.pc = "listenSwap" => Sound([q EXCEPT !.pc = "yield", !.rkey = 0])
  BY HoldPCs DEF Sound, TaskRecord
<1> QED BY <1>1, <1>2 DEF Stays

LEMMA AdvancesKeeps ==
  ASSUME GateInv, NEW t \in Tasks, Advances(t) PROVE GateInv'
<1>1. /\ RestTyped /\ Moves(t) /\ Tended(t)
      /\ GateIdle(t) \/ GateBegins(t) \/ GateEnds(t)
      /\ SwapIdle(t) \/ SwapBegins(t) \/ SwapEnds(t)
  BY DEF Advances
<1>2. TypeOK /\ CallsAreSound BY DEF GateInv
<1>3. TypeOK' BY <1>1 DEF TypeOK, RestTyped, Moves
<1>4. CallsAreSound'
  BY <1>1, <1>2, StaysSound DEF CallsAreSound, Moves
<1>5. SessionsArePlaced' BY <1>1, <1>2, SessionsKeep DEF GateInv
<1>6. TicketsAreApart' /\ GateIsItsLeaders'
  BY <1>1, <1>2, GateKeeps DEF GateInv
<1>7. OneReplaces'
  BY <1>1, <1>2, SwapKeeps DEF GateInv
<1> QED BY <1>3, <1>4, <1>5, <1>6, <1>7 DEF GateInv

\* Steps that no call takes.
Passes ==
  /\ UNCHANGED <<task, registry, replacing, overtaken>>
  /\ startup'.key = startup.key
  /\ Lowers
  /\ RestTyped

LEMMA PassesKeeps ==
  ASSUME GateInv, Passes PROVE GateInv'
<1>1. TypeOK' BY DEF GateInv, TypeOK, Passes, RestTyped
<1>2. CallsAreSound' BY DEF GateInv, CallsAreSound, Passes
<1>3. SessionsArePlaced'
  <2>1. NoProcessIsLost'
    BY DEF GateInv, SessionsArePlaced, NoProcessIsLost, Passes, Lowers
  <2>2. ASSUME NEW t \in Tasks PROVE Placed(t)'
    <3>1. Placed(t) BY DEF GateInv, SessionsArePlaced
    <3>2. task[t].pc \in {"dropMine", "killNew", "killOld", "settle"}
            => task[t].mine \in Sessions
      BY CarriedIsUp, HoldPCs, SwapPCs DEF GateInv, CallsAreSound
    <3> QED BY <3>1, <3>2 DEF Placed, Passes, Lowers
  <2> QED BY <2>1, <2>2 DEF SessionsArePlaced
<1>4. TicketsAreApart' BY DEF GateInv, TicketsAreApart, Passes, Leads
<1>5. GateIsItsLeaders' BY DEF GateInv, GateIsItsLeaders, Passes, Leads
<1>6. OneReplaces'
  BY DEF GateInv, OneReplaces, Passes
<1> QED BY <1>1, <1>2, <1>3, <1>4, <1>5, <1>6 DEF GateInv

LEMMA GateInvInit == Init => GateInv
<1> SUFFICES ASSUME Init PROVE GateInv OBVIOUS
<1>1. /\ \A t \in Tasks : task[t] = Idle
      /\ task \in [Tasks -> TaskRecord]
  BY IdleIsSound DEF Init, Sound
<1>2. TypeOK
  <2>1. startup \in [key : Tickets \cup {0}, stale : BOOLEAN]
    BY DEF Init, NoGate
  <2>2. recovery \in [failures : 0..MaxConsecutiveFailures,
                      quarantine : {"none", "active", "over"}]
    BY GateAssumption DEF Init, Clear
  <2>3. attempts \in 0..AttemptCap BY GateAssumption DEF Init
  <2> QED BY <1>1, <2>1, <2>2, <2>3 DEF Init, TypeOK
<1>3. CallsAreSound BY <1>1, IdleIsSound DEF CallsAreSound
<1>4. SessionsArePlaced
  BY <1>1 DEF Init, SessionsArePlaced, NoProcessIsLost, Placed, Idle
<1>5. \A t \in Tasks : ~Leads(t) BY <1>1 DEF Leads, Idle
<1>6. OneReplaces BY <1>1 DEF OneReplaces, Replaces, Idle
<1> QED
  BY <1>2, <1>3, <1>4, <1>5, <1>6
     DEF GateInv, TicketsAreApart, GateIsItsLeaders

LEMMA GateInvNext == GateInv /\ [Next]_vars => GateInv'
<1> SUFFICES ASSUME GateInv, [Next]_vars PROVE GateInv' OBVIOUS
<1>1. TypeOK BY DEF GateInv
<1>2. ASSUME NEW t \in Tasks, Step(t) PROVE GateInv'
  BY <1>2, StepAdvances, AdvancesKeeps
<1>3. ASSUME NEW t \in Tasks, NEW k \in Kinds, Call(t, k) PROVE GateInv'
  BY <1>3, CallAdvances, AdvancesKeeps
<1>4. ASSUME NEW s \in Sessions, Dies(s) PROVE GateInv'
  BY <1>1, <1>4, PassesKeeps
     DEF Dies, Passes, Lowers, RestTyped, TypeOK, gates, guard
<1>5. CASE GateAges
  BY <1>1, <1>5, PassesKeeps
     DEF GateAges, Passes, Lowers, RestTyped, TypeOK, guard
<1>6. CASE QuarantineEnds
  BY <1>1, <1>6, PassesKeeps
     DEF QuarantineEnds, Passes, Lowers, RestTyped, TypeOK, gates
<1>7. CASE GoesQuiet
  BY <1>1, <1>7, PassesKeeps
     DEF GoesQuiet, Passes, Lowers, RestTyped, TypeOK, gates, guard
<1>8. CASE UNCHANGED vars
  BY <1>1, <1>8, PassesKeeps DEF vars, Passes, Lowers, RestTyped, TypeOK
<1> QED BY <1>2, <1>3, <1>4, <1>5, <1>6, <1>7, <1>8 DEF Next

LEMMA GateInvAlways == Spec => []GateInv
BY GateInvInit, GateInvNext, PTL DEF Spec

\* Whatever the calls do and however they overlap, the maps keep their shape.
THEOREM GateTypeCorrect == Spec => []TypeOK
<1>1. GateInv => TypeOK BY DEF GateInv
<1> QED BY <1>1, GateInvAlways, PTL

\* A leader that nobody overtook owns the gate, for any number of calls: no
\* late release of a stale leader removes the gate of its successor.
THEOREM GateOwnership == Spec => []GateIsItsLeaders
<1>1. GateInv => GateIsItsLeaders BY DEF GateInv
<1> QED BY <1>1, GateInvAlways, PTL

\* Every process nobody told to stop is registered or in the hands of the
\* call that started it, for any number of calls and faults.
THEOREM GateNoProcessIsLost == Spec => []NoProcessIsLost
<1>1. GateInv => NoProcessIsLost BY DEF GateInv, SessionsArePlaced
<1> QED BY <1>1, GateInvAlways, PTL

\* Of the calls that replace through the gate one at a time stops the session
\* it replaced, whatever the replacement for workspace settings does beside it.
THEOREM GateOneStoppingPredecessor == Spec => []OneStoppingPredecessor
<1>1. GateInv => OneStoppingPredecessor
  BY SwapPCs DEF GateInv, OneReplaces, Replaces, OneStoppingPredecessor, At
<1> QED BY <1>1, GateInvAlways, PTL

\* A session that leaves the registry was told to stop, whichever of the calls
\* that overlap pushes it out.
THEOREM GateLeavesToBeStopped == Spec => LeavesToBeStopped
<1>1. ASSUME GateInv, [Next]_vars
      PROVE  [registry # 0 /\ registry' # registry
                => proc'[registry] # "up"]_vars
  <2>1. ASSUME NEW t \in Tasks, Step(t) \/ \E k \in Kinds : Call(t, k)
        PROVE  registry # 0 /\ registry' # registry
                 => proc'[registry] # "up"
    <3>1. Advances(t) BY <1>1, <2>1, StepAdvances, CallAdvances
    <3> QED BY <3>1 DEF Advances, Tended
  <2>2. CASE \/ \E s \in Sessions : Dies(s)
             \/ GateAges \/ QuarantineEnds \/ GoesQuiet
    BY <2>2 DEF Dies, GateAges, QuarantineEnds, GoesQuiet
  <2> QED BY <1>1, <2>1, <2>2 DEF Next
<1> QED BY <1>1, GateInvAlways, PTL DEF Spec, LeavesToBeStopped

-----------------------------------------------------------------------------
(* The recovery budget.  Each automatic spawn is paid for by a failure     *)
(* that is counted, or owed by a call that has spawned and will fail, or   *)
(* clear the record (Owing).  When the limit is reached the quarantine is  *)
(* written by the call that reached it, some time later: until then other  *)
(* calls are admitted, but that call is not one of them (Quarantining).    *)
(* From then on nobody is admitted, and those who were (Admitted) may      *)
(* spawn once each.                                                        *)

OwingPCs == CarryPCs \cup {"release", "recovered"}
AdmittedPCs == {"begin", "subscribe", "listen", "takeOver", "spawn"}

Owes(q) ==
  /\ q.kind = "reconnect"
  /\ q.pc \in OwingPCs \/ (q.pc = "fail" /\ q.next = "look")

IsAdmitted(q) ==
  /\ q.kind = "reconnect"
  /\ q.pc \in AdmittedPCs \/ (q.pc = "fail" /\ q.next = "takeOver")

Owing == {t \in Tasks : Owes(task[t])}
Admitted == {t \in Tasks : IsAdmitted(task[t])}
Quarantining == {t \in Tasks : At(t, "quarantine")}

BudgetInv ==
  /\ recovery.failures < MaxConsecutiveFailures
       => attempts <= recovery.failures + Cardinality(Owing)
  /\ recovery.failures = MaxConsecutiveFailures /\ recovery.quarantine = "none"
       => attempts < MaxConsecutiveFailures + Cardinality(Owing \cup Quarantining)
  /\ recovery.failures = MaxConsecutiveFailures /\ recovery.quarantine # "none"
       => attempts + Cardinality(Admitted)
            < MaxConsecutiveFailures + Cardinality(Tasks)

\* What the step of a call does to the budget when it neither spawns, nor
\* fails, nor touches the record.
Spares(q, r) ==
  /\ Owes(q) => Owes(r)
  /\ q.pc = "quarantine" => r.pc = "quarantine"
  /\ IsAdmitted(r) => IsAdmitted(q)

LEMMA BudgetPCs ==
  /\ \A w \in {"idle", "look", "probe", "evict", "killEvicted", "admit", "quarantine"} :
       w \notin OwingPCs /\ w \notin AdmittedPCs /\ w # "fail"
  /\ \A w \in OwingPCs : w \notin AdmittedPCs /\ w # "quarantine" /\ w # "fail"
  /\ \A w \in AdmittedPCs : w \notin OwingPCs /\ w # "quarantine" /\ w # "fail"
BY DEF OwingPCs, AdmittedPCs, CarryPCs, SwapKeyPCs, ReplacerPCs

LEMMA PutAt ==
  ASSUME TypeOK, NEW t \in Tasks, NEW r, task' = Put(t, r)
  PROVE  task'[t] = r
BY DEF TypeOK, Put

LEMMA WakeAt ==
  ASSUME TypeOK, NEW t \in Tasks, NEW r, NEW k, r.pc \notin {"listen", "listenSwap"},
         task' = WakeAcquirers(Put(t, r), k) \/ task' = WakeReplacers(Put(t, r), k)
  PROVE  task'[t] = r
<1> DEFINE f == Put(t, r)
<1>1. f[t] = r BY DEF TypeOK, Put
<1>2. task' = WakeAcquirers(f, k) \/ task' = WakeReplacers(f, k) OBVIOUS
<1> HIDE DEF f
<1> QED BY <1>1, <1>2 DEF WakeAcquirers, WakeReplacers

LEMMA OnIs ==
  ASSUME NEW q \in TaskRecord, NEW w
  PROVE  /\ On(q, w).kind = q.kind /\ On(q, w).pc = w /\ On(q, w).next = q.next
         /\ \A s : /\ Saw(q, w, s).kind = q.kind /\ Saw(q, w, s).pc = w
                   /\ Saw(q, w, s).next = q.next
         /\ Failed(q).kind = q.kind /\ Failed(q).pc = "fail" /\ Failed(q).next = "look"
BY DEF On, Saw, Failed, TaskRecord

\* A call that was not admitted, and owes nothing, is not admitted by the step.
LEMMA OutsideSpares ==
  ASSUME NEW q, NEW r,
         q.pc \in {"idle", "look", "probe", "evict", "killEvicted", "admit"},
         \/ r.pc \notin AdmittedPCs /\ (r.pc # "fail" \/ r.next = "look")
         \/ r.kind # "reconnect"
  PROVE  Spares(q, r)
<1>1. ~Owes(q) /\ q.pc # "quarantine" BY BudgetPCs DEF Owes
<1>2. ~IsAdmitted(r) BY DEF IsAdmitted
<1> QED BY <1>1, <1>2 DEF Spares

LEMMA LookSpares ==
  ASSUME TypeOK, NEW t \in Tasks,
         LookEmpty(t) \/ LookRejects(t) \/ LookFinds(t) \/ ProbeHealthy(t) \/ ProbeFails(t)
  PROVE  UNCHANGED guard /\ Spares(task[t], task'[t])
<1> DEFINE q == task[t]
<1>1. q \in TaskRecord /\ q.pc \in {"look", "probe"}
  BY DEF TypeOK, LookEmpty, LookRejects, LookFinds, ProbeHealthy, ProbeFails, At
<1>2. \/ task' = Put(t, Idle)
      \/ \E w \in {"admit", "evict", "probe", "recovered"} :
           task' = Put(t, On(q, w)) \/ task' = Put(t, Saw(q, w, registry))
      \/ q.kind # "reconnect" /\ task' = Put(t, On(q, "spawn"))
  BY DEF LookEmpty, LookRejects, LookFinds, ProbeHealthy, ProbeFails, Goto, Return, On, Saw
<1> HIDE DEF q
<1>3. \/ task'[t] = Idle
      \/ \E w \in {"admit", "evict", "probe", "recovered"} :
           task'[t] = On(q, w) \/ task'[t] = Saw(q, w, registry)
      \/ q.kind # "reconnect" /\ task'[t] = On(q, "spawn")
  BY <1>2, PutAt
<1>4. \/ task'[t].pc \in {"idle", "admit", "evict", "probe", "recovered"}
      \/ task'[t].kind # "reconnect"
  BY <1>1, <1>3, OnIs DEF Idle
<1>5. task'[t].pc \in {"idle", "admit", "evict", "probe", "recovered"}
        => task'[t].pc \notin AdmittedPCs /\ task'[t].pc # "fail"
  BY BudgetPCs DEF OwingPCs
<1>6. Spares(task[t], task'[t]) BY <1>1, <1>4, <1>5, OutsideSpares DEF q
<1>7. UNCHANGED guard
  BY DEF LookEmpty, LookRejects, LookFinds, ProbeHealthy, ProbeFails
<1> QED BY <1>6, <1>7

LEMMA EvictSpares ==
  ASSUME TypeOK, NEW t \in Tasks, Evict(t) \/ KillEvicted(t)
  PROVE  UNCHANGED guard /\ Spares(task[t], task'[t])
<1> DEFINE q == task[t]
<1>1. q \in TaskRecord /\ q.pc \in {"evict", "killEvicted"}
  BY DEF TypeOK, Evict, KillEvicted, At
<1>2. \/ task' = Put(t, Idle) \/ task' = Put(t, Failed(q))
      \/ task' = Put(t, Saw(q, "look", 0))
      \/ task' = Put(t, Saw(q, "killEvicted", registry))
  BY DEF Evict, KillEvicted, AfterEvict, Automatic, Return, Failed, Saw
<1> HIDE DEF q
<1>3. \/ task'[t] = Idle \/ task'[t] = Failed(q)
      \/ task'[t] = Saw(q, "look", 0)
      \/ task'[t] = Saw(q, "killEvicted", registry)
  BY <1>2, PutAt
<1>4. \/ task'[t].pc \in {"idle", "look", "killEvicted"}
      \/ task'[t].pc = "fail" /\ task'[t].next = "look"
  BY <1>1, <1>3, OnIs DEF Idle
<1>5. "fail" \notin AdmittedPCs BY BudgetPCs
<1>6. Spares(task[t], task'[t]) BY <1>1, <1>4, <1>5, BudgetPCs, OutsideSpares DEF q
<1>7. UNCHANGED guard BY DEF Evict, KillEvicted
<1> QED BY <1>6, <1>7

\* An admitted call on its way to the gate.
LEMMA WaitSpares ==
  ASSUME TypeOK, NEW t \in Tasks,
         BeginAcquire(t) \/ Subscribe(t) \/ WaitTimesOut(t) \/ TakeOver(t)
  PROVE  UNCHANGED guard /\ Spares(task[t], task'[t])
<1> DEFINE q == task[t]
<1>1. q \in TaskRecord /\ q.pc \in {"begin", "subscribe", "listen", "takeOver"}
  BY DEF TypeOK, BeginAcquire, Subscribe, WaitTimesOut, TakeOver, At
<1>2. q.pc \in AdmittedPCs BY <1>1 DEF AdmittedPCs
<1>3. task'[t].kind = q.kind
  <2>1. \E r \in {[q EXCEPT !.pc = "spawn", !.key = NewTicket],
                  [q EXCEPT !.pc = "subscribe", !.key = startup.key],
                  [q EXCEPT !.pc = "fail", !.next = "takeOver"],
                  [q EXCEPT !.pc = "look", !.key = 0], On(q, "listen")} :
          /\ r.pc \notin {"listenSwap"}
          /\ \/ task' = Put(t, r)
             \/ r.pc # "listen" /\ task' = WakeAcquirers(Put(t, r), startup.key)
    BY <1>1 DEF BeginAcquire, Subscribe, WaitTimesOut, TakeOver, Leader, Goto, On, TaskRecord
  <2> HIDE DEF q
  <2>2. PICK r : /\ r.kind = q.kind /\ r.pc \notin {"listenSwap"}
                 /\ \/ task' = Put(t, r)
                    \/ r.pc # "listen" /\ task' = WakeAcquirers(Put(t, r), startup.key)
    BY <1>1, <2>1 DEF TaskRecord, On
  <2> QED BY <2>2, PutAt, WakeAt
<1>4. ~Owes(q) /\ q.pc # "quarantine" BY <1>1, <1>2, BudgetPCs DEF Owes
<1>5. IsAdmitted(task'[t]) => IsAdmitted(q) BY <1>2, <1>3 DEF IsAdmitted
<1>6. UNCHANGED guard
  BY DEF BeginAcquire, Subscribe, WaitTimesOut, TakeOver
<1> QED BY <1>4, <1>5, <1>6 DEF Spares

\* A call on its way from the spawn to its result.
LEMMA CarrySpares ==
  ASSUME TypeOK, NEW t \in Tasks,
         \/ BeginReplacement(t) \/ SubscribeSwap(t) \/ Yield(t) \/ DropMine(t)
         \/ Swap(t) \/ KillOld(t) \/ Rollback(t) \/ KillNew(t) \/ Settle(t)
  PROVE  UNCHANGED guard /\ Spares(task[t], task'[t])
<1> DEFINE q == task[t]
           W == {"swap", "subscribeSwap", "listenSwap", "dropMine", "release",
                 "settle", "killOld", "rollback", "killNew"}
<1>1. q \in TaskRecord /\ q.pc \in CarryPCs
  BY HoldPCs, SwapPCs
     DEF TypeOK, BeginReplacement, SubscribeSwap, Yield, DropMine, Swap, KillOld,
         Rollback, KillNew, Settle, At
<1>2. task'[t].kind = q.kind /\ task'[t].pc \in W
  <2>1. ASSUME NEW w \in W, NEW r,
               \/ r = On(q, w) \/ \E x : r = [q EXCEPT !.pc = w, !.rkey = x]
               \/ \E x : r = [q EXCEPT !.pc = w, !.ok = x]
               \/ \E x : r = [q EXCEPT !.pc = w, !.mine = x]
               \/ \E x, y : r = [q EXCEPT !.pc = w, !.mine = x, !.ok = y]
               \/ \E x : r = [q EXCEPT !.pc = w, !.seen = x]
               \/ \E x, y : r = [q EXCEPT !.pc = w, !.seen = x, !.ok = y],
               task' = Put(t, r)
        PROVE  task'[t].kind = q.kind /\ task'[t].pc \in W
    <3>1. r.kind = q.kind /\ r.pc = w
      BY <1>1, <2>1 DEF On, TaskRecord
    <3> QED BY <2>1, <3>1, PutAt
  <2>2. CASE BeginReplacement(t) \/ SubscribeSwap(t) \/ Yield(t)
    BY <2>1, <2>2 DEF BeginReplacement, SubscribeSwap, Yield, Goto, On
  <2>3. CASE \/ DropMine(t) \/ Swap(t) \/ KillOld(t) \/ Rollback(t) \/ KillNew(t)
    BY <2>1, <2>3 DEF DropMine, Swap, KillOld, Rollback, KillNew, Goto, On
  <2>4. CASE Settle(t)
    <3> DEFINE r == [q EXCEPT !.pc = "release", !.rkey = 0, !.mine = 0]
    <3>1. r.kind = q.kind /\ r.pc = "release" BY <1>1 DEF TaskRecord
    <3>2. task' = Put(t, r) \/ task' = WakeReplacers(Put(t, r), replacing)
      BY <2>4 DEF Settle
    <3> HIDE DEF r
    <3>3. task'[t] = r BY <3>1, <3>2, PutAt, WakeAt
    <3> QED BY <3>1, <3>3
  <2> QED BY <2>2, <2>3, <2>4
<1>3. task'[t].pc \in OwingPCs /\ q.pc \in OwingPCs
  BY <1>1, <1>2 DEF OwingPCs, CarryPCs, SwapKeyPCs, ReplacerPCs
<1>4. Spares(q, task'[t])
  BY <1>2, <1>3, BudgetPCs DEF Spares, Owes, IsAdmitted
<1>5. UNCHANGED guard
  BY DEF BeginReplacement, SubscribeSwap, Yield, DropMine, Swap, KillOld,
         Rollback, KillNew, Settle
<1> QED BY <1>4, <1>5

LEMMA ReleaseSpares ==
  ASSUME TypeOK, NEW t \in Tasks, Release(t)
  PROVE  UNCHANGED guard /\ Spares(task[t], task'[t])
<1> DEFINE q == task[t]
           r1 == [q EXCEPT !.pc = "recovered", !.key = 0]
           r2 == [Idle EXCEPT !.kind = "reconnect", !.pc = "fail"]
<1>1. q \in TaskRecord /\ q.pc = "release" BY DEF TypeOK, Release, At
<1>2. /\ r1.kind = q.kind /\ r1.pc = "recovered"
      /\ r2.kind = "reconnect" /\ r2.pc = "fail" /\ r2.next = "look"
      /\ Idle.pc = "idle"
  BY <1>1 DEF TaskRecord, Idle
<1>3. \E r \in {r1, r2, Idle} :
        /\ r = r2 => q.kind = "reconnect"
        /\ r = Idle => q.kind # "reconnect"
        /\ task' = Put(t, r) \/ task' = WakeAcquirers(Put(t, r), startup.key)
  <2>1. Idle # r2 /\ Idle # r1 /\ r1 # r2 BY <1>2
  <2>2. \/ q.kind \in Acquirers /\ q.ok /\ AfterRelease(t) = Put(t, r1)
        \/ q.kind = "reconnect" /\ AfterRelease(t) = Put(t, r2)
        \/ q.kind # "reconnect" /\ AfterRelease(t) = Put(t, Idle)
    BY DEF AfterRelease, Automatic, Return
  <2>3. task' = AfterRelease(t) \/ task' = WakeAcquirers(AfterRelease(t), startup.key)
    BY DEF Release
  <2> HIDE DEF r1, r2, q
  <2> QED BY <2>1, <2>2, <2>3
<1> HIDE DEF q, r1, r2
<1>4. \/ task'[t] = r1
      \/ task'[t] = r2 /\ q.kind = "reconnect"
      \/ task'[t] = Idle /\ q.kind # "reconnect"
  BY <1>2, <1>3, PutAt, WakeAt
<1>5. Spares(q, task'[t])
  <2>1. q.pc # "quarantine" BY <1>1
  <2>2. Owes(q) => Owes(task'[t])
    BY <1>2, <1>4 DEF Owes, OwingPCs
  <2>3. ~IsAdmitted(task'[t])
    BY <1>2, <1>4 DEF IsAdmitted, AdmittedPCs
  <2> QED BY <2>1, <2>2, <2>3 DEF Spares
<1>6. UNCHANGED guard BY DEF Release
<1> QED BY <1>5, <1>6 DEF q

LEMMA SetupFailsSpares ==
  ASSUME TypeOK, NEW t \in Tasks, SetupFails(t)
  PROVE  UNCHANGED guard /\ Spares(task[t], task'[t])
<1>1. /\ task[t].pc = "spawn" /\ task[t].kind # "reconnect" /\ task'[t] = Idle
      /\ UNCHANGED guard
  BY PutAt DEF SetupFails, At, Return
<1> QED BY <1>1, BudgetPCs DEF Spares, Owes, IsAdmitted, Idle, AdmittedPCs

\* A spawn, or the failure of one, of an automatic call is counted: it was
\* admitted, and owes now.
LEMMA SpawnOwes ==
  ASSUME TypeOK, NEW t \in Tasks, Spawn(t) \/ SpawnFails(t)
  PROVE  \/ UNCHANGED guard /\ Spares(task[t], task'[t])
         \/ /\ UNCHANGED recovery /\ attempts' \in {attempts, attempts + 1}
            /\ IsAdmitted(task[t]) /\ Owes(task'[t])
<1> DEFINE q == task[t]
<1>1. q \in TaskRecord /\ q.pc = "spawn" BY DEF TypeOK, Spawn, SpawnFails, At
<1>2. /\ UNCHANGED recovery /\ attempts' = Count(t)
  BY DEF Spawn, SpawnFails
<1>3. CASE q.kind = "reconnect"
  <2>1. task'[t].kind = "reconnect" /\ task'[t].pc \in {"replace", "release"}
    <3>1. CASE Spawn(t)
      BY <1>1, <1>3, <3>1 DEF Spawn, TypeOK, Put, TaskRecord
    <3>2. CASE SpawnFails(t)
      <4>1. task' = Put(t, On(q, "release"))
        BY <1>3, <3>2 DEF SpawnFails, Acquirers, Goto, On
      <4>2. task'[t] = On(q, "release") BY <4>1, PutAt
      <4> QED BY <1>1, <1>3, <4>2, OnIs
    <3> QED BY <3>1, <3>2
  <2>2. Owes(task'[t]) BY <2>1 DEF Owes, OwingPCs, CarryPCs
  <2>3. IsAdmitted(q) BY <1>1, <1>3 DEF IsAdmitted, AdmittedPCs
  <2> QED BY <1>2, <2>2, <2>3 DEF Count
<1>4. CASE q.kind # "reconnect"
  <2>1. task'[t].kind # "reconnect"
    <3>1. CASE Spawn(t)
      BY <1>1, <1>4, <3>1 DEF Spawn, TypeOK, Put, TaskRecord
    <3>2. CASE SpawnFails(t)
      <4>1. task' = Put(t, Idle) \/ task' = Put(t, On(q, "release"))
        BY <3>2 DEF SpawnFails, Goto, Return, On
      <4>2. task'[t] = Idle \/ task'[t] = On(q, "release") BY <4>1, PutAt
      <4> QED BY <1>1, <1>4, <4>2, OnIs DEF Idle
    <3> QED BY <3>1, <3>2
  <2>2. attempts' = attempts BY <1>2, <1>4 DEF Count, Automatic
  <2>3. Spares(q, task'[t])
    BY <1>1, <1>4, <2>1 DEF Spares, Owes, IsAdmitted
  <2> QED BY <1>2, <2>2, <2>3 DEF guard
<1> QED BY <1>3, <1>4

LEMMA AdmitIs ==
  ASSUME TypeOK, NEW t \in Tasks, Admit(t)
  PROVE  \/ UNCHANGED guard /\ Spares(task[t], task'[t])
         \/ recovery' = Clear /\ attempts' = 0
         \/ UNCHANGED guard /\ recovery.quarantine = "none" /\ task[t].pc = "admit"
<1>1. task[t].pc = "admit" BY DEF Admit, At
<1>2. CASE Automatic(t) /\ recovery.quarantine = "active"
  <2>1. task'[t] = Idle /\ UNCHANGED guard BY <1>2, PutAt DEF Admit, Return
  <2>2. Idle.pc \notin AdmittedPCs /\ Idle.pc # "fail" BY BudgetPCs DEF Idle
  <2> QED BY <1>1, <2>1, <2>2, OutsideSpares
<1>3. CASE Automatic(t) /\ recovery.quarantine = "none"
  BY <1>1, <1>3 DEF Admit
<1>4. CASE ~(Automatic(t) /\ recovery.quarantine # "over")
  BY <1>4 DEF Admit
<1>5. recovery.quarantine \in {"none", "active", "over"} BY DEF TypeOK
<1> QED BY <1>2, <1>3, <1>4, <1>5

-----------------------------------------------------------------------------
(* Counting.                                                               *)

\* The other calls owe what they owed, stay where they write the quarantine,
\* and are admitted only if they were.
LEMMA OthersSpare ==
  ASSUME NEW t \in Tasks, Moves(t), TypeOK
  PROVE  /\ Owing \ {t} \subseteq Owing' /\ Quarantining \ {t} \subseteq Quarantining'
         /\ Admitted' \ {t} \subseteq Admitted
<1> SUFFICES ASSUME NEW u \in Tasks, u # t
             PROVE  Spares(task[u], task'[u])
  BY DEF Spares, Owing, Quarantining, Admitted, At
<1>1. Stays(u) /\ task[u] \in TaskRecord BY DEF Moves, TypeOK
<1>2. CASE task'[u] = task[u] BY <1>2 DEF Spares
<1>3. CASE /\ task[u].pc = "listen"
           /\ task'[u] = [task[u] EXCEPT !.pc = "look", !.key = 0]
  <2>1. task'[u].pc = "look" BY <1>1, <1>3 DEF TaskRecord
  <2> QED BY <1>3, <2>1 DEF Spares, Owes, IsAdmitted, OwingPCs, AdmittedPCs,
                           CarryPCs, SwapKeyPCs, ReplacerPCs
<1>4. CASE /\ task[u].pc = "listenSwap"
           /\ task'[u] = [task[u] EXCEPT !.pc = "yield", !.rkey = 0]
  <2>1. task'[u].pc = "yield" /\ task'[u].kind = task[u].kind
    BY <1>1, <1>4 DEF TaskRecord
  <2> QED BY <1>4, <2>1 DEF Spares, Owes, IsAdmitted, OwingPCs, AdmittedPCs,
                           CarryPCs, SwapKeyPCs, ReplacerPCs
<1> QED BY <1>1, <1>2, <1>3, <1>4 DEF Stays

\* A call is not both admitted and past its spawn.
LEMMA Apart ==
  /\ Admitted \cap (Owing \cup Quarantining) = {} /\ Owing \cap Quarantining = {}
  /\ Admitted \subseteq Tasks /\ Owing \subseteq Tasks /\ Quarantining \subseteq Tasks
BY BudgetPCs DEF Admitted, Owing, Quarantining, IsAdmitted, Owes, At

\* Cardinalities of parts of a finite set.
LEMMA Parts ==
  ASSUME NEW U, IsFiniteSet(U), NEW S \in SUBSET U, NEW T \in SUBSET U
  PROVE  /\ Cardinality(S) \in Nat /\ Cardinality(U) \in Nat
         /\ Cardinality(S) <= Cardinality(U)
         /\ S \subseteq T => Cardinality(S) <= Cardinality(T)
         /\ S \cap T = {} => Cardinality(S) + Cardinality(T) <= Cardinality(U)
         /\ \A x : S \ {x} \subseteq T => Cardinality(S) <= Cardinality(T) + 1
         /\ \A x \in T : S \subseteq T \ {x} => Cardinality(S) + 1 <= Cardinality(T)
<1>1. IsFiniteSet(S) /\ IsFiniteSet(T) /\ IsFiniteSet(U) BY FS_Subset
<1>2. /\ Cardinality(S) \in Nat /\ Cardinality(T) \in Nat /\ Cardinality(U) \in Nat
      /\ Cardinality(S) <= Cardinality(U)
  BY <1>1, FS_CardinalityType, FS_Subset
<1>3. S \subseteq T => Cardinality(S) <= Cardinality(T)
  BY <1>1, FS_Subset
<1>4. ASSUME S \cap T = {}
      PROVE  Cardinality(S) + Cardinality(T) <= Cardinality(U)
  <2>1. S \cup T \in SUBSET U OBVIOUS
  <2>2. Cardinality(S \cup T) <= Cardinality(U) BY <1>1, <2>1, FS_Subset
  <2>3. Cardinality(S \cup T) = Cardinality(S) + Cardinality(T) - Cardinality(S \cap T)
    BY <1>1, FS_Union
  <2>4. Cardinality(S \cap T) = 0 BY <1>4, FS_EmptySet
  <2> QED BY <1>2, <2>2, <2>3, <2>4
<1>5. ASSUME NEW x, S \ {x} \subseteq T
      PROVE  Cardinality(S) <= Cardinality(T) + 1
  <2>1. Cardinality(S \ {x}) <= Cardinality(T) BY <1>1, <1>5, FS_Subset
  <2>2. Cardinality(S \ {x}) = Cardinality(S) - 1 \/ Cardinality(S \ {x}) = Cardinality(S)
    BY <1>1, FS_RemoveElement
  <2> QED BY <1>2, <2>1, <2>2
<1>6. ASSUME NEW x \in T, S \subseteq T \ {x}
      PROVE  Cardinality(S) + 1 <= Cardinality(T)
  <2>1. IsFiniteSet(T \ {x}) /\ Cardinality(T \ {x}) = Cardinality(T) - 1
    BY <1>1, FS_RemoveElement
  <2>2. Cardinality(S) <= Cardinality(T \ {x}) BY <1>6, <2>1, FS_Subset
  <2> QED BY <1>2, <2>1, <2>2
<1> QED BY <1>2, <1>3, <1>4, <1>5, <1>6

\* The sets before and after a step, as parts of the calls.
LEMMA Counted ==
  ASSUME IsFiniteSet(Tasks)
  PROVE  /\ Admitted \in SUBSET Tasks /\ Owing \in SUBSET Tasks
         /\ Owing \cup Quarantining \in SUBSET Tasks
         /\ Admitted' \in SUBSET Tasks /\ Owing' \in SUBSET Tasks
         /\ (Owing \cup Quarantining)' \in SUBSET Tasks
BY DEF Admitted, Owing, Quarantining

LEMMA BudgetTypes ==
  ASSUME TypeOK
  PROVE  /\ attempts \in Nat /\ recovery.failures \in Nat
         /\ recovery.failures <= MaxConsecutiveFailures
         /\ MaxConsecutiveFailures \in Nat /\ MaxConsecutiveFailures > 0
BY GateAssumption DEF TypeOK

LEMMA SparingKeeps ==
  ASSUME IsFiniteSet(Tasks), TypeOK, BudgetInv, UNCHANGED <<recovery, attempts>>,
         Owing \subseteq Owing', Quarantining \subseteq Quarantining',
         Admitted' \subseteq Admitted \/ recovery.quarantine = "none"
  PROVE  BudgetInv'
<1> DEFINE O == Cardinality(Owing)  O2 == Cardinality(Owing')
           Q == Cardinality(Owing \cup Quarantining)
           Q2 == Cardinality((Owing \cup Quarantining)')
           A == Cardinality(Admitted)  A2 == Cardinality(Admitted')
           n == Cardinality(Tasks)
<1>1. /\ O \in Nat /\ O2 \in Nat /\ Q \in Nat /\ Q2 \in Nat /\ A \in Nat /\ A2 \in Nat
      /\ n \in Nat
  BY Counted, Parts
<1>2. O <= O2 BY Counted, Parts
<1>3. Q <= Q2
  <2>1. Owing \cup Quarantining \subseteq (Owing \cup Quarantining)' OBVIOUS
  <2> QED BY <2>1, Counted, Parts
<1>4. A2 <= A \/ recovery.quarantine = "none" BY Counted, Parts
<1>5. /\ recovery.failures < MaxConsecutiveFailures => attempts <= recovery.failures + O
      /\ recovery.failures = MaxConsecutiveFailures /\ recovery.quarantine = "none"
           => attempts < MaxConsecutiveFailures + Q
      /\ recovery.failures = MaxConsecutiveFailures /\ recovery.quarantine # "none"
           => attempts + A < MaxConsecutiveFailures + n
  BY DEF BudgetInv
<1> HIDE DEF O, O2, Q, Q2, A, A2, n
<1>6. /\ recovery.failures < MaxConsecutiveFailures => attempts <= recovery.failures + O2
      /\ recovery.failures = MaxConsecutiveFailures /\ recovery.quarantine = "none"
           => attempts < MaxConsecutiveFailures + Q2
      /\ recovery.failures = MaxConsecutiveFailures /\ recovery.quarantine # "none"
           => attempts + A2 < MaxConsecutiveFailures + n
  BY <1>1, <1>2, <1>3, <1>4, <1>5, BudgetTypes
<1> QED BY <1>6 DEF BudgetInv, O2, Q2, A2, n

LEMMA ClearKeeps ==
  ASSUME IsFiniteSet(Tasks), recovery' = Clear, attempts' = 0
  PROVE  BudgetInv'
<1>1. Cardinality(Owing') \in Nat BY Counted, Parts
<1>2. recovery'.failures = 0 /\ MaxConsecutiveFailures > 0
  BY GateAssumption DEF Clear
<1> QED BY <1>1, <1>2, GateAssumption DEF BudgetInv

LEMMA SpawningKeeps ==
  ASSUME IsFiniteSet(Tasks), TypeOK, BudgetInv, NEW t \in Tasks, Moves(t),
         UNCHANGED recovery, attempts' \in {attempts, attempts + 1},
         IsAdmitted(task[t]), Owes(task'[t])
  PROVE  BudgetInv'
<1> DEFINE O == Cardinality(Owing)  O2 == Cardinality(Owing')
           Q == Cardinality(Owing \cup Quarantining)
           Q2 == Cardinality((Owing \cup Quarantining)')
           A == Cardinality(Admitted)  A2 == Cardinality(Admitted')
           n == Cardinality(Tasks)
<1>1. /\ O \in Nat /\ O2 \in Nat /\ Q \in Nat /\ Q2 \in Nat /\ A \in Nat /\ A2 \in Nat
      /\ n \in Nat
  BY Counted, Parts
<1>2. /\ t \in Admitted /\ t \in Owing'
      /\ t \notin Owing /\ t \notin Quarantining
      /\ t \notin Admitted'
  <2>1. t \in Admitted /\ t \in Owing' BY DEF Admitted, Owing
  <2>2. Admitted' \cap Owing' = {}
    BY BudgetPCs DEF Admitted, Owing, IsAdmitted, Owes
  <2> QED BY <2>1, <2>2, Apart
<1>3. /\ Owing \ {t} \subseteq Owing' /\ Quarantining \ {t} \subseteq Quarantining'
      /\ Admitted' \ {t} \subseteq Admitted
  BY OthersSpare
<1>4. O + 1 <= O2
  <2>1. Owing \subseteq Owing' \ {t} BY <1>2, <1>3
  <2> QED BY <1>2, <2>1, Counted, Parts
<1>5. Q + 1 <= Q2
  <2>1. Owing \cup Quarantining \subseteq (Owing \cup Quarantining)' \ {t}
    BY <1>2, <1>3
  <2>2. t \in (Owing \cup Quarantining)' BY <1>2
  <2> QED BY <2>1, <2>2, Counted, Parts
<1>6. A2 + 1 <= A
  <2>1. Admitted' \subseteq Admitted \ {t} BY <1>2, <1>3
  <2> QED BY <1>2, <2>1, Counted, Parts
<1>7. /\ recovery.failures < MaxConsecutiveFailures => attempts <= recovery.failures + O
      /\ recovery.failures = MaxConsecutiveFailures /\ recovery.quarantine = "none"
           => attempts < MaxConsecutiveFailures + Q
      /\ recovery.failures = MaxConsecutiveFailures /\ recovery.quarantine # "none"
           => attempts + A < MaxConsecutiveFailures + n
  BY DEF BudgetInv
<1> HIDE DEF O, O2, Q, Q2, A, A2, n
<1>8. /\ recovery.failures < MaxConsecutiveFailures => attempts' <= recovery.failures + O2
      /\ recovery.failures = MaxConsecutiveFailures /\ recovery.quarantine = "none"
           => attempts' < MaxConsecutiveFailures + Q2
      /\ recovery.failures = MaxConsecutiveFailures /\ recovery.quarantine # "none"
           => attempts' + A2 < MaxConsecutiveFailures + n
  BY <1>1, <1>4, <1>5, <1>6, <1>7, BudgetTypes
<1> QED BY <1>8 DEF BudgetInv, O2, Q2, A2, n

LEMMA FailKeeps ==
  ASSUME IsFiniteSet(Tasks), TypeOK, BudgetInv, NEW t \in Tasks, Moves(t), Fail(t)
  PROVE  BudgetInv'
<1> DEFINE O == Cardinality(Owing)  O2 == Cardinality(Owing')
           Q == Cardinality(Owing \cup Quarantining)
           Q2 == Cardinality((Owing \cup Quarantining)')
           A == Cardinality(Admitted)  A2 == Cardinality(Admitted')
           n == Cardinality(Tasks)
           f == recovery.failures
           M == MaxConsecutiveFailures
<1>1. /\ O \in Nat /\ O2 \in Nat /\ Q \in Nat /\ Q2 \in Nat /\ A \in Nat /\ A2 \in Nat
      /\ n \in Nat
  BY Counted, Parts
<1>2. /\ f < M => attempts <= f + O
      /\ f = M /\ recovery.quarantine = "none" => attempts < M + Q
      /\ f = M /\ recovery.quarantine # "none" => attempts + A < M + n
  BY DEF BudgetInv
<1>3. /\ Owing \ {t} \subseteq Owing' /\ Quarantining \ {t} \subseteq Quarantining'
      /\ Admitted' \ {t} \subseteq Admitted
  BY OthersSpare
<1>4. f \in Nat /\ f <= M /\ M \in Nat /\ M > 0 /\ attempts \in Nat /\ attempts' = attempts
  BY BudgetTypes DEF Fail
<1>5. task[t].pc = "fail" /\ task[t] \in TaskRecord BY DEF Fail, At, TypeOK
<1>6. CASE f + 1 < M
  <2>1. recovery' = [failures |-> f + 1, quarantine |-> "none"]
    BY <1>4, <1>6 DEF Fail
  <2>2. recovery'.failures = f + 1 BY <2>1
  <2>3. O <= O2 + 1 BY <1>3, Counted, Parts
  <2> HIDE DEF O, O2, f, M
  <2>4. attempts' <= recovery'.failures + O2 /\ recovery'.failures # M
    BY <1>1, <1>2, <1>4, <1>6, <2>2, <2>3
  <2> QED BY <2>4 DEF BudgetInv, O2, M
<1>7. CASE ~(f + 1 < M)
  <2>1. /\ recovery' = [recovery EXCEPT !.failures = M]
        /\ task' = Put(t, On(task[t], "quarantine"))
    BY <1>4, <1>7 DEF Fail, Goto, On
  <2>2. recovery'.failures = M /\ recovery'.quarantine = recovery.quarantine
    BY <2>1 DEF TypeOK
  <2>3. task'[t].pc = "quarantine" BY <1>5, <2>1, PutAt, OnIs
  <2>4. t \in Quarantining' /\ t \notin Admitted' /\ t \notin Quarantining
    BY <1>5, <2>3, BudgetPCs DEF Quarantining, Admitted, IsAdmitted, At
  <2>5. O <= Q2 /\ Q <= Q2
    <3>1. Owing \cup Quarantining \subseteq (Owing \cup Quarantining)'
      BY <1>3, <2>4
    <3> QED BY <3>1, Counted, Parts
  <2>6. A2 <= A /\ A2 + O <= n
    <3>1. Admitted' \subseteq Admitted BY <1>3, <2>4
    <3>2. Admitted' \cap Owing = {} BY <3>1, Apart
    <3> QED BY <3>1, <3>2, Counted, Parts
  <2> HIDE DEF O, O2, Q, Q2, A, A2, n, f, M
  <2>7. f = M \/ f + 1 = M BY <1>4, <1>7
  <2>8. /\ recovery.quarantine = "none" => attempts' < M + Q2
        /\ recovery.quarantine # "none" => attempts' + A2 < M + n
    <3>1. CASE f = M BY <1>1, <1>2, <1>4, <2>5, <2>6, <3>1
    <3>2. CASE f + 1 = M BY <1>1, <1>2, <1>4, <2>5, <2>6, <3>2
    <3> QED BY <2>7, <3>1, <3>2
  <2> QED BY <1>4, <2>2, <2>8 DEF BudgetInv, Q2, A2, n, M
<1> QED BY <1>6, <1>7

LEMMA QuarantineKeeps ==
  ASSUME IsFiniteSet(Tasks), TypeOK, BudgetInv, NEW t \in Tasks, Moves(t), Quarantine(t)
  PROVE  BudgetInv'
<1> DEFINE O == Cardinality(Owing)  O2 == Cardinality(Owing')
           Q == Cardinality(Owing \cup Quarantining)
           A == Cardinality(Admitted)  A2 == Cardinality(Admitted')
           n == Cardinality(Tasks)
           f == recovery.failures
           M == MaxConsecutiveFailures
<1>1. O \in Nat /\ O2 \in Nat /\ Q \in Nat /\ A \in Nat /\ A2 \in Nat /\ n \in Nat
  BY Counted, Parts
<1>2. /\ f < M => attempts <= f + O
      /\ f = M /\ recovery.quarantine = "none" => attempts < M + Q
      /\ f = M /\ recovery.quarantine # "none" => attempts + A < M + n
  BY DEF BudgetInv
<1>3. /\ Owing \ {t} \subseteq Owing' /\ Admitted' \ {t} \subseteq Admitted
  BY OthersSpare
<1>4. f \in Nat /\ f <= M /\ M \in Nat /\ M > 0 /\ attempts \in Nat /\ attempts' = attempts
  BY BudgetTypes DEF Quarantine
<1>5. t \in Quarantining /\ task'[t] = Idle BY PutAt DEF Quarantine, Quarantining, Return
<1>6. t \notin Owing /\ t \notin Admitted'
  <2>1. t \notin Owing BY <1>5, Apart
  <2>2. t \notin Admitted' BY <1>5, BudgetPCs DEF Admitted, IsAdmitted, Idle
  <2> QED BY <2>1, <2>2
<1>7. O <= O2
  <2>1. Owing \subseteq Owing' BY <1>3, <1>6
  <2> QED BY <2>1, Counted, Parts
<1>8. A2 <= A /\ A2 + Q <= n
  <2>1. Admitted' \subseteq Admitted BY <1>3, <1>6
  <2>2. Admitted' \cap (Owing \cup Quarantining) = {} BY <2>1, Apart
  <2> QED BY <2>1, <2>2, Counted, Parts
<1>9. recovery'.failures = f /\ (f # 0 => recovery'.quarantine = "active")
  BY DEF Quarantine, TypeOK
<1> HIDE DEF O, O2, Q, A, A2, n, f, M
<1>10. /\ recovery'.failures < M => attempts' <= recovery'.failures + O2
       /\ recovery'.failures = M => recovery'.quarantine = "active"
       /\ recovery'.failures = M => attempts' + A2 < M + n
  BY <1>1, <1>2, <1>4, <1>7, <1>8, <1>9
<1> QED BY <1>10 DEF BudgetInv, O2, A2, n, M

LEMMA StepKeepsBudget ==
  ASSUME IsFiniteSet(Tasks), GateInv, BudgetInv, NEW t \in Tasks,
         Step(t) \/ \E k \in Kinds : Call(t, k)
  PROVE  BudgetInv'
<1>1. TypeOK BY DEF GateInv
<1>2. Moves(t) BY StepAdvances, CallAdvances DEF Advances
<1>3. /\ Owing \ {t} \subseteq Owing' /\ Quarantining \ {t} \subseteq Quarantining'
      /\ Admitted' \ {t} \subseteq Admitted
  BY <1>1, <1>2, OthersSpare
<1>4. ASSUME UNCHANGED guard, Spares(task[t], task'[t])
      PROVE  BudgetInv'
  <2>1. /\ Owing \subseteq Owing' /\ Quarantining \subseteq Quarantining'
        /\ Admitted' \subseteq Admitted
    BY <1>3, <1>4 DEF Spares, Owing, Quarantining, Admitted, At
  <2> QED BY <1>1, <1>4, <2>1, SparingKeeps DEF guard
<1>5. CASE \/ LookEmpty(t) \/ LookRejects(t) \/ LookFinds(t)
           \/ ProbeHealthy(t) \/ ProbeFails(t)
  BY <1>1, <1>4, <1>5, LookSpares
<1>6. CASE Evict(t) \/ KillEvicted(t) BY <1>1, <1>4, <1>6, EvictSpares
<1>7. CASE BeginAcquire(t) \/ Subscribe(t) \/ WaitTimesOut(t) \/ TakeOver(t)
  BY <1>1, <1>4, <1>7, WaitSpares
<1>8. CASE \/ BeginReplacement(t) \/ SubscribeSwap(t) \/ Yield(t) \/ DropMine(t)
           \/ Swap(t) \/ KillOld(t) \/ Rollback(t) \/ KillNew(t) \/ Settle(t)
  BY <1>1, <1>4, <1>8, CarrySpares
<1>9. CASE Release(t) BY <1>1, <1>4, <1>9, ReleaseSpares
<1>10. CASE SetupFails(t) BY <1>1, <1>4, <1>10, SetupFailsSpares
<1>11. CASE Spawn(t) \/ SpawnFails(t)
  BY <1>1, <1>2, <1>4, <1>11, SpawnOwes, SpawningKeeps
<1>12. CASE Admit(t)
  <2>1. ASSUME UNCHANGED guard, recovery.quarantine = "none", task[t].pc = "admit"
        PROVE  BudgetInv'
    <3>1. t \notin Owing /\ t \notin Quarantining
      BY <2>1, BudgetPCs DEF Owing, Owes, Quarantining, At
    <3>2. Owing \subseteq Owing' /\ Quarantining \subseteq Quarantining'
      BY <1>3, <3>1
    <3> QED BY <1>1, <2>1, <3>2, SparingKeeps DEF guard
  <2> QED BY <1>1, <1>4, <1>12, <2>1, AdmitIs, ClearKeeps
<1>13. CASE Recovered(t) BY <1>13, ClearKeeps DEF Recovered
<1>14. CASE Fail(t) BY <1>1, <1>2, <1>14, FailKeeps
<1>15. CASE Quarantine(t) BY <1>1, <1>2, <1>15, QuarantineKeeps
<1>16. ASSUME NEW k \in Kinds, Call(t, k) PROVE BudgetInv'
  <2>1. task[t].pc = "idle" /\ UNCHANGED guard BY <1>16 DEF Call, At
  <2>2. task'[t].pc \in {"look", "evict"}
    <3> DEFINE r == [task[t] EXCEPT !.kind = k,
                       !.pc = IF k = "stop" THEN "evict" ELSE "look"]
    <3>1. r.pc \in {"look", "evict"} BY <1>1 DEF TypeOK, TaskRecord
    <3>2. task' = Put(t, r) BY <1>16 DEF Call
    <3> HIDE DEF r
    <3> QED BY <1>1, <3>1, <3>2, PutAt
  <2>3. task'[t].pc \notin AdmittedPCs /\ task'[t].pc # "fail" BY <2>2, BudgetPCs
  <2> QED BY <1>4, <2>1, <2>3, OutsideSpares
<1> QED
  BY <1>5, <1>6, <1>7, <1>8, <1>9, <1>10, <1>11, <1>12, <1>13, <1>14, <1>15,
     <1>16 DEF Step

LEMMA BudgetInvInit == ASSUME IsFiniteSet(Tasks), Init PROVE BudgetInv
<1>1. Cardinality(Owing) \in Nat BY Counted, Parts
<1> QED BY <1>1, GateAssumption DEF Init, Clear, BudgetInv

LEMMA BudgetInvNext ==
  ASSUME IsFiniteSet(Tasks), GateInv, BudgetInv, [Next]_vars
  PROVE  BudgetInv'
<1>1. ASSUME NEW t \in Tasks, Step(t) \/ \E k \in Kinds : Call(t, k)
      PROVE  BudgetInv'
  BY <1>1, StepKeepsBudget
<1>2. ASSUME UNCHANGED <<task, attempts>>,
             recovery' = recovery \/ QuarantineEnds
      PROVE  BudgetInv'
  <2>1. Owing' = Owing /\ Quarantining' = Quarantining /\ Admitted' = Admitted
    BY <1>2 DEF Owing, Quarantining, Admitted, At
  <2>2. CASE recovery' = recovery
    BY <1>2, <2>1, <2>2 DEF BudgetInv
  <2>3. CASE QuarantineEnds
    <3>1. /\ recovery.quarantine = "active"
          /\ recovery'.quarantine = "over" /\ recovery'.failures = recovery.failures
      BY <2>3 DEF QuarantineEnds, GateInv, TypeOK
    <3> QED BY <1>2, <2>1, <3>1 DEF BudgetInv
  <2> QED BY <1>2, <2>2, <2>3
<1>3. CASE \/ \E s \in Sessions : Dies(s)
           \/ GateAges \/ QuarantineEnds \/ GoesQuiet \/ UNCHANGED vars
  BY <1>2, <1>3 DEF Dies, GateAges, QuarantineEnds, GoesQuiet, vars, guard, gates
<1> QED BY <1>1, <1>3 DEF Next

\* All automatic calls together spawn at most as often as the limit says, and
\* once more for each other call that was admitted before the quarantine: for
\* any limit, and any finite number of calls of any kinds.
THEOREM GateRetriesAreBounded ==
  ASSUME IsFiniteSet(Tasks)
  PROVE  Spec => []AutomaticRetriesAreBounded
<1>1. ASSUME GateInv, BudgetInv PROVE AutomaticRetriesAreBounded
  <2> DEFINE O == Cardinality(Owing)
             Q == Cardinality(Owing \cup Quarantining)
             A == Cardinality(Admitted)
             n == Cardinality(Tasks)
  <2>1. /\ O \in Nat /\ Q \in Nat /\ A \in Nat /\ n \in Nat /\ O <= n /\ Q <= n
    BY Counted, Parts
  <2>2. /\ recovery.failures < MaxConsecutiveFailures => attempts <= recovery.failures + O
        /\ recovery.failures = MaxConsecutiveFailures /\ recovery.quarantine = "none"
             => attempts < MaxConsecutiveFailures + Q
        /\ recovery.failures = MaxConsecutiveFailures /\ recovery.quarantine # "none"
             => attempts + A < MaxConsecutiveFailures + n
    BY <1>1 DEF BudgetInv
  <2> HIDE DEF O, Q, A, n
  <2>3. attempts <= MaxConsecutiveFailures + n - 1
    BY <1>1, <2>1, <2>2, BudgetTypes DEF GateInv
  <2> QED BY <2>3 DEF AutomaticRetriesAreBounded, n
<1>2. Init => BudgetInv BY BudgetInvInit
<1>3. GateInv /\ BudgetInv /\ [Next]_vars => BudgetInv' BY BudgetInvNext
<1> QED BY GateInvAlways, <1>1, <1>2, <1>3, PTL DEF Spec

=============================================================================
