----------------------------- MODULE RuntimeGate -----------------------------
(***************************************************************************)
(* How the calls that want, replace or stop the managed Codex runtime of   *)
(* one workspace share it: the acquire gate and the recovery guard of      *)
(* runtime/manager.rs, the replacement gate of                             *)
(* runtime/session_lifecycle.rs, and the loops of                          *)
(* codex/session_runtime.rs and shared/workspaces_core.rs that use them.   *)
(*                                                                         *)
(* The map of sessions, the two maps of gates and the recovery map are     *)
(* each behind a lock of their own that is never held across an await, so  *)
(* a step is one critical section.  A waiter of a gate first takes the     *)
(* gate's Notify and listens to it in a later step: notify_waiters wakes   *)
(* only those who listen already.                                          *)
(*                                                                         *)
(* Simplifications.                                                        *)
(*  - One (engine, workspace) key.                                         *)
(*  - Time is three facts: the gate is old enough to be taken over, the    *)
(*    quarantine is over, a wait has timed out.  The last may happen at    *)
(*    any point of the wait.                                               *)
(*  - The runtime row, the ledger and the executable registry, which       *)
(*    report on the runtime and decide none of these steps, are left out.  *)
(*  - A session is marked as being shut down in the step that takes it from *)
(*    the registry, or has it yield, and not just after: the mark is read   *)
(*    only of a session found in the registry.                              *)
(*  - A nonce is a number that no gate and no task holds, a session is a   *)
(*    number that nothing refers to and whose process was told to stop.    *)
(***************************************************************************)
EXTENDS Naturals, FiniteSets

CONSTANTS
  Tasks,                  \* concurrent tasks, each running one call at a time
  Kinds,                  \* the calls in use
  Sessions,               \* identities of sessions
  Tickets,                \* identities of gate entries (nonce and Notify)
  MaxConsecutiveFailures, \* RUNTIME_RECOVERY_MAX_CONSECUTIVE_FAILURES
  AttemptCap,             \* bound: automatic spawns counted in attempts
  Faults,                 \* what may fail
  MayGoQuiet              \* whether the world may stop calling and failing

AllKinds ==
  {"ensure",    \* ensure_codex_session
   "hookSafe",  \* the same, session hooks disabled: replaces what it finds
   "connect",   \* connect_workspace, explicit
   "reconnect", \* connect_workspace, automatic recovery
   "restart",   \* settings change or reload: replaces through the gate
   "settings",  \* workspace settings: replaces without the manager
   "stop"}      \* disconnect, release, eviction

ASSUME GateAssumption ==
  /\ Kinds \subseteq AllKinds
  /\ Sessions \subseteq Nat \ {0}
  /\ Tickets \subseteq Nat \ {0}
  /\ MaxConsecutiveFailures \in Nat \ {0}
  /\ AttemptCap \in Nat
  /\ Faults \subseteq {"probe", "kill", "spawn", "setup", "death", "slow"}
  /\ MayGoQuiet \in BOOLEAN

VARIABLES
  task,       \* the call each task runs, where it is and what it holds
  registry,   \* the session registered for the key, 0 when none
  proc,       \* what became of each session's process
  startup,    \* entry of startup_gates, its key 0 when absent
  replacing,  \* entry of replacement_gates, 0 when absent
  recovery,   \* entry of the recovery map, no failures when absent
  overtaken,  \* history: tickets taken over while their leader still works
  attempts,   \* history: automatic spawns since recovery was last cleared
  quiet       \* environment: no new call and no new fault from here on

vars == <<task, registry, proc, startup, replacing, recovery, overtaken,
          attempts, quiet>>
gates == <<startup, replacing, overtaken>>
guard == <<recovery, attempts>>

Acquirers == {"ensure", "hookSafe", "connect", "reconnect"}

Idle == [kind |-> "none", pc |-> "idle", key |-> 0, rkey |-> 0,
         mine |-> 0, seen |-> 0, ok |-> FALSE, next |-> "look"]
NoGate == [key |-> 0, stale |-> FALSE]
Clear == [failures |-> 0, quarantine |-> "none"]

Init ==
  /\ task = [t \in Tasks |-> Idle]
  /\ registry = 0
  /\ proc = [s \in Sessions |-> "down"]
  /\ startup = NoGate
  /\ replacing = 0
  /\ recovery = Clear
  /\ overtaken = {}
  /\ attempts = 0
  /\ quiet = FALSE

-----------------------------------------------------------------------------
At(t, where) == task[t].pc = where
Put(t, record) == [task EXCEPT ![t] = record]
Goto(t, where) == Put(t, [task[t] EXCEPT !.pc = where])
Return(t) == Put(t, Idle)
Automatic(t) == task[t].kind = "reconnect"
MayFail(fault) == fault \in Faults /\ ~quiet

\* stale_reuse_reason: a shutdown of the session was requested, or the end of
\* its process was noticed, which it need not have been.
StaleReuse(s) == proc[s] # "up"
MayPassAsFresh(s) == proc[s] # "doomed"

\* mark_shutdown_requested
Doom(s) == [proc EXCEPT ![s] = IF @ = "up" THEN "doomed" ELSE @]

\* terminate_workspace_session_process.  It may fail on a process that was
\* reaped before, and on one that does not die.
Kills(s) == proc' = [proc EXCEPT ![s] = "down"]
FailsToKill(s) ==
  /\ proc[s] = "down" \/ MayFail("kill")
  /\ UNCHANGED proc

HeldTickets == {task[t].key : t \in Tasks} \cup {task[t].rkey : t \in Tasks}
FreeTickets == Tickets \ (HeldTickets \cup {startup.key, replacing})
NewTicket == CHOOSE k \in FreeTickets : TRUE

FreeSessions ==
  {s \in Sessions : /\ proc[s] # "up"
                    /\ s # registry
                    /\ \A t \in Tasks : s \notin {task[t].mine, task[t].seen}}
NewSession == CHOOSE s \in FreeSessions : TRUE

\* notify_waiters: those who listen to k go on, with nothing to hold.
WakeAcquirers(tasks, k) ==
  [t \in Tasks |-> IF tasks[t].pc = "listen" /\ tasks[t].key = k
                     THEN [tasks[t] EXCEPT !.pc = "look", !.key = 0]
                     ELSE tasks[t]]
WakeReplacers(tasks, k) ==
  [t \in Tasks |-> IF tasks[t].pc = "listenSwap" /\ tasks[t].rkey = k
                     THEN [tasks[t] EXCEPT !.pc = "yield", !.rkey = 0]
                     ELSE tasks[t]]

\* Where a task replaces a session, and where it holds an acquire token.
ReplacerPCs == {"swap", "killOld", "rollback", "killNew", "settle"}
LeaderPCs == ReplacerPCs \cup {"spawn", "replace", "subscribeSwap",
                               "listenSwap", "yield", "dropMine", "release"}
Leads(t) == task[t].key # 0 /\ task[t].pc \in LeaderPCs

-----------------------------------------------------------------------------
Call(t, k) ==
  /\ ~quiet
  /\ At(t, "idle")
  /\ task' = Put(t, [task[t] EXCEPT !.kind = k,
                                    !.pc = IF k = "stop" THEN "evict"
                                                         ELSE "look"])
  /\ UNCHANGED <<registry, proc, gates, guard, quiet>>

\* The head of the loops: is there a session?
LookEmpty(t) ==
  /\ At(t, "look")
  /\ registry = 0
  /\ task' = IF task[t].kind \in Acquirers THEN Goto(t, "admit")
                                           ELSE Return(t)
  /\ UNCHANGED <<registry, proc, gates, guard, quiet>>

\* ensure_codex_session rejects a session that is being shut down; the
\* hook-safe form rejects any, or refuses while the session has active work.
LookRejects(t) ==
  /\ At(t, "look")
  /\ registry # 0
  /\ \/ /\ task[t].kind = "ensure"
        /\ StaleReuse(registry)
        /\ task' = Put(t, [task[t] EXCEPT !.pc = "evict", !.seen = registry])
     \/ /\ task[t].kind = "hookSafe"
        /\ task' \in {Goto(t, "evict"), Return(t)}
  /\ UNCHANGED <<registry, proc, gates, guard, quiet>>

LookFinds(t) ==
  /\ At(t, "look")
  /\ registry # 0
  /\ \/ /\ \/ task[t].kind \in {"connect", "reconnect"}
           \/ task[t].kind = "ensure" /\ MayPassAsFresh(registry)
        /\ task' = Put(t, [task[t] EXCEPT !.pc = "probe", !.seen = registry])
     \/ /\ task[t].kind \in {"restart", "settings"}
        /\ task' = Goto(t, "spawn")
  /\ UNCHANGED <<registry, proc, gates, guard, quiet>>

\* connect_workspace_core returns; ensure_codex_session records the success.
ProbeHealthy(t) ==
  /\ At(t, "probe")
  /\ proc[task[t].seen] # "down"
  /\ task' = IF task[t].kind = "ensure" THEN Goto(t, "recovered")
                                        ELSE Return(t)
  /\ UNCHANGED <<registry, proc, gates, guard, quiet>>

ProbeFails(t) ==
  /\ At(t, "probe")
  /\ proc[task[t].seen] = "up" => MayFail("probe")
  /\ task' = Goto(t, "evict")
  /\ UNCHANGED <<registry, proc, gates, guard, quiet>>

\* Where a call goes once the session it stopped is gone.
AfterEvict(t) ==
  CASE task[t].kind = "stop" -> Return(t)
    [] Automatic(t) -> Put(t, [task[t] EXCEPT !.pc = "fail", !.next = "look",
                                              !.seen = 0])
    [] OTHER -> Put(t, [task[t] EXCEPT !.pc = "look", !.seen = 0])

\* stop_workspace_session_with_source removes whatever is registered.
Evict(t) ==
  /\ At(t, "evict")
  /\ IF registry = 0
       THEN UNCHANGED proc /\ task' = AfterEvict(t)
       ELSE /\ task' = Put(t, [task[t] EXCEPT !.pc = "killEvicted",
                                              !.seen = registry])
            /\ proc' = Doom(registry)
  /\ registry' = 0
  /\ UNCHANGED <<gates, guard, quiet>>

KillEvicted(t) ==
  /\ At(t, "killEvicted")
  /\ \/ Kills(task[t].seen) /\ task' = AfterEvict(t)
     \/ /\ FailsToKill(task[t].seen)
        /\ task' = IF task[t].kind = "hookSafe" THEN Return(t)
                                                ELSE AfterEvict(t)
  /\ UNCHANGED <<registry, gates, guard, quiet>>

-----------------------------------------------------------------------------
(* The acquire gate.                                                       *)

\* An automatic call respects the quarantine, any other clears the record.
Admit(t) ==
  /\ At(t, "admit")
  /\ IF Automatic(t) /\ recovery.quarantine # "over"
       THEN /\ task' = IF recovery.quarantine = "active" THEN Return(t)
                                                         ELSE Goto(t, "begin")
            /\ UNCHANGED guard
       ELSE /\ task' = Goto(t, "begin")
            /\ recovery' = Clear
            /\ attempts' = 0
  /\ UNCHANGED <<registry, proc, gates, quiet>>

Leader(t) == Put(t, [task[t] EXCEPT !.pc = "spawn", !.key = NewTicket])
NewGate ==
  /\ FreeTickets # {}
  /\ startup' = [key |-> NewTicket, stale |-> FALSE]

BeginAcquire(t) ==
  /\ At(t, "begin")
  /\ IF startup = NoGate
       THEN NewGate /\ task' = Leader(t)
       ELSE /\ task' = Put(t, [task[t] EXCEPT !.pc = "subscribe",
                                              !.key = startup.key])
            /\ UNCHANGED startup
  /\ UNCHANGED <<registry, proc, replacing, overtaken, guard, quiet>>

Subscribe(t) ==
  /\ At(t, "subscribe")
  /\ task' = Goto(t, "listen")
  /\ UNCHANGED <<registry, proc, gates, guard, quiet>>

WaitTimesOut(t) ==
  /\ At(t, "listen")
  /\ task' = Put(t, [task[t] EXCEPT !.pc = "fail", !.next = "takeOver"])
  /\ UNCHANGED <<registry, proc, gates, guard, quiet>>

\* Mutant: the waiter backs off and never takes the gate over.
TakeOverNever(t) ==
  /\ At(t, "takeOver")
  /\ task' = Put(t, [task[t] EXCEPT !.pc = "look", !.key = 0])
  /\ UNCHANGED <<registry, proc, gates, guard, quiet>>

TakeOver(t) ==
  /\ At(t, "takeOver")
  /\ IF startup.stale /\ startup.key = task[t].key
       THEN /\ NewGate
            /\ task' = WakeAcquirers(Leader(t), startup.key)
            /\ overtaken' =
                 IF \E u \in Tasks : Leads(u) /\ task[u].key = startup.key
                   THEN overtaken \cup {startup.key} ELSE overtaken
       ELSE /\ task' = Put(t, [task[t] EXCEPT !.pc = "look", !.key = 0])
            /\ UNCHANGED <<startup, overtaken>>
  /\ UNCHANGED <<registry, proc, replacing, guard, quiet>>

-----------------------------------------------------------------------------
(* The start of a process, by the leader of an acquire or by a restart.    *)

Count(t) ==
  IF Automatic(t) /\ attempts < AttemptCap THEN attempts + 1 ELSE attempts

Spawn(t) ==
  /\ At(t, "spawn")
  /\ FreeSessions # {}
  /\ proc' = [proc EXCEPT ![NewSession] = "up"]
  /\ task' = Put(t, [task[t] EXCEPT !.mine = NewSession,
                                    !.pc = IF task[t].kind = "settings"
                                            THEN "swap" ELSE "replace"])
  /\ attempts' = Count(t)
  /\ UNCHANGED <<registry, gates, recovery, quiet>>

SpawnFails(t) ==
  /\ At(t, "spawn")
  /\ MayFail("spawn") \/ FreeSessions = {}
  /\ task' = IF task[t].kind \in Acquirers THEN Goto(t, "release")
                                           ELSE Return(t)
  /\ attempts' = Count(t)
  /\ UNCHANGED <<registry, proc, gates, recovery, quiet>>

\* materialize_codex_provider_profile(..)? returns without finish_acquire.
SetupFails(t) ==
  /\ At(t, "spawn")
  /\ task[t].kind \in {"ensure", "hookSafe"}
  /\ MayFail("setup")
  /\ task' = Return(t)
  /\ overtaken' = overtaken \ {task[t].key}
  /\ UNCHANGED <<registry, proc, startup, replacing, guard, quiet>>

-----------------------------------------------------------------------------
(* The replacement of the registered session.                              *)

\* Mutant: the entry of another replacement is overwritten.
BeginReplacementAnyway(t) ==
  /\ At(t, "replace")
  /\ FreeTickets # {}
  /\ replacing' = NewTicket
  /\ task' = Put(t, [task[t] EXCEPT !.pc = "swap", !.rkey = NewTicket])
  /\ UNCHANGED <<registry, proc, startup, overtaken, guard, quiet>>

BeginReplacement(t) ==
  /\ At(t, "replace")
  /\ IF replacing = 0
       THEN /\ FreeTickets # {}
            /\ replacing' = NewTicket
            /\ task' = Put(t, [task[t] EXCEPT !.pc = "swap",
                                              !.rkey = NewTicket])
       ELSE /\ task' = Put(t, [task[t] EXCEPT !.pc = "subscribeSwap",
                                              !.rkey = replacing])
            /\ UNCHANGED replacing
  /\ UNCHANGED <<registry, proc, startup, overtaken, guard, quiet>>

\* note_guard_event(..).await comes before notify.notified().await.
SubscribeSwap(t) ==
  /\ At(t, "subscribeSwap")
  /\ task' = Goto(t, "listenSwap")
  /\ UNCHANGED <<registry, proc, gates, guard, quiet>>

\* Mutant: the waiter returns without stopping what it started.
YieldKeepsRunning(t) ==
  /\ At(t, "yield")
  /\ task' = Put(t, [task[t] EXCEPT !.pc = "release", !.ok = (registry # 0),
                                    !.mine = 0])
  /\ UNCHANGED <<registry, proc, gates, guard, quiet>>

\* A waiter that was woken keeps the session it finds and drops its own.
Yield(t) ==
  /\ At(t, "yield")
  /\ task' = Put(t, [task[t] EXCEPT !.pc = "dropMine", !.ok = (registry # 0)])
  /\ proc' = Doom(task[t].mine)
  /\ UNCHANGED <<registry, gates, guard, quiet>>

DropMine(t) ==
  /\ At(t, "dropMine")
  /\ \/ /\ Kills(task[t].mine)
        /\ task' = Put(t, [task[t] EXCEPT !.pc = "release", !.mine = 0])
     \/ /\ FailsToKill(task[t].mine)
        /\ task' = Put(t, [task[t] EXCEPT !.pc = "release", !.mine = 0,
                                          !.ok = FALSE])
  /\ UNCHANGED <<registry, gates, guard, quiet>>

\* The new session is registered before the old one is stopped.
Swap(t) ==
  /\ At(t, "swap")
  /\ registry' = task[t].mine
  /\ IF registry = 0
       THEN /\ task' = Put(t, [task[t] EXCEPT !.pc = "settle", !.ok = TRUE])
            /\ UNCHANGED proc
       ELSE /\ task' = Put(t, [task[t] EXCEPT !.pc = "killOld",
                                              !.seen = registry])
            /\ proc' = Doom(registry)
  /\ UNCHANGED <<gates, guard, quiet>>

KillOld(t) ==
  /\ At(t, "killOld")
  /\ \/ /\ Kills(task[t].seen)
        /\ task' = Put(t, [task[t] EXCEPT !.pc = "settle", !.seen = 0,
                                          !.ok = TRUE])
     \/ FailsToKill(task[t].seen) /\ task' = Goto(t, "rollback")
  /\ UNCHANGED <<registry, gates, guard, quiet>>

\* Mutant: the old session is restored over whatever is registered.
RollbackAnyway(t) ==
  /\ At(t, "rollback")
  /\ registry' = task[t].seen
  /\ proc' = Doom(task[t].mine)
  /\ task' = Put(t, [task[t] EXCEPT !.pc = "killNew", !.seen = 0])
  /\ UNCHANGED <<gates, guard, quiet>>

\* rollback_replaced_workspace_session restores the old session, unless the
\* registration changed again.
Rollback(t) ==
  /\ At(t, "rollback")
  /\ registry' = IF registry = task[t].mine THEN task[t].seen ELSE registry
  /\ proc' = Doom(task[t].mine)
  /\ task' = Put(t, [task[t] EXCEPT !.pc = "killNew", !.seen = 0])
  /\ UNCHANGED <<gates, guard, quiet>>

KillNew(t) ==
  /\ At(t, "killNew")
  /\ Kills(task[t].mine) \/ FailsToKill(task[t].mine)
  /\ task' = Goto(t, "settle")
  /\ UNCHANGED <<registry, gates, guard, quiet>>

\* finish_runtime_replacement, by a call that has the manager.
Settle(t) ==
  /\ At(t, "settle")
  /\ LET freed == Put(t, [task[t] EXCEPT !.pc = "release", !.rkey = 0,
                                         !.mine = 0])
         mine == task[t].rkey # 0 /\ replacing = task[t].rkey
     IN  /\ replacing' = IF mine THEN 0 ELSE replacing
         /\ task' = IF mine THEN WakeReplacers(freed, replacing) ELSE freed
  /\ UNCHANGED <<registry, proc, startup, overtaken, guard, quiet>>

\* finish_runtime_acquire, and what the call does with the result.
AfterRelease(t) ==
  IF task[t].kind \in Acquirers /\ task[t].ok
    THEN Put(t, [task[t] EXCEPT !.pc = "recovered", !.key = 0])
    ELSE IF Automatic(t)
           THEN Put(t, [Idle EXCEPT !.kind = "reconnect", !.pc = "fail"])
           ELSE Return(t)

\* Mutant: the gate entry is removed whoever's it is.
ReleaseAny(t) ==
  /\ At(t, "release")
  /\ startup' = IF task[t].key # 0 THEN NoGate ELSE startup
  /\ task' = WakeAcquirers(AfterRelease(t), startup.key)
  /\ overtaken' = overtaken \ {task[t].key}
  /\ UNCHANGED <<registry, proc, replacing, guard, quiet>>

Release(t) ==
  /\ At(t, "release")
  /\ LET mine == task[t].key # 0 /\ startup.key = task[t].key
     IN  /\ startup' = IF mine THEN NoGate ELSE startup
         /\ task' = IF mine THEN WakeAcquirers(AfterRelease(t), startup.key)
                            ELSE AfterRelease(t)
  /\ overtaken' = overtaken \ {task[t].key}
  /\ UNCHANGED <<registry, proc, replacing, guard, quiet>>

-----------------------------------------------------------------------------
(* The recovery guard.                                                     *)

\* record_recovery_success
Recovered(t) ==
  /\ At(t, "recovered")
  /\ recovery' = Clear
  /\ attempts' = 0
  /\ task' = Return(t)
  /\ UNCHANGED <<registry, proc, gates, quiet>>

\* Mutant: the count of failures is not limited.
FailUncapped(t) ==
  /\ At(t, "fail")
  /\ recovery' = [recovery EXCEPT !.failures = @ + 1]
  /\ task' = Goto(t, IF recovery.failures + 1 >= MaxConsecutiveFailures
                     THEN "quarantine" ELSE task[t].next)
  /\ UNCHANGED <<registry, proc, gates, attempts, quiet>>

\* record_recovery_failure counts the failure, then, having let go of the
\* lock, writes the quarantine; short of the limit the call backs off.
Fail(t) ==
  /\ At(t, "fail")
  /\ LET last == recovery.failures + 1 >= MaxConsecutiveFailures
     IN  /\ recovery' =
              IF last
                THEN [recovery EXCEPT !.failures = MaxConsecutiveFailures]
                ELSE [failures |-> recovery.failures + 1,
                      quarantine |-> "none"]
         /\ task' = Goto(t, IF last THEN "quarantine" ELSE task[t].next)
  /\ UNCHANGED <<registry, proc, gates, attempts, quiet>>

\* Mutant: the call that reaches the limit fails, and nothing is written.
QuarantineNobody(t) ==
  /\ At(t, "quarantine")
  /\ task' = Return(t)
  /\ UNCHANGED <<registry, proc, gates, guard, quiet>>

Quarantine(t) ==
  /\ At(t, "quarantine")
  /\ recovery' = IF recovery.failures = 0 THEN recovery
                 ELSE [recovery EXCEPT !.quarantine = "active"]
  /\ task' = Return(t)
  /\ UNCHANGED <<registry, proc, gates, attempts, quiet>>

-----------------------------------------------------------------------------
(* Time and the world.                                                     *)

\* The entry is three wait times old.  Without "slow" that happens only once
\* its leader is gone.
GateAges ==
  /\ startup # NoGate
  /\ ~startup.stale
  /\ \/ MayFail("slow")
     \/ ~\E t \in Tasks : Leads(t) /\ task[t].key = startup.key
  /\ startup' = [startup EXCEPT !.stale = TRUE]
  /\ UNCHANGED <<task, registry, proc, replacing, overtaken, guard, quiet>>

QuarantineEnds ==
  /\ recovery.quarantine = "active"
  /\ recovery' = [recovery EXCEPT !.quarantine = "over"]
  /\ UNCHANGED <<task, registry, proc, gates, attempts, quiet>>

Dies(s) ==
  /\ MayFail("death")
  /\ proc[s] = "up"
  /\ proc' = [proc EXCEPT ![s] = "down"]
  /\ UNCHANGED <<task, registry, gates, guard, quiet>>

GoesQuiet ==
  /\ MayGoQuiet
  /\ ~quiet
  /\ quiet' = TRUE
  /\ UNCHANGED <<task, registry, proc, gates, guard>>

Step(t) ==
  \/ LookEmpty(t) \/ LookRejects(t) \/ LookFinds(t)
  \/ ProbeHealthy(t) \/ ProbeFails(t) \/ Evict(t) \/ KillEvicted(t)
  \/ Admit(t) \/ BeginAcquire(t) \/ Subscribe(t) \/ WaitTimesOut(t)
  \/ TakeOver(t) \/ Spawn(t) \/ SpawnFails(t) \/ SetupFails(t)
  \/ BeginReplacement(t) \/ SubscribeSwap(t) \/ Yield(t) \/ DropMine(t)
  \/ Swap(t) \/ KillOld(t) \/ Rollback(t) \/ KillNew(t)
  \/ Settle(t) \/ Release(t) \/ Recovered(t) \/ Fail(t) \/ Quarantine(t)

Next ==
  \/ \E t \in Tasks : Step(t) \/ \E k \in Kinds : Call(t, k)
  \/ \E s \in Sessions : Dies(s)
  \/ GateAges \/ QuarantineEnds \/ GoesQuiet

Spec == Init /\ [][Next]_vars

\* A call is polled until it returns; every wait of it but that for a
\* replacement has a time limit; a gate grows old by itself.
FairSpec ==
  /\ Spec
  /\ \A t \in Tasks : WF_vars(Step(t))
  /\ WF_vars(GateAges)

-----------------------------------------------------------------------------
(* Properties.                                                             *)

PCs == LeaderPCs \cup
  {"idle", "look", "probe", "evict", "killEvicted", "admit", "begin",
   "subscribe", "listen", "takeOver", "recovered", "fail", "quarantine"}

TaskRecord ==
  [kind : AllKinds \cup {"none"}, pc : PCs,
   key : Tickets \cup {0}, rkey : Tickets \cup {0},
   mine : Sessions \cup {0}, seen : Sessions \cup {0},
   ok : BOOLEAN, next : {"look", "takeOver"}]

\* The state has the shape of the maps of the manager and of the sessions.
TypeOK ==
  /\ task \in [Tasks -> TaskRecord]
  /\ registry \in Sessions \cup {0}
  /\ proc \in [Sessions -> {"down", "up", "doomed"}]
  /\ startup \in [key : Tickets \cup {0}, stale : BOOLEAN]
  /\ replacing \in Tickets \cup {0}
  /\ recovery \in [failures : 0..MaxConsecutiveFailures,
                   quarantine : {"none", "active", "over"}]
  /\ overtaken \subseteq Tickets
  /\ attempts \in 0..AttemptCap
  /\ quiet \in BOOLEAN

\* The gate entry is that of the call that leads, unless a waiter found it
\* stale and took it over: a leader that comes back late does not remove the
\* gate of its successor, so at most one leader was not overtaken.
GateIsItsLeaders ==
  \A t \in Tasks : Leads(t) /\ task[t].key \notin overtaken
                     => startup.key = task[t].key

\* No process is lost: one that nobody told to stop is registered, or in the
\* hands of the call that started it, which will register or stop it.
NoProcessIsLost ==
  \A s \in Sessions :
    proc[s] = "up" => s = registry \/ \E t \in Tasks : task[t].mine = s

\* A session leaves the registry only to be stopped: neither a replacement nor
\* the rollback of one pushes out a session that another call registered and
\* leaves it running.
LeavesToBeStopped ==
  [][registry # 0 /\ registry' # registry => proc'[registry] # "up"]_vars

\* Of the calls that replace through the gate at most one is stopping the
\* session it replaced: there is a successor and one stopping predecessor
\* (begin_runtime_replacement).
OneStoppingPredecessor ==
  \A t, u \in Tasks :
    /\ At(t, "killOld") /\ task[t].rkey # 0
    /\ At(u, "killOld") /\ task[u].rkey # 0
    => t = u

\* The recovery budget holds for all automatic callers together: past the
\* limit only a call that was admitted before the quarantine may still spawn.
AutomaticRetriesAreBounded ==
  attempts <= MaxConsecutiveFailures + Cardinality(Tasks) - 1

\* Once nothing fails and nobody calls, every call under way returns.
CallsReturn == quiet ~> \A t \in Tasks : At(t, "idle")

=============================================================================
