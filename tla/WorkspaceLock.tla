---------------------------- MODULE WorkspaceLock ----------------------------
(***************************************************************************)
(* What the mutation lease promises its callers: one lock per workspace    *)
(* with a fencing number.  A lock that nobody has is granted under the     *)
(* next number, whoever has it works under that number, and has to stop    *)
(* before giving the lock back.  A restart of the program is no event of   *)
(* this specification: it must not be seen in the lock at all.             *)
(***************************************************************************)
EXTENDS Naturals

CONSTANTS Attempt, Workspace, WorkspaceOf, Nobody

VARIABLES
  holder,   \* who has the lock of each workspace
  number,   \* the number of the last grant
  working   \* the number under which an attempt works, 0: it does not

lockVars == <<holder, number, working>>

Init ==
  /\ holder = [w \in Workspace |-> Nobody]
  /\ number = [w \in Workspace |-> 0]
  /\ working = [a \in Attempt |-> 0]

Grant(a) ==
  LET w == WorkspaceOf[a] IN
  /\ holder[w] = Nobody
  /\ holder' = [holder EXCEPT ![w] = a]
  /\ number' = [number EXCEPT ![w] = @ + 1]
  /\ UNCHANGED working

Work(a) ==
  /\ holder[WorkspaceOf[a]] = a
  /\ working' = [working EXCEPT ![a] = number[WorkspaceOf[a]]]
  /\ UNCHANGED <<holder, number>>

Stop(a) ==
  /\ working' = [working EXCEPT ![a] = 0]
  /\ UNCHANGED <<holder, number>>

GiveBack(a) ==
  /\ holder[WorkspaceOf[a]] = a
  /\ working[a] = 0
  /\ holder' = [holder EXCEPT ![WorkspaceOf[a]] = Nobody]
  /\ UNCHANGED <<number, working>>

Next == \E a \in Attempt : Grant(a) \/ Work(a) \/ Stop(a) \/ GiveBack(a)

LockSpec == Init /\ [][Next]_lockVars

=============================================================================
