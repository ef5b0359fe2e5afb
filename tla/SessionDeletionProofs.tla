------------------------ MODULE SessionDeletionProofs ------------------------
(* Theorems about SessionDeletion, for every set of sessions, requests and *)
(* scans, every buffer and any number of restarts.                         *)
EXTENDS SessionDeletion, FiniteSetTheorems, SequenceTheorems, TLAPS

-----------------------------------------------------------------------------
(* The results kept for requests whose id is not known yet.                *)

LEMMA EarlyType ==
  ASSUME TypeOK
  PROVE  /\ early \in Seq(Request) /\ Len(early) \in Nat
         /\ DOMAIN early = 1 .. Len(early)
         /\ \A i \in DOMAIN early : early[i] \in Request
         /\ Len(early) <= BufferCap /\ BufferCap \in Nat \ {0}
<1>1. early \in Seq(Request) /\ Len(early) <= BufferCap
  BY Zenon DEF TypeOK
<1>2. QED BY <1>1, LenProperties, ElementOfSeq, DeletionAssumption

\* rememberEarlySettled keeps the buffer within its limit.
LEMMA RememberedType ==
  ASSUME TypeOK, NEW r \in Request
  PROVE  Remembered(r) \in Seq(Request) /\ Len(Remembered(r)) <= BufferCap
<1>1. /\ early \in Seq(Request) /\ Len(early) \in Nat
      /\ Len(early) <= BufferCap /\ BufferCap \in Nat \ {0}
  BY EarlyType
<1>2. CASE Len(early) >= BufferCap
  <2>1. early # <<>>
    BY <1>1, <1>2
  <2>2. Tail(early) \in Seq(Request) /\ Len(Tail(early)) = Len(early) - 1
    BY <1>1, <2>1
  <2>3. QED BY <1>1, <1>2, <2>2 DEF Remembered
<1>3. CASE ~(Len(early) >= BufferCap)
  BY <1>1, <1>3 DEF Remembered
<1>4. QED BY <1>2, <1>3

\* RemoveAt leaves the other elements in their order.
LEMMA RemoveAtIs ==
  ASSUME NEW S, NEW s \in Seq(S), NEW i \in 1 .. Len(s)
  PROVE  /\ RemoveAt(s, i) \in Seq(S)
         /\ Len(RemoveAt(s, i)) = Len(s) - 1
         /\ \A j \in 1 .. Len(s) - 1 :
              RemoveAt(s, i)[j] = s[IF j < i THEN j ELSE j + 1]
<1> DEFINE a == SubSeq(s, 1, i - 1)
           b == SubSeq(s, i + 1, Len(s))
<1>1. Len(s) \in Nat /\ \A j \in 1 .. Len(s) : s[j] \in S
  BY LenProperties, ElementOfSeq
<1>2. a \in Seq(S) /\ Len(a) = i - 1 /\ \A j \in 1 .. i - 1 : a[j] = s[j]
  BY <1>1
<1>3. /\ b \in Seq(S) /\ Len(b) = Len(s) - i
      /\ \A j \in 1 .. Len(s) - i : b[j] = s[i + j]
  BY <1>1
<1>4. RemoveAt(s, i) = a \o b
  BY DEF RemoveAt
<1> HIDE DEF a, b
<1>5. /\ a \o b \in Seq(S) /\ Len(a \o b) = Len(s) - 1
      /\ \A j \in 1 .. Len(s) - 1 :
           (a \o b)[j] = IF j <= i - 1 THEN a[j] ELSE b[j - (i - 1)]
  <2>1. /\ a \o b \in Seq(S) /\ Len(a \o b) = Len(a) + Len(b)
        /\ \A j \in 1 .. Len(a) + Len(b) :
             (a \o b)[j] = IF j <= Len(a) THEN a[j] ELSE b[j - Len(a)]
    BY <1>2, <1>3, ConcatProperties
  <2>2. Len(a) + Len(b) = Len(s) - 1
    BY <1>1, <1>2, <1>3
  <2>3. QED BY <1>2, <2>1, <2>2
<1>6. ASSUME NEW j \in 1 .. Len(s) - 1
      PROVE  (a \o b)[j] = s[IF j < i THEN j ELSE j + 1]
  <2>1. CASE j < i
    BY <1>1, <1>2, <1>5, <2>1
  <2>2. CASE ~(j < i)
    <3>1. j - (i - 1) \in 1 .. Len(s) - i /\ i + (j - (i - 1)) = j + 1
      BY <1>1, <2>2
    <3>2. b[j - (i - 1)] = s[i + (j - (i - 1))]
      BY <1>3, <3>1
    <3>3. QED BY <1>1, <1>5, <2>2, <3>1, <3>2
  <2>3. QED BY <2>1, <2>2
<1>7. QED BY <1>4, <1>5, <1>6

\* What is taken out of the buffer leaves the rest in its order.
LEMMA TakenOutIs ==
  ASSUME TypeOK, NEW r \in Request, Contains(early, r)
  PROVE  \E i \in DOMAIN early :
           /\ early[i] = r
           /\ TakenOut(r) \in Seq(Request)
           /\ Len(TakenOut(r)) = Len(early) - 1
           /\ \A j \in 1 .. Len(early) - 1 :
                TakenOut(r)[j] = early[IF j < i THEN j ELSE j + 1]
<1> DEFINE i == CHOOSE k \in DOMAIN early : early[k] = r
<1>1. /\ early \in Seq(Request) /\ Len(early) \in Nat
      /\ DOMAIN early = 1 .. Len(early)
  BY EarlyType
<1>2. i \in DOMAIN early /\ early[i] = r
  BY <1>1 DEF Contains
<1>3. TakenOut(r) = RemoveAt(early, i)
  BY DEF TakenOut
<1> HIDE DEF i
<1>4. i \in 1 .. Len(early)
  BY <1>1, <1>2
<1>5. /\ RemoveAt(early, i) \in Seq(Request)
      /\ Len(RemoveAt(early, i)) = Len(early) - 1
      /\ \A j \in 1 .. Len(early) - 1 :
           RemoveAt(early, i)[j] = early[IF j < i THEN j ELSE j + 1]
  BY <1>1, <1>4, RemoveAtIs
<1>6. QED BY <1>2, <1>3, <1>5
-----------------------------------------------------------------------------
(* Type correctness.                                                       *)

DiskType ==
  /\ row \in [Session -> {"none", "live", "marked"}]
  /\ file \in [Session -> {"gone", "empty", "prompt"}]
  /\ retries \in [Session -> 0 .. 2]
  /\ scan \in [Scan -> [step : {"idle", "read", "left out"},
                        rows : SUBSET Session, omitted : SUBSET Session]]
  /\ crashes \in 0 .. MaxCrashes

RunType ==
  /\ phase \in [Request -> {"idle", "resolving", "marking", "removing", "settled", "over"}]
  /\ marks \in [Request -> SUBSET Session] /\ left \in [Request -> SUBSET Session]
  /\ work \subseteq Removals
  /\ result \in [Request -> [Session -> Codes]]

WindowType ==
  /\ ui \in [Request -> {"idle", "asked", "waiting", "answered", "timed out", "closed"}]
  /\ event \in [Request -> {"none", "sent", "heard", "late"}]
  /\ early \in Seq(Request) /\ Len(early) <= BufferCap
  /\ told \subseteq Session

LEMMA TypeParts == TypeOK <=> DiskType /\ RunType /\ WindowType
BY Zenon DEF TypeOK, DiskType, RunType, WindowType

LEMMA ResultsType ==
  ASSUME RunType, NEW r \in Request, NEW S, NEW code \in Codes, Results(r, S, code)
  PROVE  result' \in [Request -> [Session -> Codes]]
BY DEF RunType, Results

LEMMA TypeInit == Init => TypeOK
<1> SUFFICES ASSUME Init PROVE TypeOK
  OBVIOUS
<1>1. DiskType
  BY DeletionAssumption DEF Init, DiskType, Written, Idle
<1>2. RunType
  BY DEF Init, RunType, Codes
<1>3. WindowType
  BY DeletionAssumption DEF Init, WindowType
<1>4. QED BY <1>1, <1>2, <1>3, TypeParts

LEMMA RetriesSet ==
  ASSUME retries \in [Session -> 0 .. 2], NEW s \in Session, NEW n \in 0 .. 2
  PROVE  [retries EXCEPT ![s] = n] \in [Session -> 0 .. 2]
OBVIOUS

LEMMA RetriesValues ==
  /\ \A n \in 0 .. 2 : n > 0 => n - 1 \in 0 .. 2
  /\ 0 \in 0 .. 2 /\ 2 \in 0 .. 2
OBVIOUS

LEMMA DiskTypeStep ==
  ASSUME DiskType, Next
  PROVE  DiskType'
<1> USE DEF disk, run, window, vars
<1>a. retries \in [Session -> 0 .. 2]
  BY DEF DiskType
<1>b. crashes \in 0 .. MaxCrashes /\ MaxCrashes \in Nat
  BY DeletionAssumption DEF DiskType
<1>1. ASSUME NEW r \in Request, RunStep(r)
      PROVE  DiskType'
  <2>1. CASE WriteMark(r)
    BY <2>1 DEF WriteMark, Marked, DiskType
  <2>2. CASE ~WriteMark(r)
    BY <1>1, <2>2 DEF RunStep, Resolve, MarkFails, StartRemovals, Settle, Panics, DiskType
  <2>3. QED BY <2>1, <2>2
<1>2. ASSUME NEW r \in Request, WindowStep(r)
      PROVE  DiskType'
  BY <1>2 DEF WindowStep, Ask, Identified, Hears, GivesUp, DiskType
<1>3. ASSUME NEW r \in Request, NEW s \in Session, RemovalStep(r, s)
      PROVE  DiskType'
  <2>1. CASE Removes(r, s)
    BY <2>1 DEF Removes, Gone, DiskType
  <2>2. CASE RemoveFails(r, s)
    <3>1. retries' \in [Session -> 0 .. 2]
      BY <1>a, <2>2, RetriesSet, RetriesValues DEF RemoveFails
    <3>2. QED BY <2>2, <3>1 DEF RemoveFails, DiskType
  <2>3. CASE RemoveTimesOut(r, s)
    BY <2>3 DEF RemoveTimesOut, DiskType
  <2>4. CASE RemovesLate(r, s)
    BY <2>4 DEF RemovesLate, DiskType
  <2>5. QED BY <1>3, <2>1, <2>2, <2>3, <2>4 DEF RemovalStep
<1>4. ASSUME NEW w \in Scan, ScanStep(w)
      PROVE  DiskType'
  <2>1. CASE Reads(w)
    BY <2>1 DEF Reads, DiskType
  <2>2. CASE LeavesOut(w)
    BY <2>2 DEF LeavesOut, DiskType
  <2>3. CASE Upserts(w)
    BY <2>3 DEF Upserts, Upserted, Idle, DiskType
  <2>4. QED BY <1>4, <2>1, <2>2, <2>3 DEF ScanStep
<1>5. ASSUME NEW s \in Session, SessionStep(s)
      PROVE  DiskType'
  <2>1. CASE RetryRemoves(s)
    <3>1. retries' \in [Session -> 0 .. 2]
      BY <1>a, <2>1, RetriesSet, RetriesValues DEF RetryRemoves
    <3>2. QED BY <2>1, <3>1 DEF RetryRemoves, Gone, DiskType
  <2>2. CASE RetryFails(s)
    <3>1. retries[s] \in 0 .. 2 /\ retries[s] > 0
      BY <1>a, <2>2 DEF RetryFails
    <3>2. retries[s] - 1 \in 0 .. 2
      BY <3>1, RetriesValues
    <3>3. retries' \in [Session -> 0 .. 2]
      BY <1>a, <2>2, <3>2, RetriesSet DEF RetryFails
    <3>4. QED BY <2>2, <3>3 DEF RetryFails, DiskType
  <2>3. CASE Writes(s)
    BY <2>3 DEF Writes, DiskType
  <2>4. QED BY <1>5, <2>1, <2>2, <2>3 DEF SessionStep
<1>6. CASE Crash
  <2>1. retries' \in [Session -> 0 .. 2] /\ crashes' \in 0 .. MaxCrashes
    <3>1. crashes + 1 \in 0 .. MaxCrashes
      BY <1>b, <1>6 DEF Crash
    <3>2. QED BY <1>6, <3>1, RetriesValues DEF Crash
  <2>2. scan' \in [Scan -> [step : {"idle", "read", "left out"},
                          rows : SUBSET Session, omitted : SUBSET Session]]
    BY <1>6 DEF Crash, Idle
  <2>3. QED BY <1>6, <2>1, <2>2 DEF Crash, DiskType
<1>7. QED BY <1>1, <1>2, <1>3, <1>4, <1>5, <1>6 DEF Next

LEMMA RunTypeStep ==
  ASSUME DiskType, RunType, Next
  PROVE  RunType'
<1> USE DEF RunType, disk, run, window, vars
<1>1. ASSUME NEW r \in Request, RunStep(r)
      PROVE  RunType'
  <2>1. CASE Resolve(r)
    <3>1. PICK found \in {{}, {s \in Targets[r] : row[s] # "none"}},
               busy \in SUBSET (Targets[r] \cap Daemon) :
            LET ghosts == (Targets[r] \cap Bare) \ found
                able == Targets[r] \ (ghosts \cup busy)
            IN /\ left' = [left EXCEPT ![r] = able]
               /\ marks' = [marks EXCEPT ![r] =
                              {s \in able \cup ghosts : ~(s \in found /\ row[s] = "marked")}]
               /\ result' = [result EXCEPT ![r] =
                               [s \in Session |-> IF s \in ghosts THEN "GHOST_CLEANED"
                                 ELSE IF s \in busy THEN "ENGINE_BUSY" ELSE "none"]]
      BY <2>1, Zenon DEF Resolve
    <3>2. Targets[r] \subseteq Session
      BY DeletionAssumption
    <3>3. left' \in [Request -> SUBSET Session] /\ marks' \in [Request -> SUBSET Session]
      BY <3>1, <3>2
    <3>4. result' \in [Request -> [Session -> Codes]]
      BY <3>1 DEF Codes
    <3>5. QED BY <2>1, <3>3, <3>4 DEF Resolve, Reached
  <2>2. CASE WriteMark(r)
    BY <2>2 DEF WriteMark
  <2>3. CASE MarkFails(r)
    <3>1. phase' \in [Request -> {"idle", "resolving", "marking", "removing", "settled", "over"}]
      BY <2>3 DEF MarkFails, Reached
    <3>2. QED BY <2>3, <3>1, ResultsType DEF MarkFails, Codes
  <2>4. CASE StartRemovals(r)
    <3>1. work' \subseteq Removals
      <4>1. work' = work \cup {Removal(r, s, FALSE) : s \in left[r]}
        BY <2>4 DEF StartRemovals
      <4>2. \A s \in left[r] : Removal(r, s, FALSE) \in Removals
        BY DEF Removal, Removals
      <4>3. QED BY <4>1, <4>2
    <3>2. QED BY <2>4, <3>1 DEF StartRemovals, Reached
  <2>5. CASE Settle(r)
    <3>1. phase' \in [Request -> {"idle", "resolving", "marking", "removing", "settled", "over"}]
      BY <2>5 DEF Settle, Reached
    <3>2. result' \in [Request -> [Session -> Codes]]
      BY <2>5, ResultsType DEF Settle, Codes
    <3>3. QED BY <2>5, <3>1, <3>2 DEF Settle
  <2>6. CASE Panics(r)
    BY <2>6 DEF Panics, Reached, Results, Codes, Removals
  <2>7. QED BY <1>1, <2>1, <2>2, <2>3, <2>4, <2>5, <2>6 DEF RunStep
<1>2. ASSUME NEW r \in Request, WindowStep(r)
      PROVE  RunType'
  BY <1>2 DEF WindowStep, Ask, Identified, Hears, GivesUp, Reached
<1>3. ASSUME NEW r \in Request, NEW s \in Session, RemovalStep(r, s)
      PROVE  RunType'
  <2>1. CASE Removes(r, s)
    BY <2>1 DEF Removes, Results, Codes
  <2>2. CASE RemoveFails(r, s)
    BY <2>2 DEF RemoveFails, Results, Codes
  <2>3. CASE RemoveTimesOut(r, s)
    <3>1. work' \subseteq Removals
      <4>1. Removal(r, s, TRUE) \in Removals
        BY DEF Removal, Removals
      <4>2. QED BY <2>3, <4>1 DEF RemoveTimesOut
    <3>2. result' \in [Request -> [Session -> Codes]]
      BY <2>3, ResultsType DEF RemoveTimesOut, Codes
    <3>3. QED BY <2>3, <3>1, <3>2 DEF RemoveTimesOut
  <2>4. CASE RemovesLate(r, s)
    BY <2>4 DEF RemovesLate
  <2>5. QED BY <1>3, <2>1, <2>2, <2>3, <2>4 DEF RemovalStep
<1>4. ASSUME NEW w \in Scan, ScanStep(w)
      PROVE  RunType'
  BY <1>4 DEF ScanStep, Reads, LeavesOut, Upserts
<1>5. ASSUME NEW s \in Session, SessionStep(s)
      PROVE  RunType'
  BY <1>5 DEF SessionStep, RetryRemoves, RetryFails, Writes
<1>6. CASE Crash
  BY <1>6 DEF Crash
<1>7. QED BY <1>1, <1>2, <1>3, <1>4, <1>5, <1>6 DEF Next

LEMMA WindowTypeStep ==
  ASSUME TypeOK, Next
  PROVE  WindowType'
<1> USE DEF disk, run, window, vars
<1>0. WindowType /\ RunType
  BY TypeParts
<1>1. ASSUME NEW r \in Request, RunStep(r)
      PROVE  WindowType'
  BY <1>0, <1>1 DEF RunStep, Resolve, WriteMark, MarkFails, StartRemovals, Settle, Panics,
                    WindowType
<1>2. ASSUME NEW r \in Request, Ask(r)
      PROVE  WindowType'
  BY <1>0, <1>2 DEF Ask, WindowType
<1>3. ASSUME NEW r \in Request, Identified(r)
      PROVE  WindowType'
  <2>1. Contains(early, r) => TakenOut(r) \in Seq(Request) /\ Len(TakenOut(r)) <= BufferCap
    <3>1. Len(early) \in Nat /\ Len(early) <= BufferCap /\ BufferCap \in Nat
      BY EarlyType
    <3>2. Contains(early, r) => TakenOut(r) \in Seq(Request) /\ Len(TakenOut(r)) = Len(early) - 1
      BY TakenOutIs
    <3>3. QED BY <3>1, <3>2
  <2>2. QED BY <1>0, <1>3, <2>1, DeletionAssumption DEF Identified, Answered, WindowType
<1>4. ASSUME NEW r \in Request, Hears(r)
      PROVE  WindowType'
  BY <1>0, <1>4, RememberedType, DeletionAssumption DEF Hears, Answered, WindowType
<1>5. ASSUME NEW r \in Request, GivesUp(r)
      PROVE  WindowType'
  BY <1>0, <1>5 DEF GivesUp, WindowType
<1>6. ASSUME NEW r \in Request, NEW s \in Session, RemovalStep(r, s)
      PROVE  WindowType'
  BY <1>0, <1>6 DEF RemovalStep, Removes, RemoveFails, RemoveTimesOut, RemovesLate, WindowType
<1>7. ASSUME NEW w \in Scan, ScanStep(w)
      PROVE  WindowType'
  BY <1>0, <1>7 DEF ScanStep, Reads, LeavesOut, Upserts, WindowType
<1>8. ASSUME NEW s \in Session, SessionStep(s)
      PROVE  WindowType'
  BY <1>0, <1>8 DEF SessionStep, RetryRemoves, RetryFails, Writes, WindowType
<1>9. CASE Crash
  <2>1. early' = <<>> /\ Len(early') = 0 /\ early' \in Seq(Request)
    <3>1. early' = <<>>
      BY <1>9, Zenon DEF Crash
    <3>2. <<>> \in Seq(Request) /\ Len(<<>>) = 0
      BY EmptySeq
    <3>3. QED BY <3>1, <3>2, Zenon
  <2>2. Len(early') <= BufferCap
    BY <2>1, DeletionAssumption
  <2>3. QED BY <1>0, <1>9, <2>1, <2>2 DEF Crash, WindowType
<1>10. QED BY <1>1, <1>2, <1>3, <1>4, <1>5, <1>6, <1>7, <1>8, <1>9 DEF Next, WindowStep

LEMMA TypeStep ==
  ASSUME TypeOK, [Next]_vars
  PROVE  TypeOK'
<1>1. CASE Next
  BY <1>1, TypeParts, DiskTypeStep, RunTypeStep, WindowTypeStep
     DEF TypeOK, DiskType, RunType, WindowType
<1>2. CASE UNCHANGED vars
  BY <1>2, Zenon DEF TypeOK, vars, disk, run, window
<1>3. QED BY <1>1, <1>2

\* Every variable keeps its type, for any sessions, requests, scans and bounds.
THEOREM DeletionTypeCorrect == Spec => []TypeOK
BY TypeInit, TypeStep, PTL DEF Spec

-----------------------------------------------------------------------------
(* The marker of a session that is kept.                                   *)

\* A scan never takes the row of such a session away: its transcript is never
\* without a prompt, so that no scan leaves the session out.
NeverLeftOut ==
  \A s \in Kept : file[s] # "empty" /\ \A w \in Scan : s \notin scan[w].omitted

\* A run that has no marker left to write for a session it is to remove found
\* the marker there or has written it.
MarkersWritten ==
  \A r \in Request : phase[r] = "marking" =>
    \A s \in Kept \cap left[r] : s \in marks[r] \/ row[s] = "marked"

\* Whatever removes a transcript, in time, late or again, and whatever counts
\* as a success, has the marker.
RemovalsMarked == \A m \in work : m.session \in Kept => row[m.session] = "marked"

RetriesMarked == \A s \in Kept : retries[s] # 0 => row[s] = "marked"

SuccessMarked ==
  \A r \in Request, s \in Kept : result[r][s] \in Success => row[s] = "marked"

MarkerInv ==
  /\ TypeOK
  /\ NeverLeftOut
  /\ MarkersWritten
  /\ RemovalsMarked
  /\ RetriesMarked
  /\ SuccessMarked
  /\ DeletedStaysHidden

LEMMA MarkerInit == Init => MarkerInv
<1> SUFFICES ASSUME Init PROVE MarkerInv
  OBVIOUS
<1>1. NeverLeftOut
  BY DEF Init, NeverLeftOut, Kept, Written, Idle
<1>2. MarkersWritten /\ RemovalsMarked /\ RetriesMarked /\ SuccessMarked
  BY DEF Init, MarkersWritten, RemovalsMarked, RetriesMarked, SuccessMarked, Success, Kept
<1>3. DeletedStaysHidden
  BY DEF Init, DeletedStaysHidden
<1>4. QED BY <1>1, <1>2, <1>3, TypeInit DEF MarkerInv

LEMMA NeverLeftOutStep ==
  ASSUME TypeOK, NeverLeftOut, Next
  PROVE  NeverLeftOut'
<1> USE DEF disk, run, window
<1>1. \A s \in Kept : s \in Session /\ file[s] # "empty" /\ \A w \in Scan : s \notin scan[w].omitted
  BY DEF NeverLeftOut, Kept
<1>2. /\ file \in [Session -> {"gone", "empty", "prompt"}]
      /\ scan \in [Scan -> [step : {"idle", "read", "left out"},
                           rows : SUBSET Session, omitted : SUBSET Session]]
  BY TypeParts DEF DiskType
<1>3. \A s \in Kept : file'[s] # "empty"
  <2>1. ASSUME NEW r \in Request, RunStep(r) \/ WindowStep(r)
        PROVE  UNCHANGED file
    BY <2>1 DEF RunStep, Resolve, WriteMark, MarkFails, StartRemovals, Settle, Panics,
                WindowStep, Ask, Identified, Hears, GivesUp
  <2>2. ASSUME NEW r \in Request, NEW s \in Session, RemovalStep(r, s)
        PROVE  file' \in {file, [file EXCEPT ![s] = "gone"]}
    BY <2>2 DEF RemovalStep, Removes, RemoveFails, RemoveTimesOut, RemovesLate, Gone
  <2>3. ASSUME NEW w \in Scan, ScanStep(w)
        PROVE  UNCHANGED file
    BY <2>3 DEF ScanStep, Reads, LeavesOut, Upserts
  <2>4. ASSUME NEW s \in Session, SessionStep(s)
        PROVE  \E f \in {"gone", "prompt", file[s]} : file' = [file EXCEPT ![s] = f]
    BY <1>2, <2>4 DEF SessionStep, RetryRemoves, RetryFails, Writes, Gone
  <2>5. Crash => UNCHANGED file
    BY DEF Crash
  <2>6. QED BY <1>1, <1>2, <2>1, <2>2, <2>3, <2>4, <2>5 DEF Next
<1>4. \A s \in Kept : \A w \in Scan : s \notin scan'[w].omitted
  <2>1. ASSUME NEW w \in Scan, ScanStep(w)
        PROVE  \A s \in Kept : \A v \in Scan : s \notin scan'[v].omitted
    <3>1. CASE Reads(w)
      BY <1>1, <1>2, <3>1 DEF Reads
    <3>2. CASE LeavesOut(w)
      BY <1>1, <1>2, <3>2 DEF LeavesOut
    <3>3. CASE Upserts(w)
      BY <1>1, <1>2, <3>3 DEF Upserts, Idle
    <3>4. QED BY <2>1, <3>1, <3>2, <3>3 DEF ScanStep
  <2>2. Crash => \A s \in Kept : \A v \in Scan : s \notin scan'[v].omitted
    BY DEF Crash, Idle
  <2>3. ASSUME NEW r \in Request, RunStep(r) \/ WindowStep(r)
        PROVE  UNCHANGED scan
    BY <2>3 DEF RunStep, Resolve, WriteMark, MarkFails, StartRemovals, Settle, Panics,
                WindowStep, Ask, Identified, Hears, GivesUp
  <2>4. ASSUME NEW r \in Request, NEW s \in Session, RemovalStep(r, s)
        PROVE  UNCHANGED scan
    BY <2>4 DEF RemovalStep, Removes, RemoveFails, RemoveTimesOut, RemovesLate
  <2>5. ASSUME NEW s \in Session, SessionStep(s)
        PROVE  UNCHANGED scan
    BY <2>5 DEF SessionStep, RetryRemoves, RetryFails, Writes
  <2>6. QED BY <1>1, <2>1, <2>2, <2>3, <2>4, <2>5 DEF Next
<1>5. QED BY <1>3, <1>4 DEF NeverLeftOut

\* No step takes the marker of a kept session away.
LEMMA MarkerStays ==
  ASSUME TypeOK, NeverLeftOut, Next, NEW t \in Kept, row[t] = "marked"
  PROVE  row'[t] = "marked"
<1> USE DEF disk, run, window
<1>1. row \in [Session -> {"none", "live", "marked"}] /\ t \in Session
  BY TypeParts DEF DiskType, Kept
<1>2. ASSUME NEW r \in Request, RunStep(r) \/ WindowStep(r)
      PROVE  row'[t] = "marked"
  BY <1>1, <1>2 DEF RunStep, Resolve, WriteMark, MarkFails, StartRemovals, Settle, Panics,
                    Marked, WindowStep, Ask, Identified, Hears, GivesUp
<1>3. ASSUME NEW r \in Request, NEW s \in Session, RemovalStep(r, s)
      PROVE  UNCHANGED row
  BY <1>3 DEF RemovalStep, Removes, RemoveFails, RemoveTimesOut, RemovesLate
<1>4. ASSUME NEW w \in Scan, ScanStep(w)
      PROVE  row'[t] = "marked"
  BY <1>1, <1>4 DEF ScanStep, Reads, LeavesOut, Upserts, Upserted, NeverLeftOut
<1>5. ASSUME NEW s \in Session, SessionStep(s)
      PROVE  UNCHANGED row
  BY <1>5 DEF SessionStep, RetryRemoves, RetryFails, Writes
<1>6. Crash => UNCHANGED row
  BY DEF Crash
<1>7. QED BY <1>2, <1>3, <1>4, <1>5, <1>6 DEF Next

\* The facts about markers that follow once markers stay.
MarkersStay == \A t \in Kept : row[t] = "marked" => row'[t] = "marked"

LEMMA MarkersWrittenStep ==
  ASSUME MarkerInv, MarkersStay, Next
  PROVE  MarkersWritten'
<1> USE DEF disk, run, window, MarkersStay
<1>1. /\ row \in [Session -> {"none", "live", "marked"}] /\ Kept \subseteq Session
      /\ phase \in [Request -> {"idle", "resolving", "marking", "removing", "settled", "over"}]
      /\ marks \in [Request -> SUBSET Session] /\ left \in [Request -> SUBSET Session]
  BY TypeParts DEF MarkerInv, DiskType, RunType, Kept
<1>2. MarkersWritten
  BY DEF MarkerInv
<1>3. ASSUME UNCHANGED <<phase, marks, left>>
      PROVE  MarkersWritten'
  BY <1>1, <1>2, <1>3 DEF MarkersWritten
<1>4. ASSUME NEW r \in Request, UNCHANGED <<marks, left>>, NEW p, p # "marking", Reached(r, p)
      PROVE  MarkersWritten'
  BY <1>1, <1>2, <1>4 DEF MarkersWritten, Reached
<1>5. ASSUME NEW r \in Request, Resolve(r)
      PROVE  MarkersWritten'
  <2>1. \A s \in left'[r] \ marks'[r] : row[s] = "marked"
    BY <1>1, <1>5 DEF Resolve
  <2>2. \A q \in Request \ {r} :
          phase'[q] = phase[q] /\ left'[q] = left[q] /\ marks'[q] = marks[q]
    BY <1>1, <1>5 DEF Resolve, Reached
  <2>3. QED BY <1>1, <1>2, <2>1, <2>2 DEF MarkersWritten
<1>6. ASSUME NEW r \in Request, WriteMark(r)
      PROVE  MarkersWritten'
  <2>1. PICK s \in marks[r] : row' = Marked(s) /\ marks' = [marks EXCEPT ![r] = @ \ {s}]
    BY <1>6 DEF WriteMark
  <2>2. s \in Kept => row'[s] = "marked"
    BY <1>1, <2>1 DEF Marked, Kept
  <2>3. UNCHANGED <<phase, left>>
    BY <1>6 DEF WriteMark
  <2>4. QED BY <1>1, <1>2, <2>1, <2>2, <2>3 DEF MarkersWritten
<1>7. ASSUME NEW r \in Request, RunStep(r)
      PROVE  MarkersWritten'
  <2>1. CASE MarkFails(r) \/ StartRemovals(r) \/ Settle(r) \/ Panics(r)
    BY <1>4, <2>1 DEF MarkFails, StartRemovals, Settle, Panics
  <2>2. QED BY <1>5, <1>6, <1>7, <2>1 DEF RunStep
<1>8. ASSUME NEW r \in Request, WindowStep(r)
      PROVE  MarkersWritten'
  BY <1>3, <1>4, <1>8 DEF WindowStep, Ask, Identified, Hears, GivesUp
<1>9. ASSUME NEW r \in Request, NEW s \in Session, RemovalStep(r, s)
      PROVE  MarkersWritten'
  BY <1>3, <1>9 DEF RemovalStep, Removes, RemoveFails, RemoveTimesOut, RemovesLate
<1>10. ASSUME NEW w \in Scan, ScanStep(w)
       PROVE  MarkersWritten'
  BY <1>3, <1>10 DEF ScanStep, Reads, LeavesOut, Upserts
<1>11. ASSUME NEW s \in Session, SessionStep(s)
       PROVE  MarkersWritten'
  BY <1>3, <1>11 DEF SessionStep, RetryRemoves, RetryFails, Writes
<1>12. CASE Crash
  <2>1. \A r \in Request : phase'[r] # "marking"
    BY <1>12 DEF Crash
  <2>2. QED BY <2>1 DEF MarkersWritten
<1>13. QED BY <1>7, <1>8, <1>9, <1>10, <1>11, <1>12 DEF Next

LEMMA RemovalsMarkedStep ==
  ASSUME MarkerInv, MarkersStay, Next
  PROVE  RemovalsMarked' /\ RetriesMarked'
<1> USE DEF disk, run, window, MarkersStay
<1>1. /\ row \in [Session -> {"none", "live", "marked"}] /\ Kept \subseteq Session
      /\ retries \in [Session -> 0 .. 2]
      /\ RemovalsMarked /\ RetriesMarked /\ MarkersWritten
  BY TypeParts DEF MarkerInv, DiskType, Kept
<1>2. ASSUME \A m \in work' : m.session \in Kept => row[m.session] = "marked"
      PROVE  RemovalsMarked'
  BY <1>2 DEF RemovalsMarked
<1>3. ASSUME UNCHANGED work
      PROVE  RemovalsMarked'
  BY <1>1, <1>3 DEF RemovalsMarked
<1>4. ASSUME UNCHANGED retries
      PROVE  RetriesMarked'
  BY <1>1, <1>4 DEF RetriesMarked
<1>5. ASSUME NEW r \in Request, RunStep(r)
      PROVE  RemovalsMarked' /\ RetriesMarked'
  <2>1. CASE StartRemovals(r)
    <3>1. \A s \in Kept \cap left[r] : row[s] = "marked"
      BY <1>1, <2>1 DEF StartRemovals, MarkersWritten
    <3>2. ASSUME NEW m \in work', m.session \in Kept
          PROVE  row[m.session] = "marked"
      BY <1>1, <2>1, <3>1, <3>2 DEF StartRemovals, Removal, RemovalsMarked
    <3>3. QED BY <1>2, <1>4, <2>1, <3>2 DEF StartRemovals
  <2>2. CASE Panics(r)
    <3>1. ASSUME NEW m \in work', m.session \in Kept
          PROVE  row[m.session] = "marked"
      <4>1. PICK n \in work : m = IF n.request = r THEN [n EXCEPT !.late = TRUE] ELSE n
        BY <2>2 DEF Panics
      <4>2. n \in Removals
        BY TypeParts DEF MarkerInv, RunType
      <4>3. m.session = n.session
        BY <4>1, <4>2 DEF Removals
      <4>4. QED BY <1>1, <3>1, <4>3 DEF RemovalsMarked
    <3>2. QED BY <1>2, <1>4, <2>2, <3>1 DEF Panics
  <2>3. QED BY <1>3, <1>4, <1>5, <2>1, <2>2 DEF RunStep, Resolve, WriteMark, MarkFails, Settle
<1>6. ASSUME NEW r \in Request, WindowStep(r)
      PROVE  RemovalsMarked' /\ RetriesMarked'
  BY <1>3, <1>4, <1>6 DEF WindowStep, Ask, Identified, Hears, GivesUp
<1>7. ASSUME NEW r \in Request, NEW s \in Session, RemovalStep(r, s)
      PROVE  RemovalsMarked' /\ RetriesMarked'
  <2>1. \E late \in BOOLEAN : Removal(r, s, late) \in work
    BY <1>7 DEF RemovalStep, Removes, RemoveFails, RemoveTimesOut, RemovesLate
  <2>2. s \in Kept => row[s] = "marked"
    BY <1>1, <2>1 DEF RemovalsMarked, Removal
  <2>3. work' \subseteq work \cup {Removal(r, s, TRUE)}
    BY <1>7 DEF RemovalStep, Removes, RemoveFails, RemoveTimesOut, RemovesLate
  <2>4. RemovalsMarked'
    BY <1>1, <1>2, <2>2, <2>3 DEF RemovalsMarked, Removal
  <2>5. \A t \in Session \ {s} : retries'[t] = retries[t]
    BY <1>1, <1>7 DEF RemovalStep, Removes, RemoveFails, RemoveTimesOut, RemovesLate
  <2>6. RetriesMarked'
    BY <1>1, <2>2, <2>5 DEF RetriesMarked
  <2>7. QED BY <2>4, <2>6
<1>8. ASSUME NEW w \in Scan, ScanStep(w)
      PROVE  RemovalsMarked' /\ RetriesMarked'
  BY <1>3, <1>4, <1>8 DEF ScanStep, Reads, LeavesOut, Upserts
<1>9. ASSUME NEW s \in Session, SessionStep(s)
      PROVE  RemovalsMarked' /\ RetriesMarked'
  <2>1. UNCHANGED work /\ \A t \in Session : retries'[t] # 0 => retries[t] # 0
    BY <1>1, <1>9 DEF SessionStep, RetryRemoves, RetryFails, Writes
  <2>2. QED BY <1>1, <1>3, <2>1 DEF RetriesMarked
<1>10. CASE Crash
  BY <1>1, <1>10 DEF Crash, RemovalsMarked, RetriesMarked
<1>11. QED BY <1>5, <1>6, <1>7, <1>8, <1>9, <1>10 DEF Next

\* Results that are not a success, or whose sessions have their markers, leave
\* SuccessMarked as it is.
LEMMA ResultsMarked ==
  ASSUME MarkerInv, MarkersStay, NEW r \in Request, NEW S, NEW code,
         Results(r, S, code),
         code \notin Success \/ \A s \in S \cap Kept : row[s] = "marked"
  PROVE  SuccessMarked'
<1>1. result \in [Request -> [Session -> Codes]] /\ Kept \subseteq Session /\ SuccessMarked
  BY TypeParts DEF MarkerInv, RunType, Kept
<1>2. ASSUME NEW q \in Request, NEW s \in Kept, result'[q][s] \in Success
      PROVE  row[s] = "marked"
  <2>1. CASE q = r /\ s \in S
    BY <1>1, <1>2, <2>1 DEF Results
  <2>2. CASE ~(q = r /\ s \in S)
    <3>1. result'[q][s] = result[q][s]
      BY <1>1, <2>2 DEF Results
    <3>2. QED BY <1>1, <1>2, <3>1 DEF SuccessMarked
  <2>3. QED BY <2>1, <2>2
<1>3. QED BY <1>2 DEF SuccessMarked, MarkersStay

LEMMA SuccessMarkedStep ==
  ASSUME MarkerInv, MarkersStay, Next
  PROVE  SuccessMarked'
<1> USE DEF disk, run, window
<1>1. /\ result \in [Request -> [Session -> Codes]] /\ Kept \subseteq Session
      /\ SuccessMarked /\ RemovalsMarked
  BY TypeParts DEF MarkerInv, RunType, Kept
<1>2. ASSUME UNCHANGED result
      PROVE  SuccessMarked'
  BY <1>1, <1>2 DEF SuccessMarked, MarkersStay
<1>3. ASSUME NEW r \in Request, RunStep(r)
      PROVE  SuccessMarked'
  <2>1. CASE Resolve(r)
    <3>1. \A q \in Request \ {r} : result'[q] = result[q]
      BY <1>1, <2>1 DEF Resolve
    <3>2. \A s \in Kept : result'[r][s] \in {"ENGINE_BUSY", "none"}
      BY <1>1, <2>1 DEF Resolve, Kept
    <3>3. QED BY <1>1, <3>1, <3>2 DEF SuccessMarked, MarkersStay, Success
  <2>2. CASE MarkFails(r)
    BY <2>2, ResultsMarked DEF MarkFails, Success
  <2>3. CASE Settle(r)
    BY <1>2, <2>3, ResultsMarked DEF Settle, Success
  <2>4. CASE Panics(r)
    BY <2>4, ResultsMarked DEF Panics, Success
  <2>5. QED BY <1>2, <1>3, <2>1, <2>2, <2>3, <2>4 DEF RunStep, WriteMark, StartRemovals
<1>4. ASSUME NEW r \in Request, WindowStep(r)
      PROVE  SuccessMarked'
  BY <1>2, <1>4 DEF WindowStep, Ask, Identified, Hears, GivesUp
<1>5. ASSUME NEW r \in Request, NEW s \in Session, RemovalStep(r, s)
      PROVE  SuccessMarked'
  <2>1. \E late \in BOOLEAN : Removal(r, s, late) \in work
    BY <1>5 DEF RemovalStep, Removes, RemoveFails, RemoveTimesOut, RemovesLate
  <2>2. \A t \in {s} \cap Kept : row[t] = "marked"
    BY <1>1, <2>1 DEF RemovalsMarked, Removal
  <2>3. UNCHANGED result \/ \E code : Results(r, {s}, code)
    BY <1>5 DEF RemovalStep, Removes, RemoveFails, RemoveTimesOut, RemovesLate
  <2>4. QED BY <1>2, <2>2, <2>3, ResultsMarked
<1>6. ASSUME NEW w \in Scan, ScanStep(w)
      PROVE  SuccessMarked'
  BY <1>2, <1>6 DEF ScanStep, Reads, LeavesOut, Upserts
<1>7. ASSUME NEW s \in Session, SessionStep(s)
      PROVE  SuccessMarked'
  BY <1>2, <1>7 DEF SessionStep, RetryRemoves, RetryFails, Writes
<1>8. CASE Crash
  BY <1>2, <1>8 DEF Crash
<1>9. QED BY <1>3, <1>4, <1>5, <1>6, <1>7, <1>8 DEF Next

LEMMA DeletedStaysHiddenStep ==
  ASSUME MarkerInv, MarkersStay, Next
  PROVE  DeletedStaysHidden'
<1> USE DEF disk, run, window
<1>1. SuccessMarked /\ DeletedStaysHidden
  BY DEF MarkerInv
<1>2. \A s \in told' \cap Kept : s \in told \/ row[s] = "marked"
  <2>1. ASSUME NEW r \in Request, Answered(r)
        PROVE  \A s \in told' \cap Kept : s \in told \/ row[s] = "marked"
    BY <1>1, <2>1 DEF Answered, SuccessMarked
  <2>2. ASSUME NEW r \in Request, WindowStep(r)
        PROVE  UNCHANGED told \/ Answered(r)
    BY <2>2 DEF WindowStep, Ask, Identified, Hears, GivesUp
  <2>3. ASSUME NEW r \in Request, RunStep(r)
        PROVE  UNCHANGED told
    BY <2>3 DEF RunStep, Resolve, WriteMark, MarkFails, StartRemovals, Settle, Panics
  <2>4. ASSUME NEW r \in Request, NEW s \in Session, RemovalStep(r, s)
        PROVE  UNCHANGED told
    BY <2>4 DEF RemovalStep, Removes, RemoveFails, RemoveTimesOut, RemovesLate
  <2>5. ASSUME NEW w \in Scan, ScanStep(w)
        PROVE  UNCHANGED told
    BY <2>5 DEF ScanStep, Reads, LeavesOut, Upserts
  <2>6. ASSUME NEW s \in Session, SessionStep(s)
        PROVE  UNCHANGED told
    BY <2>6 DEF SessionStep, RetryRemoves, RetryFails, Writes
  <2>7. Crash => UNCHANGED told
    BY DEF Crash
  <2>8. QED BY <2>1, <2>2, <2>3, <2>4, <2>5, <2>6, <2>7 DEF Next
<1>3. QED BY <1>1, <1>2 DEF DeletedStaysHidden, MarkersStay

LEMMA MarkerInvStep ==
  ASSUME MarkerInv, [Next]_vars
  PROVE  MarkerInv'
<1>1. CASE Next
  <2>1. TypeOK /\ NeverLeftOut
    BY DEF MarkerInv
  <2>2. MarkersStay
    BY <1>1, <2>1, MarkerStays DEF MarkersStay
  <2>3. TypeOK'
    BY <1>1, <2>1, TypeStep
  <2>4. NeverLeftOut'
    BY <1>1, <2>1, NeverLeftOutStep
  <2>5. QED BY <1>1, <2>2, <2>3, <2>4, MarkersWrittenStep, RemovalsMarkedStep,
               SuccessMarkedStep, DeletedStaysHiddenStep DEF MarkerInv
<1>2. CASE UNCHANGED vars
  BY <1>2 DEF MarkerInv, TypeOK, NeverLeftOut, MarkersWritten, RemovalsMarked,
              RetriesMarked, SuccessMarked, DeletedStaysHidden, vars, disk, run, window
<1>3. QED BY <1>1, <1>2

\* A session the user was told is deleted keeps its marker, over any overlap of
\* deletions, scans, agents at work, failed and late removals and restarts.
THEOREM DeletionStaysHidden == Spec => []DeletedStaysHidden
<1>1. MarkerInv => DeletedStaysHidden
  BY DEF MarkerInv
<1>2. QED BY MarkerInit, MarkerInvStep, <1>1, PTL DEF Spec

\* A transcript is only ever removed under a marker, whichever step removes it.
THEOREM DeletionMarksFirst == Spec => MarkedBeforeRemoved
<1> USE DEF disk, run, window
<1>1. ASSUME MarkerInv, [Next]_vars
      PROVE  [\A s \in Kept : file[s] # "gone" /\ file'[s] = "gone" => row[s] = "marked"]_vars
  <2>1. /\ file \in [Session -> {"gone", "empty", "prompt"}] /\ Kept \subseteq Session
        /\ RemovalsMarked /\ RetriesMarked
    BY <1>1, TypeParts DEF MarkerInv, DiskType, Kept
  <2> SUFFICES ASSUME Next, NEW t \in Kept, file[t] # "gone", file'[t] = "gone"
               PROVE  row[t] = "marked"
    BY <1>1
  <2>2. ASSUME NEW r \in Request, NEW s \in Session, RemovalStep(r, s)
        PROVE  row[t] = "marked"
    <3>1. \E late \in BOOLEAN : Removal(r, s, late) \in work
      BY <2>2 DEF RemovalStep, Removes, RemoveFails, RemoveTimesOut, RemovesLate
    <3>2. t = s
      BY <2>1, <2>2 DEF RemovalStep, Removes, RemoveFails, RemoveTimesOut, RemovesLate, Gone
    <3>3. QED BY <2>1, <3>1, <3>2 DEF RemovalsMarked, Removal
  <2>3. ASSUME NEW s \in Session, SessionStep(s)
        PROVE  row[t] = "marked"
    BY <2>1, <2>3 DEF SessionStep, RetryRemoves, RetryFails, Writes, Gone, RetriesMarked
  <2>4. ASSUME NEW r \in Request, RunStep(r) \/ WindowStep(r)
        PROVE  UNCHANGED file
    BY <2>4 DEF RunStep, Resolve, WriteMark, MarkFails, StartRemovals, Settle, Panics,
                WindowStep, Ask, Identified, Hears, GivesUp
  <2>5. ASSUME NEW w \in Scan, ScanStep(w)
        PROVE  UNCHANGED file
    BY <2>5 DEF ScanStep, Reads, LeavesOut, Upserts
  <2>6. Crash => UNCHANGED file
    BY DEF Crash
  <2>7. QED BY <2>2, <2>3, <2>4, <2>5, <2>6 DEF Next
<1>2. QED BY MarkerInit, MarkerInvStep, <1>1, PTL DEF Spec, MarkedBeforeRemoved

-----------------------------------------------------------------------------
(* Results that overtake the id of their request.                          *)

\* The results of a request are sent once, by a run that is over by then, and
\* the window is told of them before it has its answer.
RequestOrder ==
  \A r \in Request :
    /\ event[r] # "none" => phase[r] = "settled"
    /\ ui[r] = "idle" <=> phase[r] = "idle"
    /\ ui[r] = "closed" => phase[r] = "over"
    /\ ui[r] = "answered" => event[r] \in {"heard", "late"}

\* What is kept was heard, and is kept once.
EarlyHeard == \A i \in DOMAIN early : event[early[i]] \in {"heard", "late"}

EarlyOnce == \A i, j \in DOMAIN early : early[i] = early[j] => i = j

HeardIsKept ==
  \A r \in Request : event[r] = "heard" =>
    ui[r] = "answered" \/ (ui[r] = "asked" /\ Contains(early, r))

HeardInv == TypeOK /\ RequestOrder /\ EarlyHeard /\ EarlyOnce /\ HeardIsKept

\* With room for every request, results that are still to come find a place free.
LEMMA EarlyHasRoom ==
  ASSUME HeardInv, IsFiniteSet(Request), Cardinality(Request) <= BufferCap,
         NEW r \in Request, event[r] = "sent"
  PROVE  Len(early) < BufferCap
<1> DEFINE Others == Request \ {r}
<1>1. /\ Len(early) \in Nat /\ DOMAIN early = 1 .. Len(early) /\ BufferCap \in Nat
      /\ early \in [1 .. Len(early) -> Request]
  BY EarlyType, LenProperties DEF HeardInv
<1>2. early \in [1 .. Len(early) -> Others]
  BY <1>1 DEF HeardInv, EarlyHeard
<1>3. /\ IsFiniteSet(Others) /\ Cardinality(Others) = Cardinality(Request) - 1
      /\ Cardinality(Others) \in Nat /\ Cardinality(Request) \in Nat
  BY FS_RemoveElement, FS_CardinalityType
<1>4. IsFiniteSet(1 .. Len(early)) /\ Cardinality(1 .. Len(early)) = Len(early)
  <2>1. /\ IsFiniteSet(1 .. Len(early))
        /\ Cardinality(1 .. Len(early)) = IF 1 > Len(early) THEN 0 ELSE Len(early) - 1 + 1
    <3>1. 1 \in Int /\ Len(early) \in Int
      BY <1>1
    <3>2. QED BY <3>1, FS_Interval
  <2>2. QED BY <1>1, <2>1
<1> HIDE DEF Others
<1>5. ~(Cardinality(Others) < Cardinality(1 .. Len(early)))
  <2>1. ~\E i, j \in 1 .. Len(early) : i # j /\ early[i] = early[j]
    BY <1>1 DEF HeardInv, EarlyOnce
  <2>2. QED BY <1>2, <1>3, <1>4, <2>1, FS_PigeonHole
<1>6. QED BY <1>1, <1>3, <1>4, <1>5

LEMMA HeardInit == Init => HeardInv
<1> SUFFICES ASSUME Init PROVE HeardInv
  OBVIOUS
<1>1. RequestOrder /\ HeardIsKept
  BY DEF Init, RequestOrder, HeardIsKept
<1>2. early = <<>>
  BY DEF Init
<1>3. EarlyHeard /\ EarlyOnce
  BY <1>2 DEF EarlyHeard, EarlyOnce
<1>4. QED BY <1>1, <1>3, TypeInit DEF HeardInv

LEMMA RequestOrderStep ==
  ASSUME HeardInv, Next
  PROVE  RequestOrder'
<1> USE DEF disk, run, window
<1>1. /\ phase \in [Request -> {"idle", "resolving", "marking", "removing", "settled", "over"}]
      /\ ui \in [Request -> {"idle", "asked", "waiting", "answered", "timed out", "closed"}]
      /\ event \in [Request -> {"none", "sent", "heard", "late"}]
      /\ RequestOrder
  BY TypeParts DEF HeardInv, RunType, WindowType
<1>2. ASSUME UNCHANGED <<phase, ui, event>>
      PROVE  RequestOrder'
  BY <1>1, <1>2 DEF RequestOrder
<1>3. ASSUME NEW r \in Request, RunStep(r)
      PROVE  RequestOrder'
  <2>1. \A q \in Request \ {r} : phase'[q] = phase[q] /\ event'[q] = event[q]
    BY <1>1, <1>3 DEF RunStep, Resolve, WriteMark, MarkFails, StartRemovals, Settle, Panics, Reached
  <2>2. ui' = ui
    BY <1>3 DEF RunStep, Resolve, WriteMark, MarkFails, StartRemovals, Settle, Panics
  <2>3. phase[r] \in {"resolving", "marking", "removing"}
    BY <1>3 DEF RunStep, Resolve, WriteMark, MarkFails, StartRemovals, Settle, Panics
  <2>4. phase'[r] # "idle" /\ (event'[r] = event[r] \/ phase'[r] = "settled")
    BY <1>1, <1>3 DEF RunStep, Resolve, WriteMark, MarkFails, StartRemovals, Settle, Panics, Reached
  <2>5. event[r] = "none" /\ ui[r] \notin {"idle", "closed", "answered"}
    BY <1>1, <2>3 DEF RequestOrder
  <2>6. QED BY <1>1, <2>1, <2>2, <2>4, <2>5 DEF RequestOrder
<1>4. ASSUME NEW r \in Request, WindowStep(r)
      PROVE  RequestOrder'
  <2>1. CASE Ask(r)
    BY <1>1, <2>1 DEF Ask, Reached, RequestOrder
  <2>2. CASE Identified(r)
    <3>1. Contains(early, r) => event[r] \in {"heard", "late"}
      BY EarlyType DEF HeardInv, EarlyHeard, Contains
    <3>2. QED BY <1>1, <2>2, <3>1 DEF Identified, Answered, RequestOrder
  <2>3. CASE Hears(r)
    BY <1>1, <2>3 DEF Hears, Answered, RequestOrder
  <2>4. CASE GivesUp(r)
    BY <1>1, <2>4 DEF GivesUp, RequestOrder
  <2>5. QED BY <1>4, <2>1, <2>2, <2>3, <2>4 DEF WindowStep
<1>5. ASSUME NEW r \in Request, NEW s \in Session, RemovalStep(r, s)
      PROVE  RequestOrder'
  BY <1>2, <1>5 DEF RemovalStep, Removes, RemoveFails, RemoveTimesOut, RemovesLate
<1>6. ASSUME NEW w \in Scan, ScanStep(w)
      PROVE  RequestOrder'
  BY <1>2, <1>6 DEF ScanStep, Reads, LeavesOut, Upserts
<1>7. ASSUME NEW s \in Session, SessionStep(s)
      PROVE  RequestOrder'
  BY <1>2, <1>7 DEF SessionStep, RetryRemoves, RetryFails, Writes
<1>8. CASE Crash
  <2>1. \A r \in Request :
          /\ event'[r] = "none"
          /\ phase'[r] = IF phase[r] = "idle" THEN "idle" ELSE "over"
          /\ ui'[r] = IF ui[r] = "idle" THEN "idle" ELSE "closed"
    BY <1>8 DEF Crash
  <2>2. \A r \in Request : ui[r] # "idle" => phase[r] # "idle"
    BY <1>1 DEF RequestOrder
  <2>3. QED BY <1>1, <2>1, <2>2 DEF RequestOrder
<1>9. QED BY <1>3, <1>4, <1>5, <1>6, <1>7, <1>8 DEF Next

LEMMA HeardInvStep ==
  ASSUME HeardInv, [Next]_vars, IsFiniteSet(Request), Cardinality(Request) <= BufferCap
  PROVE  HeardInv'
<1> USE DEF disk, run, window
<1> DEFINE Buffer == EarlyHeard /\ EarlyOnce /\ HeardIsKept
<1>1. /\ ui \in [Request -> {"idle", "asked", "waiting", "answered", "timed out", "closed"}]
      /\ event \in [Request -> {"none", "sent", "heard", "late"}]
      /\ RequestOrder /\ EarlyHeard /\ EarlyOnce /\ HeardIsKept
  BY TypeParts DEF HeardInv, WindowType
<1>2. /\ early \in Seq(Request) /\ Len(early) \in Nat /\ DOMAIN early = 1 .. Len(early)
      /\ \A i \in DOMAIN early : early[i] \in Request
  BY EarlyType DEF HeardInv
<1>3. ASSUME UNCHANGED early, \A q \in Request : event'[q] = event[q] \/ event'[q] = "sent",
             \A q \in Request : event'[q] # event[q] => event[q] = "none",
             \A q \in Request : ui'[q] = ui[q] \/ event[q] # "heard"
      PROVE  Buffer'
  <2>1. EarlyHeard' /\ EarlyOnce'
    BY <1>1, <1>2, <1>3 DEF EarlyHeard, EarlyOnce
  <2>2. HeardIsKept'
    BY <1>1, <1>3 DEF HeardIsKept, Contains
  <2>3. QED BY <2>1, <2>2
<1>4. ASSUME NEW r \in Request, RunStep(r)
      PROVE  Buffer'
  <2>1. phase[r] \in {"resolving", "marking", "removing"} /\ UNCHANGED <<ui, early>>
    BY <1>4 DEF RunStep, Resolve, WriteMark, MarkFails, StartRemovals, Settle, Panics
  <2>2. event[r] = "none"
    BY <1>1, <2>1 DEF RequestOrder
  <2>3. event' \in {event, [event EXCEPT ![r] = "sent"]}
    BY <1>4 DEF RunStep, Resolve, WriteMark, MarkFails, StartRemovals, Settle, Panics
  <2>4. QED BY <1>1, <1>3, <2>1, <2>2, <2>3
<1>5. ASSUME NEW r \in Request, Ask(r)
      PROVE  Buffer'
  <2>1. event[r] # "heard"
    BY <1>1, <1>5 DEF Ask, RequestOrder
  <2>2. QED BY <1>1, <1>3, <1>5, <2>1 DEF Ask
<1>6. ASSUME NEW r \in Request, GivesUp(r)
      PROVE  Buffer'
  <2>1. event[r] # "heard"
    BY <1>1, <1>6 DEF GivesUp, HeardIsKept
  <2>2. QED BY <1>1, <1>3, <1>6, <2>1 DEF GivesUp
<1>7. ASSUME NEW r \in Request, Identified(r)
      PROVE  Buffer'
  <2>1. CASE Contains(early, r)
    <3>1. PICK i \in DOMAIN early :
            /\ early[i] = r
            /\ TakenOut(r) \in Seq(Request)
            /\ Len(TakenOut(r)) = Len(early) - 1
            /\ \A j \in 1 .. Len(early) - 1 :
                 TakenOut(r)[j] = early[IF j < i THEN j ELSE j + 1]
      BY <2>1, TakenOutIs DEF HeardInv
    <3>2. early' = TakenOut(r) /\ event' = event /\ ui' = [ui EXCEPT ![r] = "answered"]
      BY <1>7, <2>1 DEF Identified, Answered
    <3>3. DOMAIN early' = 1 .. Len(early) - 1 /\ Len(early') = Len(early) - 1
      BY <3>1, <3>2, LenProperties
    <3>4. \A j \in DOMAIN early' : early'[j] = early[IF j < i THEN j ELSE j + 1]
      BY <3>1, <3>2, <3>3
    <3>5. EarlyHeard' /\ EarlyOnce'
      <4> DEFINE From(j) == IF j < i THEN j ELSE j + 1
      <4>1. \A j \in DOMAIN early' : From(j) \in DOMAIN early /\ early'[j] = early[From(j)]
        BY <1>2, <3>3, <3>4
      <4>2. \A j, k \in DOMAIN early' : From(j) = From(k) => j = k
        BY <1>2, <3>3
      <4> HIDE DEF From
      <4>3. EarlyHeard'
        BY <1>1, <3>2, <4>1 DEF EarlyHeard
      <4>4. EarlyOnce'
        BY <1>1, <4>1, <4>2 DEF EarlyOnce
      <4>5. QED BY <4>3, <4>4
    <3>6. ASSUME NEW q \in Request \ {r}, Contains(early, q)
          PROVE  Contains(early, q)'
      <4>1. PICK k \in 1 .. Len(early) : early[k] = q
        BY <3>6 DEF Contains
      <4>2. k # i
        BY <3>1, <3>6, <4>1
      <4>3. CASE k < i
        BY <1>2, <3>3, <3>4, <4>1, <4>3 DEF Contains
      <4>4. CASE k > i
        <5>1. k - 1 \in DOMAIN early' /\ ~(k - 1 < i) /\ (k - 1) + 1 = k
          BY <1>2, <3>3, <4>1, <4>4
        <5>2. early'[k - 1] = early[k]
          BY <3>4, <5>1
        <5>3. QED BY <3>3, <4>1, <5>1, <5>2 DEF Contains
      <4>5. QED BY <1>2, <4>1, <4>2, <4>3, <4>4
    <3>7. HeardIsKept'
      BY <1>1, <3>2, <3>6 DEF HeardIsKept
    <3>8. QED BY <3>5, <3>7
  <2>2. CASE ~Contains(early, r)
    <3>1. event[r] # "heard"
      BY <1>1, <1>7, <2>2 DEF Identified, HeardIsKept
    <3>2. QED BY <1>1, <1>3, <1>7, <2>2, <3>1 DEF Identified
  <2>3. QED BY <2>1, <2>2
<1>8. ASSUME NEW r \in Request, Hears(r)
      PROVE  Buffer'
  <2>1. event[r] = "sent" /\ event' = [event EXCEPT ![r] = IF ui[r] = "timed out" THEN "late" ELSE "heard"]
    BY <1>8 DEF Hears
  <2>2. CASE ui[r] = "waiting"
    <3>1. UNCHANGED early /\ ui' = [ui EXCEPT ![r] = "answered"]
      BY <1>8, <2>2 DEF Hears, Answered
    <3>2. EarlyHeard' /\ EarlyOnce'
      BY <1>1, <1>2, <2>1, <3>1 DEF EarlyHeard, EarlyOnce
    <3>3. HeardIsKept'
      BY <1>1, <2>1, <3>1 DEF HeardIsKept, Contains
    <3>4. QED BY <3>2, <3>3
  <2>3. CASE ui[r] # "waiting"
    <3>1. UNCHANGED ui /\ ui[r] \in {"asked", "timed out"}
      BY <1>1, <1>8, <2>1, <2>3 DEF Hears, RequestOrder
    <3>2. early' = Append(early, r)
      <4>1. Len(early) < BufferCap /\ BufferCap \in Nat
        BY <2>1, EarlyHasRoom, DeletionAssumption
      <4>2. early' = Remembered(r)
        BY <1>8, <2>3 DEF Hears
      <4>3. ~(Len(early) >= BufferCap)
        BY <1>2, <4>1
      <4>4. QED BY <4>2, <4>3 DEF Remembered
    <3>3. /\ DOMAIN early' = 1 .. Len(early) + 1 /\ Len(early') = Len(early) + 1
          /\ \A i \in DOMAIN early : early'[i] = early[i]
          /\ early'[Len(early) + 1] = r
      BY <1>2, <3>2
    <3>4. \A i \in DOMAIN early : early[i] # r
      BY <1>1, <2>1 DEF EarlyHeard
    <3>5. EarlyHeard' /\ EarlyOnce'
      <4>1. \A i \in DOMAIN early' : i \in DOMAIN early \/ i = Len(early) + 1
        BY <1>2, <3>3
      <4>2. EarlyHeard'
        BY <1>1, <1>2, <2>1, <3>3, <4>1 DEF EarlyHeard
      <4>3. EarlyOnce'
        BY <1>1, <3>3, <3>4, <4>1 DEF EarlyOnce
      <4>4. QED BY <4>2, <4>3
    <3>6. \A q \in Request : Contains(early, q) => Contains(early, q)'
      BY <1>2, <3>3 DEF Contains
    <3>7. Contains(early, r)'
      BY <1>2, <3>3 DEF Contains
    <3>8. HeardIsKept'
      BY <1>1, <2>1, <3>1, <3>6, <3>7 DEF HeardIsKept
    <3>9. QED BY <3>5, <3>8
  <2>4. QED BY <2>2, <2>3
<1>9. ASSUME NEW r \in Request, NEW s \in Session, RemovalStep(r, s)
      PROVE  Buffer'
  <2>1. UNCHANGED <<ui, event, early>>
    BY <1>9 DEF RemovalStep, Removes, RemoveFails, RemoveTimesOut, RemovesLate
  <2>2. QED BY <1>3, <2>1
<1>10. ASSUME NEW w \in Scan, ScanStep(w)
       PROVE  Buffer'
  <2>1. UNCHANGED <<ui, event, early>>
    BY <1>10 DEF ScanStep, Reads, LeavesOut, Upserts
  <2>2. QED BY <1>3, <2>1
<1>11. ASSUME NEW s \in Session, SessionStep(s)
       PROVE  Buffer'
  <2>1. UNCHANGED <<ui, event, early>>
    BY <1>11 DEF SessionStep, RetryRemoves, RetryFails, Writes
  <2>2. QED BY <1>3, <2>1
<1>12. ASSUME Crash
       PROVE  Buffer'
  <2>1. early' = <<>> /\ \A q \in Request : event'[q] = "none"
    BY <1>12 DEF Crash
  <2>2. DOMAIN early' = {}
    BY <2>1
  <2>3. EarlyHeard' /\ EarlyOnce'
    BY <2>2 DEF EarlyHeard, EarlyOnce
  <2>4. HeardIsKept'
    BY <2>1 DEF HeardIsKept
  <2>5. QED BY <2>3, <2>4
<1>13. ASSUME UNCHANGED vars
       PROVE  Buffer'
  <2>1. UNCHANGED <<ui, event, early>>
    BY <1>13 DEF vars
  <2>2. QED BY <1>3, <2>1
<1> HIDE DEF Buffer
<1>14. Buffer'
  <2>1. ASSUME NEW r \in Request, WindowStep(r)
        PROVE  Buffer'
    BY <1>5, <1>6, <1>7, <1>8, <2>1 DEF WindowStep
  <2>2. QED BY <1>4, <1>9, <1>10, <1>11, <1>12, <1>13, <2>1 DEF Next
<1>15. RequestOrder'
  <2>1. CASE Next
    BY <2>1, RequestOrderStep
  <2>2. CASE UNCHANGED vars
    BY <1>1, <2>2 DEF vars, RequestOrder
  <2>3. QED BY <2>1, <2>2
<1>16. QED BY <1>14, <1>15, TypeStep DEF HeardInv, Buffer

\* Results that reach the window before it gives up are the answer of their
\* request, also when they overtake its id, if the buffer has room for one result
\* of every request.
THEOREM DeletionIsAnswered ==
  ASSUME IsFiniteSet(Request), Cardinality(Request) <= BufferCap
  PROVE  Spec => []HeardIsAnswered
<1>1. HeardInv /\ [Next]_vars => HeardInv'
  BY HeardInvStep
<1>2. HeardInv => HeardIsAnswered
  BY DEF HeardInv, HeardIsKept, HeardIsAnswered
<1>3. QED BY HeardInit, <1>1, <1>2, PTL DEF Spec
=============================================================================
