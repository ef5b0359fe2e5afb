--------------------------- MODULE SessionDeletion ---------------------------
(***************************************************************************)
(* Deleting sessions, marker first.                                        *)
(*                                                                         *)
(* The sidebar takes the rows away and sends one request for all of them   *)
(* (performV2Deletion, requestSessionDelete).  The program answers with a  *)
(* request id and works on (run_session_delete_v2): it looks the sessions  *)
(* up in the index, writes a deletion marker over each row, removes the    *)
(* transcripts against a time limit, cleans the metadata, and sends the    *)
(* results as an event, which may overtake the answer with the id.         *)
(* Meanwhile scans of the disk write rows into the same index, agents go   *)
(* on writing transcripts, and the program may be closed at any point.     *)
(*                                                                         *)
(* A session is seen if its row is live, or if a list read from the disk   *)
(* finds its transcript and the index has no marker for it.                *)
(*                                                                         *)
(* Abstracted: a row is absent, live or a marker; a transcript is gone,    *)
(* without a prompt of the user, or with one.  The four concurrent slots   *)
(* of the removals only delay them.  The listener of the results is up     *)
(* before a request, as the code awaits.  Not modelled: the pruning of     *)
(* old sessions without a prompt, and the deletion used before this one.   *)
(***************************************************************************)
EXTENDS Naturals, Sequences, SequencesExt

CONSTANTS
  Session,
  Request,
  Targets,     \* the sessions each request is to delete
  Unprompted,  \* sessions whose transcript has no prompt of the user yet
  Running,     \* sessions whose agent goes on writing the transcript
  Bare,        \* sessions whose id does not name their engine
  Unmarkable,  \* sessions the index has no engine for (shared:)
  Daemon,      \* sessions that only a daemon can delete (dsh)
  Unindexed,   \* sessions no scan has put into the index yet
  Scan,        \* scans of the disk that may overlap
  BufferCap,   \* results kept for requests whose id is not known yet
  MaxCrashes   \* bound: how often the program is closed

ASSUME DeletionAssumption ==
  /\ Targets \in [Request -> SUBSET Session]
  /\ Unprompted \subseteq Session /\ Running \subseteq Session
  /\ Bare \subseteq Session /\ Daemon \subseteq Session
  /\ Unmarkable \subseteq Unindexed /\ Unindexed \subseteq Session
  /\ BufferCap \in Nat \ {0} /\ MaxCrashes \in Nat

VARIABLES
  row,       \* the index, durable: "none", "live" or "marked"
  file,      \* the transcript, durable: "gone", "empty" or "prompt"
  phase,     \* of the run of each request in the program
  marks,     \* the markers each run still has to write
  left,      \* the sessions each run is to remove from the disk
  work,      \* the removals at work: [request, session, late]
  result,    \* the result of each target of each request
  retries,   \* tries left of the background removal of a transcript
  ui,        \* how each request stands in the window
  event,     \* the event with the results: "none", "sent", "heard", "late"
  early,     \* earlySettledByRequestId, oldest first
  told,      \* sessions whose deletion was reported as a success
  scan,      \* per scan: the rows to write and the rows to leave out
  crashes

disk == <<row, file>>
run == <<phase, marks, left, work, result, retries>>
window == <<ui, event, early, told>>
vars == <<disk, run, window, scan, crashes>>

Codes == {"none", "OK", "ALREADY_MISSING", "GHOST_CLEANED", "MARKED_DELETED",
          "ENGINE_BUSY", "IO_FAILED", "REQUEST_TIMEOUT", "METADATA_CLEANUP_FAILED"}

\* isSessionDeleteSuccessCode
Success == {"OK", "ALREADY_MISSING", "GHOST_CLEANED", "MARKED_DELETED"}

Idle == [step |-> "idle", rows |-> {}, omitted |-> {}]

Removals == [request : Request, session : Session, late : BOOLEAN]

Written(s) == IF s \in Unprompted THEN "empty" ELSE "prompt"

Init ==
  /\ row = [s \in Session |-> IF s \in Unindexed \cup Unprompted THEN "none" ELSE "live"]
  /\ file = [s \in Session |-> Written(s)]
  /\ phase = [r \in Request |-> "idle"]
  /\ marks = [r \in Request |-> {}]
  /\ left = [r \in Request |-> {}]
  /\ work = {}
  /\ result = [r \in Request |-> [s \in Session |-> "none"]]
  /\ retries = [s \in Session |-> 0]
  /\ ui = [r \in Request |-> "idle"]
  /\ event = [r \in Request |-> "none"]
  /\ early = <<>>
  /\ told = {}
  /\ scan = [w \in Scan |-> Idle]
  /\ crashes = 0

-----------------------------------------------------------------------------
(* The run of a request in the program.                                    *)

Reached(r, p) == phase' = [phase EXCEPT ![r] = p]

Results(r, S, code) ==
  result' = [result EXCEPT ![r] = [s \in Session |-> IF s \in S THEN code ELSE @[s]]]

\* The window takes the rows away and sends the request; the program starts the
\* run before it answers with the id.
Ask(r) ==
  /\ ui[r] = "idle"
  /\ ui' = [ui EXCEPT ![r] = "asked"]
  /\ Reached(r, "resolving")
  /\ UNCHANGED <<disk, marks, left, work, result, retries, event, early, told, scan, crashes>>

\* resolve_one_target: a session found in the index, or whose id names its engine,
\* can be deleted; any other is a ghost, reported at once.  An index that cannot be
\* opened finds nothing.  A daemon that does not answer fails its sessions early.
\* A marker found at this point is not written again.
Resolve(r) ==
  /\ phase[r] = "resolving"
  /\ \E found \in {{}, {s \in Targets[r] : row[s] # "none"}},
        busy \in SUBSET (Targets[r] \cap Daemon) :
       LET ghosts == (Targets[r] \cap Bare) \ found
           able == Targets[r] \ (ghosts \cup busy)
       IN /\ left' = [left EXCEPT ![r] = able]
          /\ marks' = [marks EXCEPT ![r] =
                         {s \in able \cup ghosts : ~(s \in found /\ row[s] = "marked")}]
          /\ result' = [result EXCEPT ![r] =
                          [s \in Session |-> IF s \in ghosts THEN "GHOST_CLEANED"
                                             ELSE IF s \in busy THEN "ENGINE_BUSY" ELSE "none"]]
  /\ Reached(r, "marking")
  /\ UNCHANGED <<disk, work, retries, window, scan, crashes>>

\* tombstone_session_ids, one session: each marker is committed on its own.
Marked(s) == IF s \in Unmarkable THEN row ELSE [row EXCEPT ![s] = "marked"]

WriteMark(r) ==
  /\ phase[r] = "marking"
  /\ \E s \in marks[r] :
       /\ row' = Marked(s)
       /\ marks' = [marks EXCEPT ![r] = @ \ {s}]
  /\ UNCHANGED <<file, phase, left, work, result, retries, window, scan, crashes>>

\* A marker cannot be written: the run ends and nothing is removed from the disk;
\* the markers already written stay.
MarkFails(r) ==
  /\ phase[r] = "marking" /\ marks[r] # {}
  /\ Results(r, left[r], "IO_FAILED")
  /\ Reached(r, "settled")
  /\ event' = [event EXCEPT ![r] = "sent"]
  /\ UNCHANGED <<disk, marks, left, work, retries, ui, early, told, scan, crashes>>

Removal(r, s, late) == [request |-> r, session |-> s, late |-> late]

\* Mutant: the removals do not wait for the markers.
StartsUnmarked(r) ==
  /\ phase[r] = "marking"
  /\ work' = work \cup {Removal(r, s, FALSE) : s \in left[r]}
  /\ Reached(r, "removing")
  /\ UNCHANGED <<disk, marks, left, result, retries, window, scan, crashes>>

StartRemovals(r) ==
  /\ phase[r] = "marking" /\ marks[r] = {}
  /\ work' = work \cup {Removal(r, s, FALSE) : s \in left[r]}
  /\ Reached(r, "removing")
  /\ UNCHANGED <<disk, marks, left, result, retries, window, scan, crashes>>

Gone(s) == file' = [file EXCEPT ![s] = "gone"]

\* A removal ends in time, having found a transcript or not.
Removes(r, s) ==
  /\ Removal(r, s, FALSE) \in work
  /\ work' = work \ {Removal(r, s, FALSE)}
  /\ Gone(s)
  /\ Results(r, {s}, IF file[s] = "gone" THEN "ALREADY_MISSING" ELSE "OK")
  /\ UNCHANGED <<row, phase, marks, left, retries, window, scan, crashes>>

\* A removal fails: the marker stands, so this is a success, and the transcript is
\* tried again twice in the background, unless it takes the daemon.
RemoveFails(r, s) ==
  /\ Removal(r, s, FALSE) \in work
  /\ work' = work \ {Removal(r, s, FALSE)}
  /\ Results(r, {s}, "MARKED_DELETED")
  /\ retries' = [retries EXCEPT ![s] = IF s \in Daemon THEN @ ELSE 2]
  /\ UNCHANGED <<disk, phase, marks, left, window, scan, crashes>>

\* The time limit: the run goes on, and so does the removal.
RemoveTimesOut(r, s) ==
  /\ Removal(r, s, FALSE) \in work
  /\ work' = (work \ {Removal(r, s, FALSE)}) \cup {Removal(r, s, TRUE)}
  /\ Results(r, {s}, "REQUEST_TIMEOUT")
  /\ UNCHANGED <<disk, phase, marks, left, retries, window, scan, crashes>>

RemovesLate(r, s) ==
  /\ Removal(r, s, TRUE) \in work
  /\ work' = work \ {Removal(r, s, TRUE)}
  /\ file' \in {file, [file EXCEPT ![s] = "gone"]}
  /\ UNCHANGED <<row, phase, marks, left, result, retries, window, scan, crashes>>

AllRemoved(r) == \A s \in left[r] : result[r][s] # "none"

\* The metadata of the sessions is cleaned, which may fail and then overwrites
\* their results, and the results are sent.
Settle(r) ==
  /\ phase[r] = "removing" /\ AllRemoved(r)
  /\ \/ UNCHANGED result
     \/ Results(r, {s \in Targets[r] : result[r][s] # "ENGINE_BUSY"},
                "METADATA_CLEANUP_FAILED")
  /\ Reached(r, "settled")
  /\ event' = [event EXCEPT ![r] = "sent"]
  /\ UNCHANGED <<disk, marks, left, work, retries, ui, early, told, scan, crashes>>

\* catch_unwind: a run that panics reports a failure for every target.
Panics(r) ==
  /\ phase[r] \in {"resolving", "marking", "removing"}
  /\ Results(r, Targets[r], "IO_FAILED")
  /\ work' = {IF m.request = r THEN [m EXCEPT !.late = TRUE] ELSE m : m \in work}
  /\ Reached(r, "settled")
  /\ event' = [event EXCEPT ![r] = "sent"]
  /\ UNCHANGED <<disk, marks, left, retries, ui, early, told, scan, crashes>>

\* schedule_residual_retry
RetryRemoves(s) ==
  /\ retries[s] > 0 /\ file[s] # "gone"
  /\ retries' = [retries EXCEPT ![s] = 0]
  /\ Gone(s)
  /\ UNCHANGED <<row, phase, marks, left, work, result, window, scan, crashes>>

\* Mutant: the background removal is tried without an end.
RetriesForEver(s) ==
  /\ file[s] # "gone"
  /\ retries' = [retries EXCEPT ![s] = @ - 1]
  /\ UNCHANGED <<disk, phase, marks, left, work, result, window, scan, crashes>>

RetryFails(s) ==
  /\ retries[s] > 0
  /\ retries' = [retries EXCEPT ![s] = @ - 1]
  /\ UNCHANGED <<disk, phase, marks, left, work, result, window, scan, crashes>>

-----------------------------------------------------------------------------
(* The window.                                                             *)

\* The promise of a request is settled with its results: sessions reported as
\* deleted stay away, the rows of the others come back.
Answered(r) ==
  /\ ui' = [ui EXCEPT ![r] = "answered"]
  /\ told' = told \cup {s \in Targets[r] : result[r][s] \in Success}

\* earlySettledByRequestId.delete
TakenOut(r) == RemoveAt(early, CHOOSE i \in DOMAIN early : early[i] = r)

\* The id arrives: the results may be there already.
Identified(r) ==
  /\ ui[r] = "asked"
  /\ IF Contains(early, r)
     THEN Answered(r) /\ early' = TakenOut(r)
     ELSE ui' = [ui EXCEPT ![r] = "waiting"] /\ UNCHANGED <<early, told>>
  /\ UNCHANGED <<disk, run, event, scan, crashes>>

\* Mutant: results nobody waits for are dropped.
Dropped(r) == early

\* rememberEarlySettled
Remembered(r) == Append(IF Len(early) >= BufferCap THEN Tail(early) ELSE early, r)

\* The listener: results nobody waits for are kept, the oldest making room.
Hears(r) ==
  /\ event[r] = "sent"
  /\ event' = [event EXCEPT ![r] = IF ui[r] = "timed out" THEN "late" ELSE "heard"]
  /\ IF ui[r] = "waiting"
     THEN Answered(r) /\ UNCHANGED early
     ELSE early' = Remembered(r) /\ UNCHANGED <<ui, told>>
  /\ UNCHANGED <<disk, run, scan, crashes>>

\* The window has waited long enough: every row comes back.
GivesUp(r) ==
  /\ ui[r] = "waiting"
  /\ ui' = [ui EXCEPT ![r] = "timed out"]
  /\ UNCHANGED <<disk, run, event, early, told, scan, crashes>>

-----------------------------------------------------------------------------
(* Scans of the disk, agents, and the program being closed.                *)

\* What a scan reads: rows for transcripts with a prompt, and the ones without,
\* which are to be left out.
Reads(w) ==
  /\ scan[w].step = "idle"
  /\ scan' = [scan EXCEPT ![w] =
       [step |-> "read",
        rows |-> {s \in Session \ Unmarkable : file[s] = "prompt"},
        omitted |-> {s \in Session \ Unmarkable : file[s] = "empty"}]]
  /\ UNCHANGED <<disk, run, window, crashes>>

\* delete_engine_session_rows takes the rows away, markers included.
LeavesOut(w) ==
  /\ scan[w].step = "read"
  /\ row' = [s \in Session |-> IF s \in scan[w].omitted THEN "none" ELSE row[s]]
  /\ scan' = [scan EXCEPT ![w].step = "left out"]
  /\ UNCHANGED <<file, run, window, crashes>>

\* Mutant: the row that is written may be a marker.
UpsertedAnyway(s) == "live"

\* upsert_rows never touches a row that is a marker.
Upserted(s) == IF row[s] = "none" THEN "live" ELSE row[s]

Upserts(w) ==
  /\ scan[w].step = "left out"
  /\ row' = [s \in Session |-> IF s \in scan[w].rows THEN Upserted(s) ELSE row[s]]
  /\ scan' = [scan EXCEPT ![w] = Idle]
  /\ UNCHANGED <<file, run, window, crashes>>

\* An agent at work writes its transcript, and creates it again if it is gone.
Writes(s) ==
  /\ s \in Running /\ file[s] # "prompt"
  /\ file' = [file EXCEPT ![s] = "prompt"]
  /\ UNCHANGED <<row, run, window, scan, crashes>>

\* The program is closed and started again: only the disk and the index stay.
Crash ==
  /\ crashes < MaxCrashes
  /\ crashes' = crashes + 1
  /\ phase' = [r \in Request |-> IF phase[r] = "idle" THEN "idle" ELSE "over"]
  /\ marks' = [r \in Request |-> {}]
  /\ left' = [r \in Request |-> {}]
  /\ work' = {}
  /\ retries' = [s \in Session |-> 0]
  /\ ui' = [r \in Request |-> IF ui[r] = "idle" THEN "idle" ELSE "closed"]
  /\ event' = [r \in Request |-> "none"]
  /\ early' = <<>>
  /\ scan' = [w \in Scan |-> Idle]
  /\ UNCHANGED <<disk, result, told>>

-----------------------------------------------------------------------------

RunStep(r) == Resolve(r) \/ WriteMark(r) \/ MarkFails(r) \/ StartRemovals(r) \/ Settle(r) \/ Panics(r)

RemovalStep(r, s) == Removes(r, s) \/ RemoveFails(r, s) \/ RemoveTimesOut(r, s) \/ RemovesLate(r, s)

WindowStep(r) == Ask(r) \/ Identified(r) \/ Hears(r) \/ GivesUp(r)

ScanStep(w) == Reads(w) \/ LeavesOut(w) \/ Upserts(w)

SessionStep(s) == RetryRemoves(s) \/ RetryFails(s) \/ Writes(s)

Next ==
  \/ \E r \in Request : RunStep(r) \/ WindowStep(r)
  \/ \E r \in Request, s \in Session : RemovalStep(r, s)
  \/ \E w \in Scan : ScanStep(w)
  \/ \E s \in Session : SessionStep(s)
  \/ Crash

Spec == Init /\ [][Next]_vars

-----------------------------------------------------------------------------

TypeOK ==
  /\ row \in [Session -> {"none", "live", "marked"}]
  /\ file \in [Session -> {"gone", "empty", "prompt"}]
  /\ phase \in [Request -> {"idle", "resolving", "marking", "removing", "settled", "over"}]
  /\ marks \in [Request -> SUBSET Session] /\ left \in [Request -> SUBSET Session]
  /\ work \subseteq Removals
  /\ result \in [Request -> [Session -> Codes]]
  /\ retries \in [Session -> 0 .. 2]
  /\ ui \in [Request -> {"idle", "asked", "waiting", "answered", "timed out", "closed"}]
  /\ event \in [Request -> {"none", "sent", "heard", "late"}]
  /\ early \in Seq(Request) /\ Len(early) <= BufferCap
  /\ told \subseteq Session
  /\ scan \in [Scan -> [step : {"idle", "read", "left out"},
                        rows : SUBSET Session, omitted : SUBSET Session]]
  /\ crashes \in 0 .. MaxCrashes

\* The sessions the deletion keeps its promises for: their id names an engine the
\* index knows, and the user has written in them.
Kept == Session \ (Bare \cup Unmarkable \cup Unprompted)

\* A session the user was told is deleted keeps its marker: no scan that read its
\* transcript before, no agent that writes it anew, no failed or late removal and
\* no restart brings it back into a list.
DeletedStaysHidden == \A s \in told \cap Kept : row[s] = "marked"

\* A transcript is only ever removed under a marker, also by a removal that
\* outlived its limit or is tried again: whatever cuts a deletion short, no live
\* row is left for a transcript that is gone.
MarkedBeforeRemoved ==
  [][\A s \in Kept : file[s] # "gone" /\ file'[s] = "gone" => row[s] = "marked"]_vars

\* Results that reach the window while their request is not yet given up are its
\* answer, also when they overtake the id of the request.
HeardIsAnswered ==
  \A r \in Request : event[r] = "heard" => ui[r] \in {"asked", "answered"}
=============================================================================
