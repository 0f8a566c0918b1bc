--------------------------- MODULE DailyRecording ---------------------------
(***************************************************************************)
(* The daily recording of the public tariff pages: a Lambda that runs at    *)
(* 08:00 and 09:00 UTC and whenever somebody invokes it (capture/handler),  *)
(* writes each source's bytes and manifest to S3 and then commits the day   *)
(* to the database (recording/commit); the replay of past days into the     *)
(* database (restore_live); and the 10:00 verifier (capture/verifier).      *)
(*                                                                         *)
(* A page is the digest of its bytes.  Every S3 call is a step of its own;  *)
(* one source's day is committed in one transaction.  Calls to S3 may fail  *)
(* before or after they have taken effect, and AWS may kill a run between   *)
(* any two steps.                                                           *)
(***************************************************************************)
EXTENDS Naturals

CONSTANTS
  Source,       \* the registered sources
  Scheduled,    \* Lambda executions by the schedule: an ended run may start again
  Manual,       \* Lambda executions by hand
  Digest,       \* contents a page can have
  LastDay,      \* bound on the calendar
  MaxRows,      \* bound on the FAILED rows of one source's day
  None          \* no object, no digest

Run == Scheduled \cup Manual

ASSUME RunKinds == Scheduled \cap Manual = {}
ASSUME CalendarAssumption == LastDay \in Nat
ASSUME RowsAssumption == MaxRows \in Nat
Day == 0 .. LastDay

VARIABLES
  today,      \* the server's UTC date
  body,       \* S3: the object at the body key of a source's day
  manifest,   \* S3: the manifest of a source's day
  latest,     \* S3: the rolling latest.json of a source
  snapshot,   \* DB: the tariff_snapshots row of a source's day
  committed,  \* DB: the COMMITTED recordings row of a source's day
  failed,     \* DB: how many FAILED recordings rows a source's day has
  run         \* where each execution is

objects == <<body, manifest, latest>>
rows == <<snapshot, committed, failed>>
vars == <<today, objects, rows, run>>

Page == Digest \cup {None}
Invocation == {"scheduled", "manual"}

Manifest ==
  [status : {"ok", "failed"}, sha256 : Page, delta : {"changed", "unchanged", None},
   hasBody : BOOLEAN, invocation : Invocation]

Snapshot == [sha256 : Page, linked : BOOLEAN]

ASSUME NoneAssumption ==
  /\ None \notin Digest /\ None \notin Source
  /\ None \notin Manifest /\ None \notin Snapshot

ASSUME DeltaAssumption == None \notin {"changed", "unchanged"}

Place ==
  {"idle",      \* next: Begin
   "look",      \* next: Look, LeaveOut, or BeginCommit after the last source
   "fetch",     \* next: Fetch, FetchFails
   "body",      \* next: PutBody
   "pointer",   \* next: ReadPointer
   "manifest",  \* next: WriteManifest
   "latest",    \* next: WritePointer
   "failed",    \* next: WriteFailed
   "commit"}    \* next: CommitDay, Ends

Execution ==
  [at : Place, day : Day,
   todo : SUBSET Source,        \* sources not yet captured, then not yet committed
   source : Source \cup {None},
   sha256 : Page,               \* of the bytes fetched
   hasBody : BOOLEAN,           \* body_written
   prev : Page]                 \* what latest.json held

Rest ==
  [at |-> "idle", day |-> 0, todo |-> {}, source |-> None,
   sha256 |-> None, hasBody |-> FALSE, prev |-> None]

\* The type invariant of the bucket, the tables and the runs.
TypeOK ==
  /\ today \in Day
  /\ body \in [Source \X Day -> Page]
  /\ manifest \in [Source \X Day -> Manifest \cup {None}]
  /\ latest \in [Source -> Page]
  /\ snapshot \in [Source \X Day -> Snapshot \cup {None}]
  /\ committed \in [Source \X Day -> BOOLEAN]
  /\ failed \in [Source \X Day -> 0 .. MaxRows]
  /\ run \in [Run -> Execution]

Init ==
  /\ today = 0
  /\ body = [k \in Source \X Day |-> None]
  /\ manifest = [k \in Source \X Day |-> None]
  /\ latest = [s \in Source |-> None]
  /\ snapshot = [k \in Source \X Day |-> None]
  /\ committed = [k \in Source \X Day |-> FALSE]
  /\ failed = [k \in Source \X Day |-> 0]
  /\ run = [r \in Run |-> Rest]

\* The key of the source and the day that run r is working on.
Key(r) == <<run[r].source, run[r].day>>

\* The capture of r's source has ended, one way or another: on to the next one.
NextSource(r) ==
  run' = [run EXCEPT ![r] = [Rest EXCEPT !.at = "look", !.day = run[r].day,
                                         !.todo = run[r].todo \ {run[r].source}]]

Goes(r, place) == run' = [run EXCEPT ![r].at = place, ![r].prev = None]

\* The capture has failed: a manifest of the failure is due.
Fails(r) == run' = [run EXCEPT ![r].at = "failed", ![r].prev = None, ![r].sha256 = None]

-----------------------------------------------------------------------------
\* Phase 1: the capture into S3.

\* The schedule fires or somebody invokes the Lambda; the date is fixed here.
Begin(r) ==
  /\ run[r].at = "idle"
  /\ run' = [run EXCEPT ![r] = [Rest EXCEPT !.at = "look", !.day = today,
                                            !.todo = Source]]
  /\ UNCHANGED <<today, objects, rows>>

\* Too little time is left for this source, or S3 cannot say whether its
\* manifest exists: the run reports a failure and leaves nothing behind.
LeaveOut(r, s) ==
  /\ run[r].at = "look"
  /\ s \in run[r].todo
  /\ run' = [run EXCEPT ![r].todo = @ \ {s}]
  /\ UNCHANGED <<today, objects, rows>>

\* A source whose manifest exists is not fetched again.
Look(r, s) ==
  /\ run[r].at = "look"
  /\ s \in run[r].todo
  /\ run' = IF manifest[<<s, run[r].day>>] # None
              THEN [run EXCEPT ![r].todo = @ \ {s}]
              ELSE [run EXCEPT ![r].at = "fetch", ![r].source = s]
  /\ UNCHANGED <<today, objects, rows>>

\* A 200 with whatever the page holds at this moment.
Fetch(r, d) ==
  /\ run[r].at = "fetch"
  /\ run' = [run EXCEPT ![r].at = "body", ![r].sha256 = d]
  /\ UNCHANGED <<today, objects, rows>>

\* No answer, or another status.
FetchFails(r) ==
  /\ run[r].at = "fetch"
  /\ Fails(r)
  /\ UNCHANGED <<today, objects, rows>>

\* The manifest is written before the bytes that it points to.
PutBodyLater(r) ==
  /\ run[r].at = "body"
  /\ run' = [run EXCEPT ![r].at = "pointer", ![r].hasBody = TRUE]
  /\ UNCHANGED <<today, objects, rows>>

\* The bytes go to the day's key unconditionally.
PutBody(r) ==
  /\ run[r].at = "body"
  /\ \/ /\ body' = [body EXCEPT ![Key(r)] = run[r].sha256]
        /\ run' = [run EXCEPT ![r].at = "pointer", ![r].hasBody = TRUE]
     \/ /\ body' \in {body, [body EXCEPT ![Key(r)] = run[r].sha256]}
        /\ Fails(r)
  /\ UNCHANGED <<today, manifest, latest, rows>>

\* The pointer is moved when it has been read, before the manifest is written.
ReadAndMovePointer(r) ==
  /\ run[r].at = "pointer"
  /\ \/ run' = [run EXCEPT ![r].at = "manifest", ![r].prev = latest[run[r].source]]
     \/ Fails(r)
  /\ latest' = [latest EXCEPT ![run[r].source] = run[r].sha256]
  /\ UNCHANGED <<today, body, manifest, rows>>

\* The digest of the last successful capture, or nothing.
ReadPointer(r) ==
  /\ run[r].at = "pointer"
  /\ \/ run' = [run EXCEPT ![r].at = "manifest", ![r].prev = latest[run[r].source]]
     \/ Fails(r)
  /\ UNCHANGED <<today, objects, rows>>

\* A manifest replaces the one that another run may have written.
AlwaysWritable(r) == TRUE

\* The condition of every manifest write (IfNoneMatch).
Writable(r) == manifest[Key(r)] = None

Provenance(r) == IF r \in Scheduled THEN "scheduled" ELSE "manual"

OkManifest(r) ==
  [status |-> "ok", sha256 |-> run[r].sha256,
   delta |-> IF run[r].prev = run[r].sha256 THEN "unchanged" ELSE "changed",
   hasBody |-> TRUE, invocation |-> Provenance(r)]

\* The digest of a failed day, which nobody reads, is left out.
FailedManifest(r) ==
  [status |-> "failed", sha256 |-> None, delta |-> None,
   hasBody |-> run[r].hasBody, invocation |-> Provenance(r)]

\* The manifest of a captured day.  If another run was first, this one counts as
\* skipped; its bytes stay where it put them.
WriteManifest(r) ==
  /\ run[r].at = "manifest"
  /\ \/ /\ Writable(r)
        /\ manifest' = [manifest EXCEPT ![Key(r)] = OkManifest(r)]
        /\ Goes(r, "latest") \/ Fails(r)
     \/ /\ ~Writable(r)
        /\ NextSource(r)
        /\ UNCHANGED manifest
     \/ /\ Fails(r)
        /\ UNCHANGED manifest
  /\ UNCHANGED <<today, body, latest, rows>>

\* latest.json is overwritten unconditionally.  When that fails, the manifest of
\* a failure is tried next, and finds the day taken.
WritePointer(r) ==
  /\ run[r].at = "latest"
  /\ \/ /\ latest' = [latest EXCEPT ![run[r].source] = run[r].sha256]
        /\ NextSource(r)
     \/ /\ latest' \in {latest, [latest EXCEPT ![run[r].source] = run[r].sha256]}
        /\ Fails(r)
  /\ UNCHANGED <<today, body, manifest, rows>>

\* The manifest of a failure, with the body's key when the bytes landed: written,
\* or another run's is there, or not even that can be written.
WriteFailed(r) ==
  /\ run[r].at = "failed"
  /\ \/ Writable(r) /\ manifest' = [manifest EXCEPT ![Key(r)] = FailedManifest(r)]
     \/ UNCHANGED manifest
  /\ NextSource(r)
  /\ UNCHANGED <<today, body, latest, rows>>

-----------------------------------------------------------------------------
\* Phase 2 and the replay: the commit into the database.

\* Only the snapshot, or only the recording, of an "ok" day lands.
CommitPiecemeal(s, d) ==
  /\ manifest[<<s, d>>] # None
  /\ failed[<<s, d>>] < MaxRows
  /\ LET m == manifest[<<s, d>>]
     IN  IF m.status = "ok"
           THEN /\ \/ /\ snapshot[<<s, d>>] = None
                      /\ snapshot' = [snapshot EXCEPT ![<<s, d>>] = [sha256 |-> m.sha256, linked |-> FALSE]]
                      /\ UNCHANGED committed
                   \/ /\ snapshot[<<s, d>>] # None
                      /\ committed' = [committed EXCEPT ![<<s, d>>] = TRUE]
                      /\ UNCHANGED snapshot
                /\ UNCHANGED failed
           ELSE /\ failed' = [failed EXCEPT ![<<s, d>>] = @ + 1]
                /\ UNCHANGED <<snapshot, committed>>

\* commit_source_day(): the manifest is read, and one transaction inserts the
\* snapshot and the recording and links them, each unless it is there.  The
\* recording of a failed day has neither carrier nor lane; a NULL equals no NULL
\* in the unique index, so its insert never meets a conflict.
CommitSourceDay(s, d) ==
  /\ manifest[<<s, d>>] # None
  /\ failed[<<s, d>>] < MaxRows
  /\ LET m == manifest[<<s, d>>]
     IN  IF m.status = "ok"
           THEN /\ snapshot' = IF snapshot[<<s, d>>] = None
                                 THEN [snapshot EXCEPT ![<<s, d>>] = [sha256 |-> m.sha256,
                                                                  linked |-> ~committed[<<s, d>>]]]
                                 ELSE snapshot
                /\ committed' = [committed EXCEPT ![<<s, d>>] = TRUE]
                /\ UNCHANGED failed
           ELSE /\ failed' = [failed EXCEPT ![<<s, d>>] = @ + 1]
                /\ UNCHANGED <<snapshot, committed>>

\* The loop over the sources has ended; the database is connected.
BeginCommit(r) ==
  /\ run[r].at = "look"
  /\ run[r].todo = {}
  /\ run' = [run EXCEPT ![r].at = "commit", ![r].todo = Source]
  /\ UNCHANGED <<today, objects, rows>>

\* One source of the run's day, or nothing if it has no manifest.
CommitDay(r, s) ==
  /\ run[r].at = "commit"
  /\ s \in run[r].todo
  /\ run' = [run EXCEPT ![r].todo = @ \ {s}]
  /\ IF manifest[<<s, run[r].day>>] = None THEN UNCHANGED rows ELSE CommitSourceDay(s, run[r].day)
  /\ UNCHANGED <<today, objects>>

\* The run is over: all is done, or an exception of phase 2 ended it, or AWS
\* killed it.
Ends(r) ==
  /\ run[r].at # "idle"
  /\ run' = [run EXCEPT ![r] = Rest]
  /\ UNCHANGED <<today, objects, rows>>

\* An operator replays past days; the replay may stop after any of them.
Replay(s, d) ==
  /\ d <= today
  /\ CommitSourceDay(s, d)
  /\ UNCHANGED <<today, objects, run>>

-----------------------------------------------------------------------------
\* The verifier and the calendar.

\* The verifier's word on the day, which it only reads: whose invocation wrote it first matters.
ManifestStatus(m) ==
  IF m = None THEN "missing"
  ELSE IF m.status = "ok" /\ m.invocation = "manual" THEN "manual_only"
  ELSE m.status

Midnight ==
  /\ today < LastDay
  /\ today' = today + 1
  /\ UNCHANGED <<objects, rows, run>>

RunStep(r) ==
  \/ \E s \in Source : LeaveOut(r, s) \/ Look(r, s) \/ CommitDay(r, s)
  \/ \E d \in Digest : Fetch(r, d)
  \/ Begin(r) \/ FetchFails(r) \/ PutBody(r) \/ ReadPointer(r)
  \/ WriteManifest(r) \/ WritePointer(r) \/ WriteFailed(r)
  \/ BeginCommit(r) \/ Ends(r)

Next ==
  \/ \E r \in Run : RunStep(r)
  \/ \E s \in Source, d \in Day : Replay(s, d)
  \/ Midnight

Spec == Init /\ [][Next]_vars

-----------------------------------------------------------------------------
\* Properties.

\* commit.py: "one tariff_snapshots row and its linked recordings row land
\* together or not at all".  Whatever runs and replays commit a day in whatever
\* order, it ends up COMMITTED with the linked snapshot of what its manifest
\* records, or FAILED, and never both.
DayIsWhole ==
  \A k \in Source \X Day :
    /\ committed[k] <=> snapshot[k] # None
    /\ committed[k] =>
         /\ manifest[k] # None /\ manifest[k].status = "ok"
         /\ snapshot[k] = [sha256 |-> manifest[k].sha256, linked |-> TRUE]
         /\ failed[k] = 0

\* handler.py: "a day COUNTS if bytes landed in S3".  A manifest that names a
\* body names one that exists, although every call may fail and a run may end
\* between any two of them.
BytesKept ==
  \A k \in Source \X Day :
    manifest[k] # None /\ manifest[k].hasBody => body[k] # None

\* A day recorded as "unchanged" says that its content was there before.  Some
\* other day, already recorded by then, introduced that content as "changed": runs
\* of one day, or of two around midnight, cannot justify each other's "unchanged"
\* in a circle, nor a run its own.  The other day need not be an earlier one: a run
\* that straddles midnight reads a pointer that the next day's run has moved
\* (handler.py: "yesterday's (or whenever-last-successful's) hash").
UnchangedHasOrigin ==
  \A s \in Source, d \in Day :
    manifest[<<s, d>>] # None /\ manifest[<<s, d>>].delta = "unchanged" =>
      \E e \in Day :
        /\ manifest[<<s, e>>] # None
        /\ manifest[<<s, e>>].status = "ok"
        /\ manifest[<<s, e>>].delta = "changed"
        /\ manifest[<<s, e>>].sha256 = manifest[<<s, d>>].sha256

\* verifier.py: "whichever invocation writes first owns the manifest's invocation
\* field for that day".  What the verifier said of a manifest is not undone by a
\* later run.
VerdictStands ==
  [][\A k \in Source \X Day :
       ManifestStatus(manifest[k]) # "missing" =>
         ManifestStatus(manifest'[k]) = ManifestStatus(manifest[k])]_manifest

\* commit.py: "Idempotent: re-running with the same manifest for the same day
\* produces the same rows".
RunTwiceSameRows == \A k \in Source \X Day : failed[k] <= 1

\* handler.py: "harmless even if a racing invocation's body write also lands -
\* same bytes".
SameBytes ==
  \A k \in Source \X Day :
    manifest[k] # None /\ manifest[k].status = "ok" => body[k] = manifest[k].sha256

=============================================================================
