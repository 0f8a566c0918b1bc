------------------------ MODULE DailyRecordingProofs ------------------------
(***************************************************************************)
(* Proofs about DailyRecording, for any sources, overlapping runs, contents *)
(* and days: a day is committed whole or not at all, a manifest never names *)
(* a body that is not there, every "unchanged" goes back to a day that      *)
(* introduced the content, and what was said of a day stands.               *)
(***************************************************************************)
EXTENDS DailyRecording, TLAPS

USE RunKinds, CalendarAssumption, RowsAssumption, NoneAssumption

SD == Source \X Day

\* Where a run works on a source, and where it has the bytes of the page.
Working(r) ==
  run[r].at \in {"fetch", "body", "pointer", "manifest", "latest", "failed"}

\* Where a run is tells what it knows.
RunInv ==
  \A r \in Run :
    /\ Working(r) => run[r].source \in Source
    /\ run[r].at \in {"body", "pointer", "manifest", "latest"} => run[r].sha256 \in Digest
    /\ run[r].hasBody => Working(r)
    /\ run[r].prev # None => run[r].at = "manifest"

\* The bytes of a page are stored before anything says so.
BytesInv ==
  \A r \in Run :
    run[r].at \in {"pointer", "manifest"} \/ run[r].hasBody => body[Key(r)] # None

\* Among manifests m, some day of source s introduced the content with digest h.
Introduced(m, s, h) ==
  \E e \in Day : /\ m[<<s, e>>] # None /\ m[<<s, e>>].status = "ok"
                 /\ m[<<s, e>>].delta = "changed" /\ m[<<s, e>>].sha256 = h

\* The rolling pointer, and what a run read from it or is about to write to it,
\* is a digest that some day introduced.
PointerInv ==
  /\ \A s \in Source : latest[s] # None => Introduced(manifest, s, latest[s])
  /\ \A r \in Run : run[r].prev # None => Introduced(manifest, run[r].source, run[r].prev)
  /\ \A r \in Run : run[r].at = "latest" => Introduced(manifest, run[r].source, run[r].sha256)

\* FAILED rows are of failed days.
FailedInv ==
  \A k \in SD :
    failed[k] # 0 => manifest[k] # None /\ manifest[k].status = "failed"

\* What is recorded as unchanged was introduced by another day.
CaptureInv == RunInv /\ BytesInv /\ BytesKept /\ PointerInv /\ UnchangedHasOrigin

IInv == TypeOK /\ CaptureInv /\ FailedInv /\ DayIsWhole

-----------------------------------------------------------------------------
\* Nothing is captured or committed in the beginning.
LEMMA InitIInv == Init => IInv
<1> SUFFICES ASSUME Init PROVE IInv
  OBVIOUS
<1> USE DEF Init
<1>1. Rest \in Execution /\ 0 \in Day
  BY DEF Rest, Execution, Place, Page, Day
<1>2. TypeOK
  BY <1>1 DEF TypeOK, Page, Day
<1>3. RunInv /\ BytesInv
  BY DEF RunInv, BytesInv, Working, Rest
<1>4. BytesKept /\ PointerInv /\ UnchangedHasOrigin
  BY DEF BytesKept, PointerInv, UnchangedHasOrigin, Rest
<1>5. FailedInv
  BY DEF FailedInv, SD
<1>6. DayIsWhole
  BY DEF DayIsWhole
<1>7. QED
  BY <1>2, <1>3, <1>4, <1>5, <1>6 DEF IInv, CaptureInv

-----------------------------------------------------------------------------
\* The commit of a day keeps the types of the tables.
LEMMA CommitType ==
  ASSUME TypeOK, NEW s \in Source, NEW d \in Day, CommitSourceDay(s, d)
  PROVE  /\ snapshot' \in [SD -> Snapshot \cup {None}]
         /\ committed' \in [SD -> BOOLEAN]
         /\ failed' \in [SD -> 0 .. MaxRows]
<1> DEFINE m == manifest[<<s, d>>]
<1>1. <<s, d>> \in SD /\ m \in Manifest
  BY DEF TypeOK, SD, CommitSourceDay
<1>2. CASE m.status = "ok"
  <2>1. [sha256 |-> m.sha256, linked |-> ~committed[<<s, d>>]] \in Snapshot
    BY <1>1 DEF Manifest, Snapshot
  <2>2. snapshot' \in [SD -> Snapshot \cup {None}]
    <3> DEFINE row == [sha256 |-> m.sha256, linked |-> ~committed[<<s, d>>]]
    <3>1. snapshot' = snapshot \/ snapshot' = [snapshot EXCEPT ![<<s, d>>] = row]
      BY <1>2 DEF CommitSourceDay
    <3>2. row \in Snapshot
      BY <2>1
    <3> HIDE DEF row
    <3>3. QED
      BY <1>1, <3>1, <3>2 DEF TypeOK, SD
  <2>3. committed' \in [SD -> BOOLEAN]
    BY <1>1, <1>2 DEF CommitSourceDay, TypeOK, SD
  <2>4. QED
    BY <1>2, <2>2, <2>3 DEF CommitSourceDay, TypeOK, SD
<1>3. CASE m.status # "ok"
  BY <1>1, <1>3 DEF CommitSourceDay, TypeOK, SD
<1>4. QED
  BY <1>2, <1>3

\* Each action of a run keeps the types.
LEMMA RunStepType ==
  ASSUME TypeOK, RunInv, NEW r \in Run, RunStep(r)
  PROVE  TypeOK'
<1> USE DEF TypeOK
<1>1. run[r] \in Execution /\ Rest \in Execution
  BY DEF Rest, Execution, Place, Page, Day
<1>2. ASSUME NEW s \in Source, LeaveOut(r, s) \/ Look(r, s) PROVE TypeOK'
  <2>1. run' \in [Run -> Execution]
    <3>1. CASE run' = [run EXCEPT ![r].todo = @ \ {s}]
      BY <1>1, <3>1 DEF Execution
    <3>2. CASE run' = [run EXCEPT ![r].at = "fetch", ![r].source = s]
      BY <1>1, <3>2 DEF Execution, Place
    <3>3. QED
      BY <1>2, <3>1, <3>2 DEF LeaveOut, Look
  <2>2. QED
    BY <1>2, <2>1 DEF LeaveOut, Look, objects, rows
<1>3. ASSUME NEW s \in Source, CommitDay(r, s) PROVE TypeOK'
  <2>1. run' \in [Run -> Execution]
    BY <1>1, <1>3 DEF CommitDay, Execution
  <2>2. run[r].day \in Day
    BY <1>1 DEF Execution
  <2>3. QED
    BY <1>3, <2>1, <2>2, CommitType DEF CommitDay, objects, rows, SD
<1>4. ASSUME NEW d \in Digest, Fetch(r, d) PROVE TypeOK'
  BY <1>1, <1>4 DEF Fetch, objects, rows, Execution, Place, Page
<1>5. CASE Begin(r) \/ BeginCommit(r) \/ Ends(r) \/ FetchFails(r)
  <2>1. CASE Begin(r)
    <3>1. [Rest EXCEPT !.at = "look", !.day = today, !.todo = Source] \in Execution
      BY DEF Rest, Execution, Place, Page
    <3>2. QED
      BY <2>1, <3>1 DEF Begin, objects, rows
  <2>2. CASE BeginCommit(r)
    BY <1>1, <2>2 DEF BeginCommit, objects, rows, Execution, Place
  <2>3. CASE Ends(r)
    BY <1>1, <2>3 DEF Ends, objects, rows
  <2>4. CASE FetchFails(r)
    BY <1>1, <2>4 DEF FetchFails, Fails, objects, rows, Execution, Place, Page
  <2>5. QED
    BY <1>5, <2>1, <2>2, <2>3, <2>4
<1>6. ASSUME NextSource(r) PROVE run' \in [Run -> Execution]
  <2>1. [Rest EXCEPT !.at = "look", !.day = run[r].day, !.todo = run[r].todo \ {run[r].source}]
          \in Execution
    BY <1>1 DEF Rest, Execution, Place, Page
  <2>2. QED
    BY <1>6, <2>1 DEF NextSource
<1>7. ASSUME Fails(r) PROVE run' \in [Run -> Execution]
  BY <1>1, <1>7 DEF Fails, Execution, Place, Page
<1>8. ASSUME Goes(r, "latest") PROVE run' \in [Run -> Execution]
  BY <1>1, <1>8 DEF Goes, Execution, Place, Page
<1>9. CASE PutBody(r)
  <2>1. run' \in [Run -> Execution]
    <3>1. CASE run' = [run EXCEPT ![r].at = "pointer", ![r].hasBody = TRUE]
      BY <1>1, <3>1 DEF Execution, Place
    <3>2. QED
      BY <1>7, <1>9, <3>1 DEF PutBody
  <2>2. run[r].sha256 \in Page
    BY <1>1 DEF Execution
  <2>3. QED
    BY <1>9, <2>1, <2>2 DEF PutBody, rows
<1>10. CASE ReadPointer(r)
  <2>1. run[r].source \in Source
    BY <1>10 DEF ReadPointer, RunInv, Working
  <2>2. CASE run' = [run EXCEPT ![r].at = "manifest", ![r].prev = latest[run[r].source]]
    BY <1>1, <1>10, <2>1, <2>2 DEF ReadPointer, objects, rows, Execution, Place
  <2>3. QED
    BY <1>7, <1>10, <2>2 DEF ReadPointer, objects, rows
<1>11. CASE WriteManifest(r)
  <2>1. OkManifest(r) \in Manifest
    BY <1>1 DEF OkManifest, Manifest, Provenance, Invocation, Execution, Page
  <2>2. QED
    BY <1>6, <1>7, <1>8, <1>11, <2>1 DEF WriteManifest, rows
<1>12. CASE WritePointer(r)
  <2>1. run[r].sha256 \in Page
    BY <1>1 DEF Execution
  <2>2. latest' \in [Source -> Page]
    BY <1>12, <2>1 DEF WritePointer
  <2>3. QED
    BY <1>6, <1>7, <1>12, <2>2 DEF WritePointer, rows
<1>13. CASE WriteFailed(r)
  <2>1. FailedManifest(r) \in Manifest
    BY <1>1 DEF FailedManifest, Manifest, Provenance, Invocation, Execution, Page
  <2>2. QED
    BY <1>6, <1>13, <2>1 DEF WriteFailed, rows
<1>14. QED
  BY <1>2, <1>3, <1>4, <1>5, <1>9, <1>10, <1>11, <1>12, <1>13 DEF RunStep

\* Every step keeps the types.
LEMMA NextType ==
  ASSUME TypeOK, RunInv, [Next]_vars
  PROVE  TypeOK'
<1>1. CASE UNCHANGED vars
  BY <1>1 DEF vars, objects, rows, TypeOK
<1>2. ASSUME NEW s \in Source, NEW d \in Day, Replay(s, d) PROVE TypeOK'
  BY <1>2, CommitType DEF Replay, objects, TypeOK, SD
<1>3. CASE Midnight
  BY <1>3 DEF Midnight, objects, rows, TypeOK, Day
<1>4. QED
  BY <1>1, <1>2, <1>3, RunStepType DEF Next

-----------------------------------------------------------------------------
\* A run moves itself only.
LEMMA OthersStay ==
  ASSUME TypeOK, NEW r \in Run, RunStep(r)
  PROVE  \A q \in Run : q # r => run'[q] = run[q]
  BY DEF TypeOK, RunStep, LeaveOut, Look, CommitDay, Fetch, Begin, FetchFails, PutBody,
         ReadPointer, WriteManifest, WritePointer, WriteFailed, BeginCommit, Ends,
         Fails, Goes, NextSource

\* A manifest that is written is the first one of its source's day, and it is that
\* of a capture or of a failure of the run that is there.
LEMMA ManifestStep ==
  ASSUME TypeOK, RunInv, [Next]_vars, NEW k \in SD, manifest'[k] # manifest[k]
  PROVE  /\ manifest[k] = None
         /\ \E r \in Run :
              /\ k = Key(r)
              /\ \/ WriteManifest(r) /\ manifest'[k] = OkManifest(r)
                 \/ WriteFailed(r) /\ manifest'[k] = FailedManifest(r)
<1>1. ASSUME NEW r \in Run, RunStep(r), ~WriteManifest(r), ~WriteFailed(r)
      PROVE  UNCHANGED manifest
  BY <1>1 DEF RunStep, LeaveOut, Look, CommitDay, Fetch, Begin, FetchFails, PutBody,
     ReadPointer, WritePointer, BeginCommit, Ends, objects
<1>2. PICK r \in Run : WriteManifest(r) \/ WriteFailed(r)
  BY <1>1 DEF Next, vars, objects, Replay, Midnight
<1>3. Key(r) \in SD
  BY <1>2 DEF WriteManifest, WriteFailed, RunInv, Working, TypeOK, Execution, Key, SD
<1>4. CASE WriteManifest(r)
  BY <1>3, <1>4 DEF WriteManifest, Writable, TypeOK, SD
<1>5. CASE WriteFailed(r)
  BY <1>3, <1>5 DEF WriteFailed, Writable, TypeOK, SD
<1>6. QED
  BY <1>2, <1>4, <1>5

\* A manifest that is there is never written again.
LEMMA WriteOnce ==
  ASSUME TypeOK, RunInv, [Next]_vars
  PROVE  \A k \in SD : manifest[k] # None => manifest'[k] = manifest[k]
  BY ManifestStep

\* A body that is there may be replaced and is never removed.
LEMMA BodyStays ==
  ASSUME TypeOK, RunInv, [Next]_vars
  PROVE  \A k \in SD : body[k] # None => body'[k] # None
<1>1. CASE UNCHANGED body
  BY <1>1
<1>2. ASSUME NEW r \in Run, PutBody(r)
      PROVE  \A k \in SD : body[k] # None => body'[k] # None
  <2>1. run[r].sha256 \in Digest
    BY <1>2 DEF PutBody, RunInv
  <2>2. QED
    BY <1>2, <2>1 DEF PutBody, TypeOK, SD
<1>3. ASSUME NEW r \in Run, RunStep(r), ~PutBody(r)
      PROVE  UNCHANGED body
  BY <1>3 DEF RunStep, LeaveOut, Look, CommitDay, Fetch, Begin, FetchFails,
     ReadPointer, WriteManifest, WritePointer, WriteFailed, BeginCommit, Ends, objects
<1>4. QED
  BY <1>1, <1>2, <1>3 DEF Next, vars, objects, Replay, Midnight

\* Where a run is still tells what it knows.
LEMMA NextRunInv ==
  ASSUME TypeOK, RunInv, [Next]_vars
  PROVE  RunInv'
<1>1. CASE UNCHANGED run
  BY <1>1 DEF RunInv, Working
<1>2. ASSUME NEW r \in Run, RunStep(r) PROVE RunInv'
  <2>1. \A q \in Run : q # r => run'[q] = run[q]
    BY <1>2, OthersStay
  <2>2. run \in [Run -> Execution] /\ run[r] \in Execution
    BY DEF TypeOK
  <2> DEFINE Good ==
        /\ Working(r)' => run'[r].source \in Source
        /\ run'[r].at \in {"body", "pointer", "manifest", "latest"} => run'[r].sha256 \in Digest
        /\ run'[r].hasBody => Working(r)'
        /\ run'[r].prev # None => run'[r].at = "manifest"
  <2>3. ASSUME NEW s \in Source, LeaveOut(r, s) \/ Look(r, s) \/ CommitDay(r, s) PROVE Good
    BY <2>2, <2>3 DEF LeaveOut, Look, CommitDay, RunInv, Working, Execution
  <2>4. ASSUME NEW d \in Digest, Fetch(r, d) PROVE Good
    BY <2>2, <2>4 DEF Fetch, RunInv, Working, Execution
  <2>5. ASSUME Begin(r) \/ BeginCommit(r) \/ Ends(r) PROVE Good
    <3>1. CASE Begin(r)
      BY <2>2, <3>1 DEF Begin, Working, Rest
    <3>2. CASE BeginCommit(r)
      BY <2>2, <3>2 DEF BeginCommit, RunInv, Working, Execution
    <3>3. CASE Ends(r)
      BY <2>2, <3>3 DEF Ends, Working, Rest
    <3>4. QED
      BY <2>5, <3>1, <3>2, <3>3
  <2>6. ASSUME Fails(r), Working(r) PROVE Good
    BY <2>2, <2>6 DEF Fails, RunInv, Working, Execution
  <2>7. ASSUME NextSource(r) PROVE Good
    BY <2>2, <2>7 DEF NextSource, Rest, Working, Execution
  <2>8. ASSUME FetchFails(r) PROVE Good
    BY <2>6, <2>8 DEF FetchFails, Working
  <2>9. ASSUME PutBody(r) PROVE Good
    BY <2>2, <2>6, <2>9 DEF PutBody, RunInv, Working, Execution
  <2>10. ASSUME ReadPointer(r) PROVE Good
    BY <2>2, <2>6, <2>10 DEF ReadPointer, RunInv, Working, Execution
  <2>11. ASSUME WriteManifest(r) PROVE Good
    BY <2>2, <2>6, <2>7, <2>11 DEF WriteManifest, Goes, RunInv, Working, Execution
  <2>12. ASSUME WritePointer(r) \/ WriteFailed(r) PROVE Good
    BY <2>6, <2>7, <2>12 DEF WritePointer, WriteFailed, Working
  <2>13. Good
    BY <1>2, <2>3, <2>4, <2>5, <2>8, <2>9, <2>10, <2>11, <2>12 DEF RunStep
  <2>14. QED
    BY <2>1, <2>13 DEF RunInv, Working
<1>3. QED
  BY <1>1, <1>2 DEF Next, vars, Replay, Midnight

-----------------------------------------------------------------------------
\* Of the capture, part by part.  Bytes first, everything that tells of them later.
LEMMA NextBytesInv ==
  ASSUME TypeOK, RunInv, BytesInv, [Next]_vars
  PROVE  BytesInv'
<1> DEFINE Told(q) == run[q].at \in {"pointer", "manifest"} \/ run[q].hasBody
<1>1. ASSUME NEW q \in Run, Told(q) PROVE body'[Key(q)] # None
  <2>1. Key(q) \in SD
    BY <1>1 DEF RunInv, Working, TypeOK, Execution, Key, SD
  <2>2. QED
    BY <1>1, <2>1, BodyStays DEF BytesInv
<1>2. CASE UNCHANGED run
  BY <1>1, <1>2 DEF BytesInv, Key
<1>3. ASSUME NEW r \in Run, RunStep(r) PROVE BytesInv'
  <2>1. run \in [Run -> Execution] /\ run[r] \in Execution
    BY DEF TypeOK
  <2> DEFINE Kept == Told(r)' => Told(r) /\ Key(r)' = Key(r)
  <2>2. ASSUME NEW s \in Source, LeaveOut(r, s) \/ Look(r, s) \/ CommitDay(r, s) PROVE Kept
    BY <2>1, <2>2 DEF LeaveOut, Look, CommitDay, RunInv, Working, Execution, Key
  <2>3. ASSUME NEW d \in Digest, Fetch(r, d) PROVE Kept
    BY <2>1, <2>3 DEF Fetch, RunInv, Working, Execution, Key
  <2>4. ASSUME Begin(r) \/ Ends(r) \/ NextSource(r) PROVE Kept
    <3>1. CASE Begin(r)
      BY <2>1, <3>1 DEF Begin, Rest
    <3>2. CASE Ends(r)
      BY <2>1, <3>2 DEF Ends, Rest
    <3>3. CASE NextSource(r)
      BY <2>1, <3>3 DEF NextSource, Rest
    <3>4. QED
      BY <2>4, <3>1, <3>2, <3>3
  <2>5. ASSUME BeginCommit(r) PROVE Kept
    BY <2>1, <2>5 DEF BeginCommit, RunInv, Working, Execution
  <2>6. ASSUME Fails(r) PROVE Kept
    BY <2>1, <2>6 DEF Fails, Execution, Key
  <2>7. ASSUME ReadPointer(r) PROVE Kept
    BY <2>1, <2>6, <2>7 DEF ReadPointer, Execution, Key
  <2>8. ASSUME WriteManifest(r) PROVE Kept
    BY <2>1, <2>4, <2>6, <2>8 DEF WriteManifest, Goes, Execution, Key
  <2>9. ASSUME PutBody(r), ~Kept PROVE body'[Key(r)'] # None
    <3>1. run' = [run EXCEPT ![r].at = "pointer", ![r].hasBody = TRUE]
          /\ body' = [body EXCEPT ![Key(r)] = run[r].sha256]
      BY <2>6, <2>9 DEF PutBody
    <3>2. Key(r)' = Key(r) /\ Key(r) \in SD /\ run[r].sha256 \in Digest
      BY <2>1, <2>9, <3>1 DEF PutBody, RunInv, Working, Execution, Key, SD
    <3>3. QED
      BY <3>1, <3>2 DEF TypeOK, SD
  <2>10. Kept \/ body'[Key(r)'] # None
    BY <1>3, <2>2, <2>3, <2>4, <2>5, <2>6, <2>7, <2>8, <2>9
    DEF RunStep, FetchFails, WritePointer, WriteFailed
  <2>11. \A q \in Run : q # r => run'[q] = run[q]
    BY <1>3, OthersStay
  <2>12. QED
    BY <1>1, <2>10, <2>11 DEF BytesInv, Key
<1>4. QED
  BY <1>2, <1>3 DEF Next, vars, Replay, Midnight

\* A manifest never names a body that is not there.
LEMMA NextBytesKept ==
  ASSUME TypeOK, RunInv, BytesInv, BytesKept, [Next]_vars
  PROVE  BytesKept'
<1> SUFFICES ASSUME NEW k \in SD, manifest'[k] # None, manifest'[k].hasBody
             PROVE  body'[k] # None
  BY DEF BytesKept, SD
<1>1. CASE manifest'[k] = manifest[k]
  BY <1>1, BodyStays DEF BytesKept, SD
<1>2. CASE manifest'[k] # manifest[k]
  <2>1. PICK r \in Run :
          /\ k = Key(r)
          /\ \/ WriteManifest(r) /\ manifest'[k] = OkManifest(r)
             \/ WriteFailed(r) /\ manifest'[k] = FailedManifest(r)
    BY <1>2, ManifestStep
  <2>2. run[r].at = "manifest" \/ run[r].hasBody
    BY <2>1 DEF WriteManifest, FailedManifest
  <2>3. body[k] # None
    BY <2>1, <2>2 DEF BytesInv
  <2>4. QED
    BY <2>3, BodyStays
<1>3. QED
  BY <1>1, <1>2

\* What a day introduced it has introduced for good.
LEMMA IntroducedStays ==
  ASSUME TypeOK, RunInv, [Next]_vars
  PROVE  \A s \in Source : \A h :
           Introduced(manifest, s, h) => Introduced(manifest', s, h)
<1> SUFFICES ASSUME NEW s \in Source, NEW h, Introduced(manifest, s, h)
             PROVE  Introduced(manifest', s, h)
  OBVIOUS
<1>1. PICK e \in Day : /\ manifest[<<s, e>>] # None
                       /\ manifest[<<s, e>>].status = "ok"
                       /\ manifest[<<s, e>>].delta = "changed"
                       /\ manifest[<<s, e>>].sha256 = h
  BY DEF Introduced
<1>2. manifest'[<<s, e>>] = manifest[<<s, e>>]
  BY <1>1, WriteOnce DEF SD
<1>3. QED
  BY <1>1, <1>2 DEF Introduced

\* "unchanged" is written only of a digest that some day introduced.
LEMMA NextUnchanged ==
  ASSUME TypeOK, RunInv, PointerInv, UnchangedHasOrigin, [Next]_vars
  PROVE  UnchangedHasOrigin'
<1> SUFFICES ASSUME NEW s \in Source, NEW d \in Day, manifest'[<<s, d>>] # None,
                    manifest'[<<s, d>>].delta = "unchanged"
             PROVE  Introduced(manifest', s, manifest'[<<s, d>>].sha256)
  BY DEF UnchangedHasOrigin, Introduced
<1>1. CASE manifest'[<<s, d>>] = manifest[<<s, d>>]
  <2>1. Introduced(manifest, s, manifest[<<s, d>>].sha256)
    BY <1>1 DEF UnchangedHasOrigin, Introduced
  <2>2. QED
    BY <1>1, <2>1, IntroducedStays
<1>2. CASE manifest'[<<s, d>>] # manifest[<<s, d>>]
  <2>1. PICK r \in Run :
          /\ <<s, d>> = Key(r)
          /\ \/ WriteManifest(r) /\ manifest'[<<s, d>>] = OkManifest(r)
             \/ WriteFailed(r) /\ manifest'[<<s, d>>] = FailedManifest(r)
    BY <1>2, ManifestStep DEF SD
  <2>2. WriteManifest(r) /\ manifest'[<<s, d>>] = OkManifest(r)
    BY <2>1, DeltaAssumption DEF FailedManifest
  <2>3. run[r].sha256 \in Digest /\ run[r].prev = run[r].sha256 /\ run[r].source = s
    BY <2>1, <2>2 DEF WriteManifest, OkManifest, RunInv, Key
  <2>4. Introduced(manifest, s, run[r].sha256)
    BY <2>3 DEF PointerInv
  <2>5. manifest'[<<s, d>>].sha256 = run[r].sha256
    BY <2>2 DEF OkManifest
  <2>6. QED
    BY <2>4, <2>5, IntroducedStays
<1>3. QED
  BY <1>1, <1>2

\* The pointer, what was read from it and what will be written to it go back to a
\* day that introduced it.
LEMMA NextPointerInv ==
  ASSUME TypeOK, RunInv, PointerInv, [Next]_vars
  PROVE  PointerInv'
<1>1. \A s \in Source : latest'[s] # None => Introduced(manifest', s, latest'[s])
  <2> SUFFICES ASSUME NEW s \in Source, latest'[s] # None PROVE Introduced(manifest', s, latest'[s])
    OBVIOUS
  <2>1. CASE latest'[s] = latest[s]
    BY <2>1, IntroducedStays DEF PointerInv
  <2>2. CASE latest'[s] # latest[s]
    <3>1. PICK r \in Run : WritePointer(r)
      BY <2>2 DEF Next, vars, objects, rows, Replay, Midnight, RunStep, LeaveOut, Look,
         CommitDay, Fetch, Begin, FetchFails, PutBody, ReadPointer, WriteManifest,
         WriteFailed, BeginCommit, Ends
    <3>2. latest'[s] = run[r].sha256 /\ s = run[r].source
      BY <2>2, <3>1 DEF WritePointer, TypeOK
    <3>3. Introduced(manifest, s, run[r].sha256)
      BY <3>1, <3>2 DEF WritePointer, PointerInv
    <3>4. QED
      BY <3>2, <3>3, IntroducedStays
  <2>3. QED
    BY <2>1, <2>2
<1>2. ASSUME NEW q \in Run, run'[q] = run[q]
      PROVE  /\ run'[q].prev # None => Introduced(manifest', run'[q].source, run'[q].prev)
             /\ run'[q].at = "latest" => Introduced(manifest', run'[q].source, run'[q].sha256)
  <2>1. run[q].prev # None \/ run[q].at = "latest" => run[q].source \in Source
    BY DEF RunInv, Working
  <2>2. QED
    BY <1>2, <2>1, IntroducedStays DEF PointerInv
<1>3. ASSUME NEW r \in Run, RunStep(r)
      PROVE  /\ run'[r].prev # None => Introduced(manifest', run'[r].source, run'[r].prev)
             /\ run'[r].at = "latest" => Introduced(manifest', run'[r].source, run'[r].sha256)
  <2> DEFINE Backed == /\ run'[r].prev # None => Introduced(manifest', run'[r].source, run'[r].prev)
                       /\ run'[r].at = "latest" => Introduced(manifest', run'[r].source, run'[r].sha256)
             Blank == run'[r].prev = None /\ run'[r].at # "latest"
  <2>1. run \in [Run -> Execution] /\ run[r] \in Execution
    BY DEF TypeOK
  <2>2. ASSUME NEW s \in Source, LeaveOut(r, s) \/ Look(r, s) \/ CommitDay(r, s) PROVE Blank
    BY <2>1, <2>2 DEF LeaveOut, Look, CommitDay, RunInv, Execution
  <2>3. ASSUME NEW d \in Digest, Fetch(r, d) PROVE Blank
    BY <2>1, <2>3 DEF Fetch, RunInv, Execution
  <2>4. ASSUME Begin(r) PROVE Blank
    BY <2>1, <2>4 DEF Begin, Rest
  <2>5. ASSUME Ends(r) PROVE Blank
    BY <2>1, <2>5 DEF Ends, Rest
  <2>6. ASSUME NextSource(r) PROVE Blank
    BY <2>1, <2>6 DEF NextSource, Rest
  <2>7. ASSUME BeginCommit(r) PROVE Blank
    BY <2>1, <2>7 DEF BeginCommit, RunInv, Execution
  <2>8. ASSUME Fails(r) PROVE Blank
    BY <2>1, <2>8 DEF Fails, Execution
  <2>9. ASSUME PutBody(r) PROVE Blank
    BY <2>1, <2>8, <2>9 DEF PutBody, RunInv, Execution
  <2>10. ASSUME ReadPointer(r), ~Blank PROVE Backed
    <3>1. run' = [run EXCEPT ![r].at = "manifest", ![r].prev = latest[run[r].source]]
      BY <2>8, <2>10 DEF ReadPointer
    <3>2. /\ run'[r].source = run[r].source /\ run'[r].at = "manifest"
          /\ run'[r].prev = latest[run[r].source]
      BY <2>1, <3>1 DEF Execution
    <3>3. run[r].source \in Source
      BY <2>10 DEF ReadPointer, RunInv, Working
    <3>4. latest[run[r].source] # None => Introduced(manifest', run[r].source, latest[run[r].source])
      BY <3>3, IntroducedStays DEF PointerInv
    <3>5. QED
      BY <3>2, <3>4
  <2>11. ASSUME WriteManifest(r), ~Blank PROVE Backed
    <3>1. Writable(r) /\ manifest' = [manifest EXCEPT ![Key(r)] = OkManifest(r)]
          /\ run' = [run EXCEPT ![r].at = "latest", ![r].prev = None]
      BY <2>6, <2>8, <2>11 DEF WriteManifest, Goes
    <3>2. /\ run'[r].source = run[r].source /\ run'[r].at = "latest"
          /\ run'[r].prev = None /\ run'[r].sha256 = run[r].sha256
      BY <2>1, <3>1 DEF Execution
    <3>3. run[r].source \in Source /\ run[r].day \in Day
      BY <2>1, <2>11 DEF WriteManifest, RunInv, Working, Execution
    <3>4. manifest'[<<run[r].source, run[r].day>>] = OkManifest(r)
      BY <3>1, <3>3 DEF Key, TypeOK
    <3>5. OkManifest(r) # None
      <4>1. OkManifest(r) \in Manifest
        BY <2>1 DEF OkManifest, Manifest, Provenance, Invocation, Execution, Page
      <4>2. QED
        BY <4>1
    <3>6. OkManifest(r).status = "ok" /\ OkManifest(r).sha256 = run[r].sha256
      BY DEF OkManifest
    <3>7. CASE run[r].prev = run[r].sha256
      <4>1. run[r].prev # None
        BY <2>11, <3>7 DEF WriteManifest, RunInv
      <4>2. Introduced(manifest, run[r].source, run[r].sha256)
        BY <3>7, <4>1 DEF PointerInv
      <4>3. Introduced(manifest', run[r].source, run[r].sha256)
        BY <3>3, <4>2, IntroducedStays
      <4>4. QED
        BY <3>2, <4>3
    <3>8. CASE run[r].prev # run[r].sha256
      <4>1. OkManifest(r).delta = "changed"
        BY <3>8 DEF OkManifest
      <4>2. Introduced(manifest', run[r].source, run[r].sha256)
        BY <3>3, <3>4, <3>5, <3>6, <4>1 DEF Introduced
      <4>3. QED
        BY <3>2, <4>2
    <3>9. QED
      BY <3>7, <3>8
  <2>12. Blank \/ Backed
    BY <1>3, <2>2, <2>3, <2>4, <2>5, <2>6, <2>7, <2>8, <2>9, <2>10, <2>11
    DEF RunStep, FetchFails, WritePointer, WriteFailed
  <2>13. QED
    BY <2>12
<1>4. \A q \in Run : run'[q] # run[q] => RunStep(q)
  BY OthersStay DEF Next, vars, Replay, Midnight
<1>5. QED
  BY <1>1, <1>2, <1>3, <1>4 DEF PointerInv

-----------------------------------------------------------------------------
\* What a commit finds: a captured day that it makes whole, or a failed one that
\* has no rows of success.
LEMMA CommitStep ==
  ASSUME TypeOK, RunInv, FailedInv, DayIsWhole, NEW s \in Source, NEW d \in Day,
         CommitSourceDay(s, d), UNCHANGED manifest
  PROVE  FailedInv' /\ DayIsWhole'
<1> DEFINE k == <<s, d>>
           m == manifest[k]
<1>1. k \in SD /\ m # None
  BY DEF CommitSourceDay, SD
<1>2. CASE m.status = "ok"
  <2> DEFINE row == [sha256 |-> m.sha256, linked |-> TRUE]
  <2>1. committed' = [committed EXCEPT ![k] = TRUE] /\ failed' = failed
    BY <1>2 DEF CommitSourceDay
  <2>2. failed[k] = 0
    BY <1>1, <1>2 DEF FailedInv
  <2>3. snapshot' = IF snapshot[k] = None THEN [snapshot EXCEPT ![k] = row] ELSE snapshot
    <3>1. snapshot[k] = None => ~committed[k]
      BY <1>1 DEF DayIsWhole, SD
    <3>2. CASE snapshot[k] = None
      <4>1. (~committed[k]) = TRUE
        BY <3>1, <3>2
      <4>2. snapshot' = [snapshot EXCEPT ![k] = [sha256 |-> m.sha256, linked |-> ~committed[k]]]
        BY <1>2, <3>2 DEF CommitSourceDay
      <4>3. QED
        BY <3>2, <4>1, <4>2
    <3>3. CASE snapshot[k] # None
      BY <1>2, <3>3 DEF CommitSourceDay
    <3>4. QED
      BY <3>2, <3>3
  <2>4. row # None
    <3>1. row \in Snapshot
      BY <1>1 DEF Snapshot, TypeOK, Manifest, SD
    <3>2. QED
      BY <3>1
  <2>5. snapshot[k] # None => snapshot[k] = row
    BY <1>1 DEF DayIsWhole, SD
  <2> HIDE DEF row
  <2>6. snapshot'[k] = row /\ committed'[k]
    BY <1>1, <2>1, <2>3, <2>5 DEF TypeOK, SD
  <2>7. \A j \in SD : j # k => snapshot'[j] = snapshot[j] /\ committed'[j] = committed[j]
    BY <2>1, <2>3 DEF TypeOK, SD
  <2>8. DayIsWhole'
    <3>1. SUFFICES ASSUME NEW j \in SD
                   PROVE  /\ committed'[j] <=> snapshot'[j] # None
                          /\ committed'[j] =>
                               /\ manifest[j] # None /\ manifest[j].status = "ok"
                               /\ snapshot'[j] = [sha256 |-> manifest[j].sha256, linked |-> TRUE]
                               /\ failed[j] = 0
      BY <2>1 DEF DayIsWhole, SD
    <3>2. CASE j = k
      BY <1>1, <1>2, <2>2, <2>4, <2>6, <3>2 DEF row
    <3>3. CASE j # k
      BY <2>7, <3>3 DEF DayIsWhole, SD
    <3>4. QED
      BY <3>2, <3>3
  <2>9. QED
    BY <2>1, <2>8 DEF FailedInv
<1>3. CASE m.status # "ok"
  <2>1. snapshot' = snapshot /\ committed' = committed
        /\ failed' = [failed EXCEPT ![k] = @ + 1]
    BY <1>3 DEF CommitSourceDay
  <2>2. m.status = "failed"
    BY <1>1, <1>3 DEF TypeOK, Manifest, SD
  <2>3. ~committed[k]
    BY <1>1, <1>3 DEF DayIsWhole, SD
  <2>4. \A j \in SD : j # k => failed'[j] = failed[j]
    BY <2>1 DEF TypeOK, SD
  <2>5. QED
    BY <1>1, <2>1, <2>2, <2>3, <2>4 DEF FailedInv, DayIsWhole, SD
<1>4. QED
  BY <1>2, <1>3

\* The rows agree with the manifests after every step.
LEMMA NextRows ==
  ASSUME TypeOK, RunInv, FailedInv, DayIsWhole, [Next]_vars
  PROVE  FailedInv' /\ DayIsWhole'
<1>1. CASE UNCHANGED rows
  <2>1. FailedInv'
    BY <1>1, WriteOnce DEF rows, FailedInv
  <2>2. ASSUME NEW k \in SD
        PROVE  /\ committed'[k] <=> snapshot'[k] # None
               /\ committed'[k] =>
                    /\ manifest'[k] # None /\ manifest'[k].status = "ok"
                    /\ snapshot'[k] = [sha256 |-> manifest'[k].sha256, linked |-> TRUE]
                    /\ failed'[k] = 0
    <3>1. CASE committed[k]
      <4>1. manifest'[k] = manifest[k]
        BY <3>1, WriteOnce DEF DayIsWhole, SD
      <4>2. QED
        BY <1>1, <3>1, <4>1 DEF rows, DayIsWhole, SD
    <3>2. CASE ~committed[k]
      BY <1>1, <3>2 DEF rows, DayIsWhole, SD
    <3>3. QED
      BY <3>1, <3>2
  <2>3. QED
    BY <2>1, <2>2 DEF DayIsWhole, SD
<1>2. ASSUME NEW s \in Source, NEW d \in Day, CommitSourceDay(s, d), UNCHANGED manifest
      PROVE  FailedInv' /\ DayIsWhole'
  BY <1>2, CommitStep
<1>3. ASSUME NEW r \in Run, NEW s \in Source, CommitDay(r, s), ~UNCHANGED rows
      PROVE  FailedInv' /\ DayIsWhole'
  <2>1. run[r].day \in Day
    BY DEF TypeOK, Execution
  <2>2. QED
    BY <1>2, <1>3, <2>1 DEF CommitDay, objects
<1>4. ASSUME NEW r \in Run, RunStep(r), \A s \in Source : ~CommitDay(r, s)
      PROVE  UNCHANGED rows
  BY <1>4 DEF RunStep, LeaveOut, Look, Fetch, Begin, FetchFails, PutBody, ReadPointer,
     WriteManifest, WritePointer, WriteFailed, BeginCommit, Ends
<1>5. QED
  BY <1>1, <1>2, <1>3, <1>4 DEF Next, vars, objects, Replay, Midnight

\* Every step keeps the inductive invariant.
LEMMA NextIInv == IInv /\ [Next]_vars => IInv'
  BY NextType, NextRunInv, NextBytesInv, NextBytesKept, NextPointerInv, NextUnchanged,
     NextRows DEF IInv, CaptureInv

-----------------------------------------------------------------------------
\* The inductive invariant holds of every reachable state.
THEOREM Invariance == Spec => []IInv
  BY InitIInv, NextIInv, PTL DEF Spec

\* The variables keep their types.
THEOREM TypeCorrect == Spec => []TypeOK
<1>1. IInv => TypeOK
  BY DEF IInv
<1>2. QED
  BY <1>1, Invariance, PTL

\* A day is committed with its linked snapshot, or has FAILED rows, or none:
\* commit_source_day under any runs and replays.
THEOREM DaysAreWhole == Spec => []DayIsWhole
<1>1. IInv => DayIsWhole
  BY DEF IInv
<1>2. QED
  BY <1>1, Invariance, PTL

\* A manifest that names a body names one that exists.
THEOREM BytesLanded == Spec => []BytesKept
<1>1. IInv => BytesKept
  BY DEF IInv, CaptureInv
<1>2. QED
  BY <1>1, Invariance, PTL

\* "unchanged" goes back to a recording that introduced the content.
THEOREM UnchangedTraced == Spec => []UnchangedHasOrigin
<1>1. IInv => UnchangedHasOrigin
  BY DEF IInv, CaptureInv
<1>2. QED
  BY <1>1, Invariance, PTL

\* The verifier's word on a manifest is final.
THEOREM VerdictKept == Spec => VerdictStands
<1>1. IInv /\ [Next]_vars =>
        [\A k \in Source \X Day :
           ManifestStatus(manifest[k]) # "missing" =>
             ManifestStatus(manifest'[k]) = ManifestStatus(manifest[k])]_manifest
  BY WriteOnce DEF IInv, CaptureInv, ManifestStatus, SD
<1>2. QED
  BY <1>1, Invariance, PTL DEF Spec, VerdictStands

=============================================================================
