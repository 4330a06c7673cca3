--------------------------- MODULE EvidenceUpload ---------------------------
(***************************************************************************)
(* How a fetched artifact becomes evidence: the pipeline stages a file on  *)
(* local disk, _upload_artifact copies it into the blob store and hashes   *)
(* it, create_evidence commits the File and OrderFile rows in a session of *)
(* its own, and the worker commits the document row last.                  *)
(*                                                                         *)
(* One document type is modelled.  A run is one call of the document       *)
(* fetcher: a delivery of a job's task, so a job has a new run after each  *)
(* crash and an order a new run for each of its jobs.  Staged pages carry  *)
(* the time they were made, so no two runs fetch equal bytes and a run     *)
(* stands for the bytes it fetched.                                        *)
(*                                                                         *)
(* storage.py picks the store once per process, at import: a process of a  *)
(* deployment that asks for S3 and cannot build the client writes to the   *)
(* local disk instead.  So the runs of one order may use different stores. *)
(***************************************************************************)
EXTENDS Naturals

CONSTANTS
    Run, Job, Order, Folder,
    NoRun,     \* no content, no row
    JobOf,     \* the job each run is a delivery of
    OrderOf,   \* the order of each job
    FolderOf   \* the staging folder of each run: parcel id and street line

ASSUME EvidenceAssumption ==
    /\ NoRun \notin Run
    /\ JobOf \in [Run -> Job]
    /\ OrderOf \in [Job -> Order]
    /\ FolderOf \in [Run -> Folder]

VARIABLES
    store,   \* the backend in the process of each run
    staged,  \* the file in each staging folder
    blob,    \* the object under each key of each backend
    files,   \* the File (and OrderFile) rows a run committed
    docs,    \* the document row of each job
    pc,      \* where each run is
    seen,    \* the staged bytes a run opened to copy
    digest,  \* the bytes it hashed
    torn,    \* runs whose copy to the disk was cut short or met another writer
    wrote,   \* history: runs that wrote to the store
    overlap  \* history: two runs were active at once

rows == <<files, docs>>
vars == <<store, staged, blob, rows, pc, seen, digest, torn, wrote, overlap>>

Backend == {"local", "s3"}

Blob    == [data: Run \cup {NoRun}, whole: BOOLEAN]
FileRow == [made: BOOLEAN, digest: Run \cup {NoRun}]
Doc     == [status: {"fetching", "uploaded", "failed"}, file: Run \cup {NoRun}]

NoBlob == [data |-> NoRun, whole |-> FALSE]
NoFile == [made |-> FALSE, digest |-> NoRun]

\* The document type is fixed, and with it the extension, so a key is an order:
\* tenant / order / type.
build_key(r) == OrderOf[JobOf[r]]

\* The object a run reads and writes: its key in the store of its process.
Object(r) == <<store[r], build_key(r)>>

\* LocalStorage.exists sees a file as soon as it is created, half copied too.
exists(o) == blob[o].data # NoRun

ActivePlace == {"staged", "copy", "copying", "hash", "evidence", "linked",
                "bare", "broken"}

Active(r) == pc[r] \in ActivePlace

\* A copy to the disk is under way: the file is there and not yet complete.
Copying(r) == pc[r] = "copying" /\ store[r] = "local"

Observe ==
    overlap' = (overlap \/ \E r, s \in Run :
                   r # s /\ pc'[r] \in ActivePlace /\ pc'[s] \in ActivePlace)

Goto(r, place) ==
    /\ pc' = [pc EXCEPT ![r] = place]
    /\ UNCHANGED store
    /\ Observe

\* _make: with QP_STORAGE_BACKEND unset every process has the local store, with
\* s3 each has the one its import ended with.
_make == store \in [Run -> Backend]

Init ==
    /\ _make
    /\ staged = [f \in Folder |-> NoRun]
    /\ blob = [o \in Backend \X Order |-> NoBlob]
    /\ files = [r \in Run |-> NoFile]
    /\ docs = [j \in Job |-> [status |-> "fetching", file |-> NoRun]]
    /\ pc = [r \in Run |-> "idle"]
    /\ seen = [r \in Run |-> NoRun]
    /\ digest = [r \in Run |-> NoRun]
    /\ torn = {}
    /\ wrote = {}
    /\ overlap = FALSE

-----------------------------------------------------------------------------
(* The run stages its artifact *)

\* run_research writes the artifact into the folder of the run, over whatever
\* an earlier or concurrent run left under the same name, and under a copy that
\* reads it.
Stage(r) ==
    /\ pc[r] = "idle"
    /\ staged' = [staged EXCEPT ![FolderOf[r]] = r]
    /\ torn' = torn \cup {s \in Run : Copying(s) /\ FolderOf[s] = FolderOf[r]}
    /\ Goto(r, "staged")
    /\ UNCHANGED <<blob, rows, seen, digest, wrote>>

\* The step is ok and names no file that is on disk: _upload_artifact returns
\* and the status stays uploaded.
NoArtifact(r) ==
    /\ pc[r] = "idle"
    /\ Goto(r, "bare")
    /\ UNCHANGED <<staged, blob, rows, seen, digest, torn, wrote>>

\* The step is not ok, or run_research raised: the document becomes fetched,
\* skipped or failed, which this module does not tell apart.
NotFetched(r) ==
    /\ pc[r] = "idle"
    /\ Goto(r, "broken")
    /\ UNCHANGED <<staged, blob, rows, seen, digest, torn, wrote>>

-----------------------------------------------------------------------------
(* _upload_artifact *)

\* Mutant: the exists() probe is left out.
ProbeAlwaysCopies(r) ==
    /\ pc[r] = "staged"
    /\ Goto(r, "copy")
    /\ UNCHANGED <<staged, blob, rows, seen, digest, torn, wrote>>

\* BR3: an object that exists is not written again.  Both backends answer an
\* error of the probe with "no"; on a disk the copy would meet the same error.
Probe(r) ==
    /\ pc[r] = "staged"
    /\ \/ exists(Object(r)) /\ Goto(r, "hash")
       \/ /\ ~exists(Object(r)) \/ store[r] = "s3"
          /\ Goto(r, "copy")
    /\ UNCHANGED <<staged, blob, rows, seen, digest, torn, wrote>>

\* The other runs that are copying to the object of a run.
Rivals(r) == {s \in Run \ {r} : Copying(s) /\ Object(s) = Object(r)}

\* Mutant: the copy is handed to a background thread and not waited for.
CopyStartOnly(r) ==
    LET bytes == staged[FolderOf[r]]
    IN  /\ pc[r] = "copy"
        /\ seen' = [seen EXCEPT ![r] = bytes]
        /\ blob' = [blob EXCEPT ![Object(r)] =
                      [data |-> bytes, whole |-> store[r] = "s3"]]
        /\ wrote' = wrote \cup {r}
        /\ Goto(r, "hash")
        /\ UNCHANGED <<staged, rows, digest, torn>>

\* copy_in opens the staged file; the local backend also truncates the target,
\* under whoever is copying to it.
CopyStart(r) ==
    LET bytes == staged[FolderOf[r]]
    IN  /\ pc[r] = "copy"
        /\ seen' = [seen EXCEPT ![r] = bytes]
        /\ \/ /\ store[r] = "local"
              /\ blob' = [blob EXCEPT ![Object(r)] = [data |-> bytes, whole |-> FALSE]]
              /\ torn' = torn \cup (IF Rivals(r) = {} THEN {} ELSE {r} \cup Rivals(r))
           \/ store[r] = "s3" /\ UNCHANGED <<blob, torn>>
        /\ wrote' = wrote \cup {r}
        /\ Goto(r, "copying")
        /\ UNCHANGED <<staged, rows, digest>>

\* The copy ends.  An S3 object is put whole; a local copy that met another
\* writer may hold the bytes of any of the files, or of several.
CopyEnd(r) ==
    /\ pc[r] = "copying"
    /\ \/ /\ store[r] = "s3" \/ r \notin torn
          /\ blob' = [blob EXCEPT ![Object(r)] = [data |-> seen[r], whole |-> TRUE]]
       \/ /\ store[r] = "local" /\ r \in torn
          /\ \E b \in [data: {seen[r], staged[FolderOf[r]], blob[Object(r)].data},
                       whole: BOOLEAN] :
                blob' = [blob EXCEPT ![Object(r)] = b]
    /\ Goto(r, "hash")
    /\ UNCHANGED <<staged, rows, seen, digest, torn, wrote>>

\* The digest and the size are those of the staged file, read again now.
Hash(r) ==
    /\ pc[r] = "hash"
    /\ digest' = [digest EXCEPT ![r] = staged[FolderOf[r]]]
    /\ Goto(r, "evidence")
    /\ UNCHANGED <<staged, blob, rows, seen, torn, wrote>>

\* Mutant: the rows are flushed and never committed.
EvidenceUncommitted(r) ==
    /\ pc[r] = "evidence"
    /\ Goto(r, "linked")
    /\ UNCHANGED <<staged, blob, rows, seen, digest, torn, wrote>>

\* create_evidence: File and OrderFile in one commit of their own session.
create_evidence(r) ==
    /\ pc[r] = "evidence"
    /\ files' = [files EXCEPT ![r] = [made |-> TRUE, digest |-> digest[r]]]
    /\ Goto(r, "linked")
    /\ UNCHANGED <<staged, blob, docs, seen, digest, torn, wrote>>

\* Mutant: the handler logs the failure and goes on to the evidence rows.
UploadFailedGoesOn(r) ==
    /\ pc[r] \in {"staged", "copy", "copying", "hash", "evidence"}
    /\ Goto(r, "evidence")
    /\ UNCHANGED <<staged, blob, rows, seen, digest, torn, wrote>>

\* A copy under way stops where it is: half a file stays under the final name.
CutShort(r) == torn' = torn \cup {s \in {r} : Copying(s)}

\* Any exception in the block (store, disk, database) fails the document.
\* What has been written to the store stays there.
UploadFailed(r) ==
    /\ pc[r] \in {"staged", "copy", "copying", "hash", "evidence"}
    /\ CutShort(r)
    /\ Goto(r, "broken")
    /\ UNCHANGED <<staged, blob, rows, seen, digest, wrote>>

-----------------------------------------------------------------------------
(* The worker *)

\* The worker commits the document row; the file id is assigned only with a
\* file key and is never cleared.
Report(r) ==
    LET j == JobOf[r]
    IN  /\ \/ /\ pc[r] = "linked"
              /\ docs' = [docs EXCEPT ![j] = [status |-> "uploaded", file |-> r]]
           \/ /\ pc[r] = "bare"
              /\ docs' = [docs EXCEPT ![j].status = "uploaded"]
           \/ /\ pc[r] = "broken"
              /\ docs' = [docs EXCEPT ![j].status = "failed"]
        /\ Goto(r, "done")
        /\ UNCHANGED <<staged, blob, files, seen, digest, torn, wrote>>

\* The worker process dies; the task is delivered again as another run.
Crash(r) ==
    /\ Active(r)
    /\ CutShort(r)
    /\ Goto(r, "done")
    /\ UNCHANGED <<staged, blob, rows, seen, digest, wrote>>

Step(r) ==
    \/ Stage(r)
    \/ NoArtifact(r)
    \/ NotFetched(r)
    \/ Probe(r)
    \/ CopyStart(r)
    \/ CopyEnd(r)
    \/ Hash(r)
    \/ create_evidence(r)
    \/ UploadFailed(r)
    \/ Report(r)

Next == \E r \in Run : Step(r) \/ Crash(r)

Spec == Init /\ [][Next]_vars

\* A run that can go on does: one task, one process, and a hard time limit.
Fairness == \A r \in Run : WF_vars(Step(r))

FairSpec == Spec /\ Fairness

-----------------------------------------------------------------------------
(* Type *)

\* Every variable has its type, and a run that uploads has a file to upload.
TypeOK ==
    /\ store \in [Run -> Backend]
    /\ staged \in [Folder -> Run \cup {NoRun}]
    /\ blob \in [Backend \X Order -> Blob]
    /\ files \in [Run -> FileRow]
    /\ docs \in [Job -> Doc]
    /\ pc \in [Run -> ActivePlace \cup {"idle", "done"}]
    /\ seen \in [Run -> Run \cup {NoRun}]
    /\ digest \in [Run -> Run \cup {NoRun}]
    /\ torn \subseteq Run
    /\ wrote \subseteq Run
    /\ overlap \in BOOLEAN
    /\ \A r \in Run : pc[r] \in {"staged", "copy", "copying", "hash"} =>
          staged[FolderOf[r]] # NoRun

-----------------------------------------------------------------------------
(* Safety *)

\* _upload_artifact: the rows come after the blob, so whatever crashes or
\* fails, and however runs interleave, no File row names a missing object.
EvidenceHasBlob == \A r \in Run : files[r].made => exists(Object(r))

\* create_evidence / research_job: two sessions commit one after the other, in
\* the order in which a document row's file_id always names a committed File.
FileIdIsCommitted ==
    \A j \in Job : docs[j].file # NoRun => files[docs[j].file].made

\* adapters.py:152, "never overwrite existing files automatically": while runs
\* never overlapped, an object once on the disk keeps its bytes, whatever later
\* runs for the order fetch.  The object store does not keep it: an error of its
\* probe counts as absence.
KeptWhenSequential ==
    [][~overlap' => \A k \in Order :
         LET o == <<"local", k>>
         IN  exists(o) => /\ blob'[o].data = blob[o].data
                          /\ blob[o].whole => blob'[o].whole]_vars

\* _upload_artifact: while runs never overlapped, the run that wrote a file to
\* the disk recorded the digest of exactly that file, and the file is complete.
WriterRecordsItsBlob ==
    ~overlap => \A r \in wrote : store[r] = "local" /\ files[r].made =>
        blob[Object(r)] = [data |-> files[r].digest, whole |-> TRUE]

\* schemas.py:73: uploaded means "S3 upload complete + OrderFile created".  The
\* probe takes any file under the name for a complete one, so evidence rows may
\* name an incomplete object; but only while a run still copies to it, or when a
\* copy to it was cut short or met another writer, in whatever order runs go.
WholeUnlessTorn ==
    \A r \in Run : files[r].made =>
        \/ blob[Object(r)].whole
        \/ \E s \in Run : Object(s) = Object(r) /\ (Copying(s) \/ s \in torn)

-----------------------------------------------------------------------------
(* What the documents and comments say, and the code does not do *)

\* folders.py:24: a "scratch staging dir for one research run": the object of
\* an order holds what a run for that order fetched.
BlobIsOfItsOrder ==
    \A b \in Backend, k \in Order :
        exists(<<b, k>>) => build_key(blob[<<b, k>>].data) = k

=============================================================================
