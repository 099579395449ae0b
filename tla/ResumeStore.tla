---------------------------- MODULE ResumeStore -----------------------------
(***************************************************************************)
(* One user's resume: its row in PostgreSQL (backend/src/services/         *)
(* resumes.service.ts) and its chunks in a Chroma collection named after   *)
(* the user (ai-service/app/resume/store.py), written one after the other  *)
(* by uploads and deletions, any call of which may fail.                   *)
(*                                                                         *)
(* An upload names its row and its chunks.  A collection is named by the   *)
(* upload that created it: one dropped meanwhile cannot be written to.  An *)
(* answer lost on its way back to the backend is a failure of the next     *)
(* call, since nothing of the ai-service's work is undone.                 *)
(***************************************************************************)
EXTENDS FiniteSets

CONSTANTS
    Uploads,        \* requests to upload, each made once
    Deletions,      \* requests to delete, each made once
    NoRow,          \* no row in resumes
    NoCollection    \* the user has no collection

ASSUME ResumeAssumption == NoRow \notin Uploads /\ NoCollection \notin Uploads

VARIABLES
    resumeRow,      \* the upload the row describes
    collection,     \* the collection's creator, and the uploads whose chunks it holds
    upload,         \* where each upload is, and the collection it will write to
    deletion,       \* where each deletion is
    amiss           \* ghost: whether requests overlapped; whether a failure that was
                    \* reported may have left the row without its chunks (lost), or chunks
                    \* beside the row's (stale); whether Chroma failed and nobody heard

resumeVars == <<resumeRow, collection, upload, deletion, amiss>>

Dropped == [creator |-> NoCollection, chunks |-> {}]

ResumeInit ==
    /\ resumeRow = NoRow
    /\ collection = Dropped
    /\ upload = [u \in Uploads |-> [at |-> "idle", into |-> NoCollection]]
    /\ deletion = [d \in Deletions |-> "idle"]
    /\ amiss = [overlapped |-> FALSE, lost |-> FALSE, stale |-> FALSE,
                swallowed |-> FALSE]

Over == {"idle", "done", "failed"}

Resting ==
    /\ \A u \in Uploads : upload[u].at \in Over
    /\ \A d \in Deletions : deletion[d] \in Over

Overlap == amiss' = [amiss EXCEPT !.overlapped = @ \/ ~Resting]
UploadAt(u, at) == upload' = [upload EXCEPT ![u].at = at]
DeletionAt(d, at) == deletion' = [deletion EXCEPT ![d] = at]

\* delete_named_collection swallows every exception: the collection may be as it was.
DropCollection == collection' \in {Dropped, collection}
Left == collection'.chunks # {}

------------------------------------------------------------------------------
(* Uploading: uploadResume, ResumeStore.ingest *)

Submit(u) ==
    /\ upload[u].at = "idle"
    /\ UploadAt(u, "sent")
    /\ Overlap
    /\ UNCHANGED <<resumeRow, collection, deletion>>

\* Mutant: the old chunks are dropped before the new ones are embedded.
MutantAfterRefusal(c) == Dropped

AfterRefusal(c) == c

\* The document is of no use, or cannot be embedded.
Refuse(u) ==
    /\ upload[u].at = "sent"
    /\ collection' = AfterRefusal(collection)
    /\ UploadAt(u, "failed")
    /\ UNCHANGED <<resumeRow, deletion, amiss>>

Embed(u) ==
    /\ upload[u].at = "sent"
    /\ UploadAt(u, "embedded")
    /\ UNCHANGED <<resumeRow, collection, deletion, amiss>>

\* The upload goes on whether the old chunks were dropped or not.
PurgeOld(u) ==
    /\ upload[u].at = "embedded"
    /\ DropCollection
    /\ UploadAt(u, "purged")
    /\ amiss' = [amiss EXCEPT !.stale = @ /\ Left, !.swallowed = Left]
    /\ UNCHANGED <<resumeRow, deletion>>

\* get_or_create_collection
OpenCollection(u) ==
    /\ upload[u].at = "purged"
    /\ collection' = IF collection.creator = NoCollection
                     THEN [collection EXCEPT !.creator = u] ELSE collection
    /\ upload' = [upload EXCEPT ![u] = [at |-> "opened", into |-> collection'.creator]]
    /\ UNCHANGED <<resumeRow, deletion, amiss>>

Upsert(u) ==
    /\ upload[u].at = "opened" /\ upload[u].into = collection.creator
    /\ collection' = [collection EXCEPT !.chunks = @ \cup {u}]
    /\ UploadAt(u, "stored")
    /\ UNCHANGED <<resumeRow, deletion, amiss>>

\* Chroma raises, with or without having done its work: "Deliberately NOT purging here".
StoreFails(u) ==
    /\ upload[u].at \in {"purged", "opened"}
    /\ \/ UNCHANGED collection
       \/ /\ upload[u].at = "purged" /\ collection.creator = NoCollection
          /\ collection' = [collection EXCEPT !.creator = u]
       \/ /\ upload[u].at = "opened" /\ upload[u].into = collection.creator
          /\ collection' = [collection EXCEPT !.chunks = @ \cup {u}]
    /\ UploadAt(u, "failed")
    /\ amiss' = [amiss EXCEPT !.lost = TRUE, !.stale = @ \/ u \in collection'.chunks]
    /\ UNCHANGED <<resumeRow, deletion>>

\* upsertResume
Record(u) ==
    /\ upload[u].at = "stored"
    /\ resumeRow' = u
    /\ UploadAt(u, "done")
    /\ amiss' = [amiss EXCEPT !.lost = FALSE]
    /\ UNCHANGED <<collection, deletion>>

\* The row is not written, or nobody hears of it.
RecordFails(u) ==
    /\ upload[u].at = "stored"
    /\ resumeRow' \in {resumeRow, u}
    /\ UploadAt(u, "failed")
    /\ amiss' = [amiss EXCEPT !.lost = TRUE, !.stale = TRUE]
    /\ UNCHANGED <<collection, deletion>>

------------------------------------------------------------------------------
(* Deleting: deleteResume, delete_resume *)

Ask(d) ==
    /\ deletion[d] = "idle"
    /\ DeletionAt(d, "asked")
    /\ Overlap
    /\ UNCHANGED <<resumeRow, collection, upload>>

PurgeAll(d) ==
    /\ deletion[d] = "asked"
    /\ DropCollection
    /\ DeletionAt(d, "purged")
    /\ amiss' = [amiss EXCEPT !.stale = @ /\ Left, !.swallowed = @ /\ Left]
    /\ UNCHANGED <<resumeRow, upload>>

\* The purge is verified by reading back; the read answers 0 when Chroma does not.
ReadBack(d) ==
    /\ deletion[d] = "purged"
    /\ IF collection.chunks = {} THEN DeletionAt(d, "checked") ELSE DeletionAt(d, "failed")
    /\ UNCHANGED <<resumeRow, collection, upload, amiss>>

ReadBackUnanswered(d) ==
    /\ deletion[d] = "purged"
    /\ DeletionAt(d, "checked")
    /\ amiss' = [amiss EXCEPT !.swallowed = collection.chunks # {}]
    /\ UNCHANGED <<resumeRow, collection, upload>>

DeleteRow(d) ==
    /\ deletion[d] = "checked"
    /\ resumeRow' = NoRow
    /\ DeletionAt(d, "done")
    /\ amiss' = [amiss EXCEPT !.lost = FALSE]
    /\ UNCHANGED <<collection, upload>>

DeleteFails(d) ==
    /\ deletion[d] \in {"asked", "checked"}
    /\ resumeRow' \in IF deletion[d] = "checked" THEN {resumeRow, NoRow} ELSE {resumeRow}
    /\ DeletionAt(d, "failed")
    /\ amiss' = [amiss EXCEPT !.lost = @ \/ deletion[d] = "checked"]
    /\ UNCHANGED <<collection, upload>>

------------------------------------------------------------------------------

IngestStep(u) ==
    \/ Refuse(u) \/ Embed(u) \/ PurgeOld(u) \/ OpenCollection(u) \/ Upsert(u) \/ StoreFails(u)

UploadStep(u) == Submit(u) \/ IngestStep(u) \/ Record(u) \/ RecordFails(u)

DeletionStep(d) ==
    \/ Ask(d) \/ PurgeAll(d) \/ ReadBack(d) \/ ReadBackUnanswered(d)
    \/ DeleteRow(d) \/ DeleteFails(d)

ResumeNext ==
    \/ \E u \in Uploads : UploadStep(u)
    \/ \E d \in Deletions : DeletionStep(d)

ResumeSpec == ResumeInit /\ [][ResumeNext]_resumeVars

------------------------------------------------------------------------------

\* When nothing is under way, the row's resume is the one the interviews are grounded
\* in: a refused upload, a provider outage and a failed deletion change nothing
\* ("A rejected upload must be a no-op", resumes.service.ts), and a deletion leaves
\* nothing.  Excepted are: a failure past the purge, which is answered as such and leaves
\* the row without its chunks or chunks without their row; a purge or a count that Chroma
\* refused and nobody noticed, after which old chunks stay beside the row's or without it
\* (AnsweredIsPurged); and requests that overlapped.
RowMatchesChunks ==
    Resting /\ ~amiss.overlapped =>
        /\ resumeRow # NoRow /\ ~amiss.lost => resumeRow \in collection.chunks
        /\ ~amiss.stale /\ ~amiss.swallowed => collection.chunks \subseteq {resumeRow}

\* An upload or a deletion that is answered with success has purged what was there: "a
\* user re-uploading a resume means the old one is superseded, and leaving both would
\* ground questions in stale projects" (ai-service/app/resume/store.py); "`DELETE` re-reads
\* after purging and 500s if anything remains, so "deleted" is verified rather than
\* claimed" (docs/DECISIONS.md).
AnsweredIsPurged ==
    [][~amiss.overlapped =>
          /\ \A u \in Uploads : upload[u].at # "done" /\ upload'[u].at = "done"
                                    => collection'.chunks = {u}
          /\ \A d \in Deletions : deletion[d] # "done" /\ deletion'[d] = "done"
                                      => collection'.chunks = {}]_resumeVars
=============================================================================
