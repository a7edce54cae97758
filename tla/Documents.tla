----------------------------- MODULE Documents ------------------------------
(***************************************************************************)
(* Strategy documents: POST /documents/upload and DELETE /documents/{key}. *)
(*                                                                         *)
(* A document is an object in the S3 bucket and a metadata row.  There is  *)
(* no transaction over both: an upload stores the object and then inserts  *)
(* its row, a deletion removes the object and then one row that names it.  *)
(* The key is the base name of the uploaded file.  The list shown to users *)
(* is the bucket's; nothing reads the rows but the deletion.               *)
(*                                                                         *)
(* Left out: contents and types, the presigned links.                      *)
(***************************************************************************)
CONSTANTS
    FileNames,  \* names of uploaded files, after stripping directories
    Uploads,    \* upload requests
    Deletions,  \* deletion requests
    NoFile      \* no object, no row; also a blank name

VARIABLES
    bucket,     \* the upload whose bytes each key holds
    records,    \* the metadata rows, by the upload that inserted them
    name,       \* the key of each request
    progress,   \* how far each request is
    selected    \* the row a deletion has selected

fileVars == <<bucket, records, name, progress, selected>>
FileRequests == Uploads \cup Deletions

FilesInit ==
    /\ bucket = [k \in FileNames |-> NoFile]
    /\ records = {}
    /\ name = [q \in FileRequests |-> NoFile]
    /\ progress = [q \in FileRequests |-> "new"]
    /\ selected = [d \in Deletions |-> NoFile]

Goes(q, from, to) == progress[q] = from /\ progress' = [progress EXCEPT ![q] = to]

(* Steps that fail leave everything as the steps before have made it:      *)
(* "failed" stands for the 400, 500 and 502 answers and for a crash.       *)
FileFails(q) ==
    /\ progress[q] \notin {"new", "succeeded", "failed"}
    /\ progress' = [progress EXCEPT ![q] = "failed"]
    /\ UNCHANGED <<bucket, records, name, selected>>

(***************************************************************************)
(* Upload.                                                                 *)
(***************************************************************************)
Receive(q) ==
    /\ Goes(q, "new", "accepted")
    /\ \E k \in FileNames : name' = [name EXCEPT ![q] = k]
    /\ UNCHANGED <<bucket, records, selected>>

RejectBlank(u) ==
    /\ u \in Uploads /\ Goes(u, "new", "failed")
    /\ UNCHANGED <<bucket, records, name, selected>>

\* Mutant of PutObject: the row is inserted before the object is stored.
InsertsFirst(u) ==
    /\ u \in Uploads
    /\ \/ Goes(u, "accepted", "inserted") /\ records' = records \cup {u} /\ UNCHANGED bucket
       \/ Goes(u, "inserted", "succeeded") /\ bucket' = [bucket EXCEPT ![name[u]] = u]
          /\ UNCHANGED records
    /\ UNCHANGED <<name, selected>>
PutObject(u) ==
    /\ u \in Uploads /\ Goes(u, "accepted", "stored")
    /\ bucket' = [bucket EXCEPT ![name[u]] = u]
    /\ UNCHANGED <<records, name, selected>>

InsertRow(u) ==
    /\ u \in Uploads /\ Goes(u, "stored", "succeeded")
    /\ records' = records \cup {u}
    /\ UNCHANGED <<bucket, name, selected>>

(***************************************************************************)
(* Deletion.                                                               *)
(***************************************************************************)
DeleteObject(d) ==
    /\ d \in Deletions /\ Goes(d, "accepted", "removed")
    /\ bucket' = [bucket EXCEPT ![name[d]] = NoFile]
    /\ UNCHANGED <<records, name, selected>>

RowsOf(k) == {u \in records : name[u] = k}

SelectRow(d) ==
    /\ d \in Deletions
    /\ \/ RowsOf(name[d]) = {} /\ Goes(d, "removed", "succeeded") /\ UNCHANGED selected
       \/ /\ Goes(d, "removed", "selected")
          /\ \E u \in RowsOf(name[d]) : selected' = [selected EXCEPT ![d] = u]
    /\ UNCHANGED <<bucket, records, name>>

(* The DELETE of a row that is gone by now matches nothing and succeeds.   *)
DeleteRow(d) ==
    /\ d \in Deletions
    /\ Goes(d, "selected", "succeeded")
    /\ records' = records \ {selected[d]}
    /\ UNCHANGED <<bucket, name, selected>>

FilesNext ==
    \E q \in FileRequests :
        \/ Receive(q) \/ RejectBlank(q) \/ PutObject(q) \/ InsertRow(q)
        \/ DeleteObject(q) \/ SelectRow(q) \/ DeleteRow(q) \/ FileFails(q)

FilesSpec == FilesInit /\ [][FilesNext]_fileVars

(***************************************************************************)
(* Properties.                                                             *)
(***************************************************************************)

(* A document is listed, replaced by an upload of the same name or removed *)
(* by a deletion: a row without any of these is never left behind by an    *)
(* upload that failed half way.                                            *)
RowsAreExplained ==
    \A u \in records :
        \/ bucket[name[u]] = u
        \/ \E v \in Uploads \ {u} : name[v] = name[u] /\ progress[v] \notin {"new", "accepted"}
        \/ \E d \in Deletions : name[d] = name[u] /\ progress[d] \notin {"new", "accepted"}
=============================================================================
