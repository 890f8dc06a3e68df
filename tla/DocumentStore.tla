---------------------------- MODULE DocumentStore ----------------------------
(***************************************************************************)
(* What the processes of the system share: the documents table (models.py, *)
(* repository.py), the upload directory (file_store.py), and the set of    *)
(* documents for which a job was ever pushed.                              *)
(*                                                                         *)
(* A document is named by its `source`: the unique index on that column    *)
(* makes source and id one-to-one, so Docs stands for both.  An upload     *)
(* request stands for the content it carries.                              *)
(*                                                                         *)
(* A transaction is one step wherever nothing outside the database happens *)
(* between its first lock and its commit.  Only an upload does something   *)
(* else (an RPUSH) while it holds the row, so `lock` names uploads only.   *)
(***************************************************************************)
EXTENDS Naturals

CONSTANTS Docs,         \* documents, one per source
          Names,        \* file names a client may send
          Uploads,      \* upload requests, each with its own content
          MaxRetries,   \* models.MAX_RETRIES and document_queue.MAX_RETRIES
          Faults,       \* what may fail: a subset of FaultKinds
          None,         \* Python's None, and a file that is not on disk
          Torn          \* what a file holds that is not the whole of one upload

Paths == Docs \X Names
Contents == Uploads \cup {Torn}
FaultKinds == {"crash", "redis", "db", "qdrant", "file"}

ASSUME StoreAssumption ==
    /\ MaxRetries \in Nat \ {0}
    /\ Faults \subseteq FaultKinds
    /\ None \notin Docs \cup Paths \cup Contents
    /\ Torn \notin Uploads

VARIABLES status,       \* documents.status, or "ABSENT" when there is no row
          filePath,     \* documents.file_path
          retryCount,   \* documents.retry_count
          lock,         \* the upload whose open transaction updated the row
          disk,         \* content of each path of the upload directory
          writers,      \* uploads that write it, as long as one of them does
          enqueued      \* documents for which a job was pushed to Redis

rowVars == <<status, filePath, retryCount, lock>>
files == <<disk, writers>>
storeVars == <<rowVars, files, enqueued>>

DocumentStatus == {"PENDING", "PROCESSING", "DONE", "FAILED"}

StoreTypeOK ==
    /\ status \in [Docs -> DocumentStatus \cup {"ABSENT"}]
    /\ filePath \in [Docs -> Paths \cup {None}]
    /\ retryCount \in [Docs -> 0..MaxRetries]
    /\ lock \in [Docs -> Uploads \cup {None}]
    /\ disk \in [Paths -> Contents \cup {None}]
    /\ writers \in [Paths -> SUBSET Uploads]
    /\ enqueued \subseteq Docs

StoreInit ==
    /\ status = [d \in Docs |-> "ABSENT"]
    /\ filePath = [d \in Docs |-> None]
    /\ retryCount = [d \in Docs |-> 0]
    /\ lock = [d \in Docs |-> None]
    /\ disk = [p \in Paths |-> None]
    /\ writers = [p \in Paths |-> {}]
    /\ enqueued = {}

-----------------------------------------------------------------------------
(* The state machine that update_status enforces on the status its session *)
(* holds, which need not be the status in the row ("ABSENT": not found).   *)
UpdateAllowed(current, target, retries) ==
    /\ current \notin {"ABSENT", "DONE"}
    /\ current = "FAILED" => target = "PENDING" /\ retries < MaxRetries
    /\ current = "PENDING" => target # "DONE"

(* A row that an open transaction has updated blocks SELECT ... FOR UPDATE *)
(* and UPDATE; a plain SELECT reads the committed row.                     *)
Unlocked(d) == lock[d] = None

(* What a session keeps of a row: the ORM's identity map.  Sessions do not *)
(* expire on commit (postgres.py) and a locking SELECT does not overwrite  *)
(* a loaded object, so only a rollback empties it.                         *)
Cached == [status : DocumentStatus \cup {"ABSENT"}, path : Paths \cup {None}]
NoCache == [status |-> "ABSENT", path |-> None]
RowOf(d) == [status |-> status[d], path |-> filePath[d]]

(* Commit a status.  A final status comes with clear_file_path, which is   *)
(* an UPDATE of the column only if the session saw a path there.           *)
WriteStatus(d, s, cache) ==
    /\ status' = [status EXCEPT ![d] = s]
    /\ filePath' = [filePath EXCEPT ![d] =
                      IF s \in {"DONE", "FAILED"} /\ cache.path # None THEN None ELSE @]

(* _delete_file: nothing happens when there is no path or no such file; an *)
(* error is logged and swallowed.  Who has the file open goes on writing,  *)
(* to a file that has no name any more.                                    *)
DeleteFile(path) ==
    \E gone \in IF "file" \in Faults THEN {path, None} ELSE {path} :
        /\ disk' = [p \in Paths |-> IF p = gone THEN None ELSE disk[p]]
        /\ writers' = [p \in Paths |-> IF p = gone THEN {} ELSE writers[p]]

(* create_document, committed.                                             *)
CreateDocument(d) ==
    /\ status[d] = "ABSENT"
    /\ status' = [status EXCEPT ![d] = "PENDING"]
    /\ UNCHANGED <<filePath, retryCount, lock, files, enqueued>>

(* Mutant: retry_document that forgets the limit.                          *)
RetryDocumentUnbounded(d) ==
    /\ Unlocked(d)
    /\ status[d] = "FAILED"
    /\ retryCount' = [retryCount EXCEPT ![d] = @ + 1]
    /\ status' = [status EXCEPT ![d] = "PENDING"]
    /\ UNCHANGED <<filePath, lock, files, enqueued>>

(* retry_document: the only way from FAILED back to PENDING.               *)
RetryDocument(d) ==
    /\ Unlocked(d)
    /\ status[d] = "FAILED"
    /\ retryCount[d] < MaxRetries
    /\ retryCount' = [retryCount EXCEPT ![d] = @ + 1]
    /\ status' = [status EXCEPT ![d] = "PENDING"]
    /\ UNCHANGED <<filePath, lock, files, enqueued>>
=============================================================================
