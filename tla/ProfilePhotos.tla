----------------------------- MODULE ProfilePhotos -----------------------------
(***************************************************************************)
(* The photo of a user: its key in the row of the user and the object under *)
(* that key in the storage.  upload_photo, delete_photo and                 *)
(* delete_current_user (api/routes/users.py) read the key, delete the       *)
(* object, perhaps store another and write the row, in this order, and      *)
(* nothing makes the two stores change together: any of these writes may    *)
(* fail, the worker may die between two of them, and nothing is undone.     *)
(***************************************************************************)
EXTENDS Naturals, FiniteSets

CONSTANTS
    Requests,
    NoPhoto,        \* photo_url is None
    NoUser          \* the row is gone

VARIABLES
    photo_url,      \* of the row
    bucket,         \* the keys of the stored objects
    pc,             \* where the handler of a request is
    kind,           \* upload, delete or erase: what it was asked to do
    key,            \* photo_url of the user that the dependency loaded
    overlapped,     \* history: two handlers ran at once
    kept            \* history: the keys whose object could not be deleted

vars == <<photo_url, bucket, pc, kind, key, overlapped, kept>>

(* build_key draws a new key for each upload: the request names it; the     *)
(* photo that there was at first has the key 0.                             *)
Keys == Requests \cup {0}

(* A handler has failed if it touched the storage and did not get to write  *)
(* the row.                                                                 *)
Stages == {"new", "read", "deleted", "uploaded", "done", "failed"}

(* What is assumed of the constants. *)
ConstantsOK ==
    /\ 0 \notin Requests
    /\ {NoPhoto, NoUser} \cap Keys = {} /\ NoPhoto # NoUser

Running(r) == pc[r] \in {"read", "deleted", "uploaded"}
Idle == \A r \in Requests : ~Running(r)

-------------------------------------------------------------------------------

(* get_current_user loads the user; without a row it is 401.  An upload of  *)
(* a file that is no image, or too large, ends here.                        *)
Begin(r, k) ==
    /\ pc[r] = "new" /\ photo_url # NoUser
    /\ kind' = [kind EXCEPT ![r] = k]
    /\ key' = [key EXCEPT ![r] = photo_url]
    /\ pc' = [pc EXCEPT ![r] = IF k = "delete" /\ photo_url = NoPhoto THEN "done" ELSE "read"]
    /\ overlapped' = (overlapped \/ ~Idle)
    /\ UNCHANGED <<photo_url, bucket, kept>>

(* Mutant: the old object is not deleted. *)
KeepOld(r) ==
    /\ pc[r] = "read"
    /\ pc' = [pc EXCEPT ![r] = "deleted"]
    /\ UNCHANGED <<photo_url, bucket, kind, key, overlapped, kept>>

(* storage_service.delete of the key that was read, if there was one; its   *)
(* failure is suppressed.                                                   *)
DeleteOld(r) ==
    /\ pc[r] = "read"
    /\ pc' = [pc EXCEPT ![r] = "deleted"]
    /\ \/ bucket' = bucket \ {key[r]} /\ UNCHANGED kept
       \/ key[r] # NoPhoto /\ kept' = kept \cup {key[r]} /\ UNCHANGED bucket
    /\ UNCHANGED <<photo_url, kind, key, overlapped>>

Upload(r) ==
    /\ pc[r] = "deleted" /\ kind[r] = "upload"
    /\ bucket' = bucket \cup {r}
    /\ pc' = [pc EXCEPT ![r] = "uploaded"]
    /\ UNCHANGED <<photo_url, kind, key, overlapped, kept>>

(* StorageUploadError: 503, the old object is gone already and the new one  *)
(* may be stored in spite of the error.                                     *)
UploadFails(r) ==
    /\ pc[r] = "deleted" /\ kind[r] = "upload"
    /\ bucket' \in {bucket, bucket \cup {r}}
    /\ pc' = [pc EXCEPT ![r] = "failed"]
    /\ UNCHANGED <<photo_url, kind, key, overlapped, kept>>

(* Mutant: the key that was read stays in the row. *)
OldKey(r) == key[r]

NewKey(r) == CASE kind[r] = "upload" -> r [] kind[r] = "delete" -> NoPhoto [] kind[r] = "erase" -> NoUser

(* The commit of update_photo_url or delete_user.  An UPDATE of a row that   *)
(* is gone is an error, a DELETE is not.                                    *)
WriteRow(r) ==
    /\ pc[r] = IF kind[r] = "upload" THEN "uploaded" ELSE "deleted"
    /\ photo_url' = IF photo_url = NoUser THEN NoUser ELSE NewKey(r)
    /\ pc' = [pc EXCEPT ![r] = IF photo_url = NoUser /\ kind[r] # "erase" THEN "failed" ELSE "done"]
    /\ UNCHANGED <<bucket, kind, key, overlapped, kept>>

(* The handler ends early: the commit fails and is rolled back - RESTRICT,  *)
(* for a project that the user got after the check for owned ones, or any   *)
(* error of the database - or the worker dies.  The storage stays as it is. *)
EndsEarly(r) ==
    /\ Running(r)
    /\ pc' = [pc EXCEPT ![r] = IF pc[r] = "read" THEN "done" ELSE "failed"]
    /\ UNCHANGED <<photo_url, bucket, kind, key, overlapped, kept>>

-------------------------------------------------------------------------------

Init ==
    /\ photo_url \in {NoPhoto, 0}
    /\ bucket = {0} \cap {photo_url}
    /\ pc = [r \in Requests |-> "new"] /\ kind = [r \in Requests |-> "delete"]
    /\ key = [r \in Requests |-> NoPhoto]
    /\ overlapped = FALSE /\ kept = {}

Step(r) ==
    \/ \E k \in {"upload", "delete", "erase"} : Begin(r, k)
    \/ DeleteOld(r) \/ Upload(r) \/ UploadFails(r) \/ WriteRow(r) \/ EndsEarly(r)

Next == \E r \in Requests : Step(r)

Spec == Init /\ [][Next]_vars

-------------------------------------------------------------------------------
(* Properties.                                                              *)

(* Types of the row, the storage and the handlers. *)
TypeOK ==
    /\ photo_url \in Keys \cup {NoPhoto, NoUser}
    /\ bucket \subseteq Keys
    /\ pc \in [Requests -> Stages] /\ kind \in [Requests -> {"upload", "delete", "erase"}]
    /\ key \in [Requests -> Keys \cup {NoPhoto}]
    /\ overlapped \in BOOLEAN /\ kept \subseteq Keys

(* The key in the row names a stored object whenever no handler runs,       *)
(* whatever the storage failed to delete and however the handlers           *)
(* overlapped, unless a handler that had read this very key ended before it *)
(* wrote the row: the later of two uploads never leaves the row with an     *)
(* object that was deleted, and whoever writes the row next repairs it.     *)
PhotoIsStored ==
    Idle /\ photo_url \in Keys /\ (\A r \in Requests : pc[r] = "failed" => key[r] # photo_url) =>
        photo_url \in bucket

(* And the storage holds nothing else, so that the erasure of an account    *)
(* covers its photo, but for what it failed to delete and for the uploads   *)
(* of handlers that ended before they wrote the row, as long as no two      *)
(* handlers overlapped.                                                     *)
NoOrphanObjects ==
    Idle /\ ~overlapped => bucket \ {photo_url} \subseteq kept \cup {r \in Requests : pc[r] = "failed"}

===============================================================================
