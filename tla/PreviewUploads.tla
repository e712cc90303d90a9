--------------------------- MODULE PreviewUploads ----------------------------
(***************************************************************************)
(* The design files of the preview server                                  *)
(* (src/mockups/preview-upload-service.ts): a directory per workspace,     *)
(* written by requests that queue behind one promise, with a quota on the  *)
(* files and the bytes of a workspace.                                     *)
(***************************************************************************)
EXTENDS Naturals, Sequences, FiniteSets

CONSTANTS
  Uploads,        \* the upload requests, each a file of its own (randomUUID)
  Directories,    \* the workspaces
  Sizes,          \* the sizes of a request's bytes; 0 is an empty file
  MaxFileBytes,   \* MAX_BYTES
  MaxFiles, MaxBytes  \* maxFilesPerWorkspace, maxBytesPerWorkspace

ASSUME UploadAssumption ==
  /\ IsFiniteSet(Uploads) /\ "none" \notin Directories
  /\ Sizes \subseteq Nat /\ MaxFileBytes \in Nat
  /\ MaxFiles \in Nat \ {0} /\ MaxBytes \in Nat \ {0}

VARIABLES
  file,       \* the directory each file is in with its bytes on disk
  request,    \* the save call of each upload
  uploadQueue \* the calls behind the promise, the first one in its turn

uploadVars == <<file, request, uploadQueue>>

-----------------------------------------------------------------------------
NoFile == [in |-> "none", bytes |-> 0, whole |-> FALSE]
NewRequest == [pc |-> "new", in |-> "none", size |-> 0]

UploadTypeOK ==
  /\ file \in [Uploads -> [in : Directories \cup {"none"}, bytes : Nat, whole : BOOLEAN]]
  /\ request \in [Uploads -> [pc : {"new", "waiting", "counting", "writing", "saved", "rejected", "failed", "lost"},
                              in : Directories \cup {"none"}, size : Sizes \cup {0}]]
  /\ uploadQueue \in Seq(Uploads)

UploadInit ==
  /\ file = [u \in Uploads |-> NoFile]
  /\ request = [u \in Uploads |-> NewRequest]
  /\ uploadQueue = <<>>

Files(d) == {u \in Uploads : file[u].in = d}
\* The bytes on disk, each by its file and its place in it.
Stored(d) == {b \in Uploads \X (1 .. MaxFileBytes) : file[b[1]].in = d /\ b[2] <= file[b[1]].bytes}
Bytes(d) == Cardinality(Stored(d))

\* Mutant: the calls do not wait for each other.
NoQueue(u) == request[u].pc = "waiting"

\* exclusive(): a call runs once every earlier one has settled.
Turn(u) == request[u].pc = "waiting" /\ uploadQueue[1] = u

\* The call, first in the queue, settles, whatever its outcome, and releases the
\* next one.
SettleUpload(u, outcome) ==
  /\ request' = [request EXCEPT ![u].pc = outcome]
  /\ uploadQueue' = Tail(uploadQueue)

\* save() checks the bytes and enters the queue: an empty file, a larger one
\* than 50 MB and one that is no image of its type are refused.
Save(u, d, size, image) ==
  /\ request[u].pc = "new"
  /\ UNCHANGED file
  /\ \/ /\ size \in 1 .. MaxFileBytes /\ image
        /\ request' = [request EXCEPT ![u] = [pc |-> "waiting", in |-> d, size |-> size]]
        /\ uploadQueue' = Append(uploadQueue, u)
     \/ /\ size \notin 1 .. MaxFileBytes \/ ~image
        /\ request' = [request EXCEPT ![u].pc = "rejected"]
        /\ UNCHANGED uploadQueue

MakeDirectory(u) ==
  /\ Turn(u)
  /\ \/ request' = [request EXCEPT ![u].pc = "counting"] /\ UNCHANGED uploadQueue
     \/ SettleUpload(u, "failed")
  /\ UNCHANGED file

\* usage() lists the directory and adds up the sizes; then the quota.
CheckQuota(u) ==
  LET d == request[u].in IN
  /\ request[u].pc = "counting" /\ UNCHANGED file
  /\ \/ IF Cardinality(Files(d)) >= MaxFiles \/ Bytes(d) + request[u].size > MaxBytes
        THEN SettleUpload(u, "rejected")
        ELSE request' = [request EXCEPT ![u].pc = "writing"] /\ UNCHANGED uploadQueue
     \/ SettleUpload(u, "failed")

Write(u) ==
  /\ request[u].pc = "writing"
  /\ file' = [file EXCEPT ![u] = [in |-> request[u].in, bytes |-> request[u].size, whole |-> TRUE]]
  /\ SettleUpload(u, "saved")

\* writeFile fails: there is no file, or a part of it stays.
WriteFails(u, part) ==
  /\ request[u].pc = "writing" /\ part < request[u].size
  /\ \/ file' = [file EXCEPT ![u] = [in |-> request[u].in, bytes |-> part, whole |-> FALSE]]
     \/ UNCHANGED file
  /\ SettleUpload(u, "failed")

\* A restart loses every call that is under way, an opened file stays empty.
ServerDies ==
  /\ uploadQueue # <<>>
  /\ \E torn \in SUBSET {u \in Uploads : request[u].pc = "writing"} :
       file' = [u \in Uploads |-> IF u \in torn THEN [in |-> request[u].in, bytes |-> 0, whole |-> FALSE]
                                  ELSE file[u]]
  /\ request' = [u \in Uploads |-> IF request[u].pc \in {"waiting", "counting", "writing"}
                                   THEN [request[u] EXCEPT !.pc = "lost"] ELSE request[u]]
  /\ uploadQueue' = <<>>

UploadNext ==
  \/ \E u \in Uploads : \/ \E d \in Directories, size \in Sizes, image \in BOOLEAN : Save(u, d, size, image)
                        \/ MakeDirectory(u) \/ CheckQuota(u) \/ Write(u)
                        \/ \E part \in 0 .. MaxFileBytes : WriteFails(u, part)
  \/ ServerDies

UploadSpec == UploadInit /\ [][UploadNext]_uploadVars

-----------------------------------------------------------------------------
\* A workspace never holds more files or more bytes than its quota, whichever
\* requests arrive together, fail half-way or die with the server
\* (preview-upload-service.ts:46-57, 105-107).
QuotaHolds ==
  \A d \in Directories : Cardinality(Files(d)) <= MaxFiles /\ Bytes(d) <= MaxBytes
=============================================================================
