----------------------------- MODULE BlobStore -----------------------------
(***************************************************************************)
(* The filesystem blob store (internal/blob/filesystem.go): concurrent     *)
(* Puts, each through a temporary directory and a temporary file beside    *)
(* the destination.  Get, Range and Enumerate change nothing; Enumerate    *)
(* has no caller.                                                          *)
(*                                                                         *)
(* A content stands for its bytes, its hash and its path.  The two files a *)
(* Put makes are the data file of its directory and the commit file, which *)
(* is created empty and replaced by the data file.                         *)
(***************************************************************************)
CONSTANTS Putters, Contents, NoContent

ASSUME NoContentAssumption == NoContent \notin Contents

VARIABLES
  blobs,    \* per content, the file at its path: "none", "empty", "part", "whole"
  put,      \* per putter, where its Put is
  content,  \* per putter, what it puts, and has put when it is "done"
  data,     \* per putter, its data file
  commit,   \* per putter, its commit file
  dirs,     \* putters whose temporary directory exists
  orphans   \* whether a crash has left temporary files, which nothing removes

files == <<blobs, data, commit, dirs, orphans>>
blobVars == <<blobs, put, content, data, commit, dirs, orphans>>

File == {"none", "empty", "part", "whole"}

BlobTypeOK ==
  /\ blobs \in [Contents -> File]
  /\ put \in [Putters -> {"idle", "write", "stat", "stage", "rename", "done"}]
  /\ content \in [Putters -> Contents \cup {NoContent}]
  /\ data \in [Putters -> File] /\ commit \in [Putters -> File]
  /\ dirs \subseteq Putters /\ orphans \in BOOLEAN

BlobInit ==
  /\ blobs = [c \in Contents |-> "none"]
  /\ put = [w \in Putters |-> "idle"] /\ content = [w \in Putters |-> NoContent]
  /\ data = [w \in Putters |-> "none"] /\ commit = [w \in Putters |-> "none"]
  /\ dirs = {} /\ orphans = FALSE

-----------------------------------------------------------------------------
(* What a reader of the reference gets. *)
Get(c) == blobs[c]

To(w, s) == put' = [put EXCEPT ![w] = s] /\ UNCHANGED content

(* MkdirTemp, and a data file that io.Copy begins to fill. *)
BeginPut(w, c) ==
  /\ put[w] = "idle"
  /\ put' = [put EXCEPT ![w] = "write"]
  /\ content' = [content EXCEPT ![w] = c]
  /\ dirs' = dirs \cup {w}
  /\ data' = [data EXCEPT ![w] = "part"]
  /\ UNCHANGED <<blobs, commit, orphans>>

(* The last byte is written; its hash is the reference. *)
Write(w) ==
  /\ put[w] = "write"
  /\ data' = [data EXCEPT ![w] = "whole"]
  /\ To(w, "stat")
  /\ UNCHANGED <<blobs, commit, dirs, orphans>>

(* The deferred RemoveAll of the temporary directory. *)
RemoveDir(w) == dirs' = dirs \ {w} /\ data' = [data EXCEPT ![w] = "none"]

(* The content is there already. *)
Known(w) ==
  /\ put[w] = "stat" /\ blobs[content[w]] # "none"
  /\ RemoveDir(w)
  /\ To(w, "done")
  /\ UNCHANGED <<blobs, commit, orphans>>

(* It is not: an empty file beside the destination. *)
CreateCommit(w) ==
  /\ put[w] = "stat" /\ blobs[content[w]] = "none"
  /\ commit' = [commit EXCEPT ![w] = "empty"]
  /\ To(w, "stage")
  /\ UNCHANGED <<blobs, data, dirs, orphans>>

(* Mutant: the data file is not renamed to the commit file. *)
StageNothing(w) ==
  /\ put[w] = "stage"
  /\ To(w, "rename")
  /\ UNCHANGED files

Stage(w) ==
  /\ put[w] = "stage"
  /\ commit' = [commit EXCEPT ![w] = data[w]]
  /\ data' = [data EXCEPT ![w] = "none"]
  /\ To(w, "rename")
  /\ UNCHANGED <<blobs, dirs, orphans>>

(* The rename to the destination: another Put may have made it by now.     *)
Commit(w) ==
  /\ put[w] = "rename"
  /\ blobs' = [blobs EXCEPT ![content[w]] = commit[w]]
  /\ commit' = [commit EXCEPT ![w] = "none"]
  /\ RemoveDir(w)
  /\ To(w, "done")
  /\ UNCHANGED orphans

(* Mutant: the commit file stays when a rename fails. *)
PutFailsKeeping(w) ==
  /\ put[w] \in {"write", "stat", "stage", "rename"}
  /\ RemoveDir(w)
  /\ put' = [put EXCEPT ![w] = "idle"] /\ content' = [content EXCEPT ![w] = NoContent]
  /\ UNCHANGED <<blobs, commit, orphans>>

(* The reader, the context or the filesystem fails: Put returns an error.  *)
PutFails(w) ==
  /\ put[w] \in {"write", "stat", "stage", "rename"}
  /\ RemoveDir(w)
  /\ commit' = [commit EXCEPT ![w] = "none"]
  /\ put' = [put EXCEPT ![w] = "idle"] /\ content' = [content EXCEPT ![w] = NoContent]
  /\ UNCHANGED <<blobs, orphans>>

(* The caller of Put goes on, and has or has not used the reference. *)
ForgetPut(w) ==
  /\ put[w] = "done"
  /\ put' = [put EXCEPT ![w] = "idle"] /\ content' = [content EXCEPT ![w] = NoContent]
  /\ UNCHANGED files

PutStep(w) == Write(w) \/ Known(w) \/ CreateCommit(w) \/ Stage(w) \/ Commit(w)

(* The process dies: nothing removes its temporary files, now or later.    *)
BlobCrash ==
  /\ orphans' = (orphans \/ dirs # {})
  /\ dirs' = {} /\ data' = [w \in Putters |-> "none"] /\ commit' = [w \in Putters |-> "none"]
  /\ put' = [w \in Putters |-> "idle"] /\ content' = [w \in Putters |-> NoContent]
  /\ UNCHANGED blobs
=============================================================================
