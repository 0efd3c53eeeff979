-------------------------- MODULE MCFilesAndUploads --------------------------
(* Small instances of a file's life and of the upload page.  They share       *)
(* nothing: a behaviour moves one of them while the other is at rest, with no *)
(* fair action enabled.                                                       *)
EXTENDS FileRetention, UploadScreen

CONSTANTS f1

VARIABLE side

OneFile == [p \in Pages |-> f1]

Start == Init /\ UploadRest /\ side \in {"file", "upload"}

Step ==
  /\ UNCHANGED side
  /\ \/ side = "file" /\ Next /\ UNCHANGED uploadVars
     \/ side = "upload" /\ UploadNext /\ UNCHANGED vars

FilesAndUploads == Start /\ [][Step]_<<vars, uploadVars, side>> /\ Fairness /\ UploadFairness
==============================================================================
