--------------------------- MODULE MCFileRetention ---------------------------
(* Small instances: the forms of one file, while its deletion is far away:    *)
(* nothing but the upload, its conversion and the orders happens.             *)
EXTENDS FileRetention, TLC

CONSTANTS f1, p1, p2

OneFile == [p \in Pages |-> f1]

(* The forms differ in name only. *)
Forms == Permutations(Pages)

OrderNext ==
  \/ \E f \in Files :
       \/ StoreUpload(f) \/ CreateFileRow(f) \/ EnqueueConversion(f) \/ TimePasses(f)
       \/ \E n \in Attempts :
            \/ StartConversion(f, n) \/ MarkConverting(f, n) \/ StoreConverted(f, n)
            \/ MarkReady(f, n) \/ ConversionFails(f, n) \/ ConversionDies(f, n)
  \/ \E r \in Requests : EndOrder(r) \/ PrintOrder(r)
  \/ CreationNext /\ UNCHANGED <<file, retention>>

OrderSpec == Init /\ [][OrderNext]_vars
==============================================================================
