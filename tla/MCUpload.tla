------------------------------ MODULE MCUpload ------------------------------
(* Instances of Upload for TLC. *)
EXTENDS Upload

CONSTANTS f1, f2, h1, h2, Faulty, Long

\* f1 takes Long chunks, every other file one.
MCChunks == [f \in File |-> IF f = f1 THEN Long ELSE 1]

MCOrder == [f \in File |-> IF f = f1 THEN 1 ELSE 0]

\* A file alone on every page, two files on the pages that send and edit.
Alone == {f1}
MCBatches == {Alone, File}
MCPages == [b \in MCBatches |-> IF b = Alone THEN {"send", "combined", "edit"} ELSE {"send", "edit"}]

\* A file alone meets all the failures of the bound, one less when they leave a
\* request or a chunk behind; two files meet one less.
Clean == {"lost", "error", "crash"}
MCFaults == {Clean, {"abandon", "torn"}}
MCMaxFaults == [m \in MCBatches \X MCFaults |->
                  IF m[1] = Alone THEN IF m[2] = Clean THEN Faulty ELSE Faulty - 1
                  ELSE IF m[2] = Clean THEN Faulty - 1 ELSE 0]
=============================================================================
