----------------------------- MODULE MCTseWorker -----------------------------
(***************************************************************************)
(* Small instances of TseWorker: main is one of several calling threads,   *)
(* as tse_worker.h promises ("Safe to call from any thread").  It takes    *)
(* one caller in the slot and two waiting for it to tell a broadcast from  *)
(* a signal, hence four with the one whose job runs.                       *)
(***************************************************************************)
EXTENDS TseWorker
CONSTANTS main, worker, c1, c2, c3

FourCallers == {main, c1, c2, c3}
=============================================================================
