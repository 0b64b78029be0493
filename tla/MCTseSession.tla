---------------------------- MODULE MCTseSession ----------------------------
(***************************************************************************)
(* Instances of TseSession: the startup client and one other.             *)
(***************************************************************************)
EXTENDS TseSession
CONSTANTS a, startup, idA

TwoClients   == {a, startup}
TwoIds       == {idA, startup}
TwoSafe      == [c \in TwoClients |-> IF c = a THEN idA ELSE startup]
=============================================================================
