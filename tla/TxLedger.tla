------------------------------ MODULE TxLedger ------------------------------
(***************************************************************************)
(* What the transactions table is for: a ledger in which a number is       *)
(* entered once, for one client, is closed at most once, and never changes *)
(* again.  The numbers belong to the TSE: where the simulator has used one *)
(* in its absence, the TSE's entry takes the place of the simulator's.     *)
(***************************************************************************)
CONSTANTS Numbers, Clients

VARIABLES owner, \* the client of each number's entry, or "none"
          state, \* none, ACTIVE or FINISHED
          by     \* who entered it: none, hw or sim

vars == <<owner, state, by>>

Init == /\ owner = [n \in Numbers |-> "none"]
        /\ state = [n \in Numbers |-> "none"]
        /\ by = [n \in Numbers |-> "none"]

Enter(n, c, s) == /\ by[n] = "none" \/ (by[n] = "sim" /\ s = "hw")
                  /\ state' = [state EXCEPT ![n] = "ACTIVE"]
                  /\ owner' = [owner EXCEPT ![n] = c]
                  /\ by' = [by EXCEPT ![n] = s]

Close(n) == /\ state[n] = "ACTIVE"
            /\ state' = [state EXCEPT ![n] = "FINISHED"]
            /\ UNCHANGED <<owner, by>>

Next == \E n \in Numbers :
          Close(n) \/ \E c \in Clients, s \in {"hw", "sim"} : Enter(n, c, s)

Spec == Init /\ [][Next]_vars
=============================================================================
