---------------------------- MODULE MCDiscovery -----------------------------
(***************************************************************************)
(* A USB disk with a partition, an SD card, whose derived name is that of  *)
(* another one, and a disk whose name is too long.                         *)
(***************************************************************************)
EXTENDS Discovery

Usb  == <<"sd", "a">>
Part == <<"sd", "a", "1">>
Emmc == <<"mmcblk", "1">>
Card == <<"mmcblk", "1", "0">>
Long == <<"nvme", "long">>

MCDisks   == {Usb, Emmc, Card, Long}
MCNodes   == MCDisks \cup {Part}
MCTooLong == {Long}

\* A partition is on a disk, and the TSE is on one of the two or in the first
\* slot for a card.  These may be fixed; the others are removable.
MCWorlds ==
  [kind : {k \in [MCNodes -> Kinds] :
             /\ k[Usb] = "none" => k[Part] = "none"
             /\ k[Usb] = "tse" => k[Part] # "tse"
             /\ k[Part] # "table" /\ k[Emmc] \in {"tse", "blank"}
             /\ k[Card] \in {"table", "blank"} /\ k[Long] = "tse"},
   removable : {R \in SUBSET MCDisks : {Card, Long} \subseteq R}]
=============================================================================
