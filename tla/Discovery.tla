----------------------------- MODULE Discovery -----------------------------
(***************************************************************************)
(* Finding and opening the TSE (ensure_block_open and tse_worm_init in     *)
(* tse_worm.c, tse_block.c).  The start reads /sys/block, probes each      *)
(* removable disk and one other name derived from it, opens what looks     *)
(* like a TSE once more, for good, and hands it to the vendor's library.   *)
(* Disks can be pulled and exchanged between any two steps, and a read of  *)
(* a disk can fail.  A name is a sequence: a word, then letters or digits. *)
(***************************************************************************)
EXTENDS Naturals, Sequences, FiniteSets

CONSTANTS
  Disks,      \* names in /sys/block
  Nodes,      \* names in /dev: the disks, their partitions, and others
  Worlds,     \* what may be there, and what sysfs says of it
  TooLong,    \* disks whose names have no room in a place for a candidate
  MaxCand,    \* places for candidates, 32
  MaxSwaps,   \* bound on exchanged disks
  MaxFails    \* bound on failed reads

\* A node may be no device at all, a TSE, a device that merely has an offset
\* table, or one that has none.
Kinds  == {"none", "tse", "table", "blank"}
Digits == {"0", "1", "2", "3", "4", "5", "6", "7", "8", "9"}

\* The disk a node belongs to: itself, or what is before a partition's number.
DiskOf(n) == IF n \in Disks THEN n ELSE SubSeq(n, 1, Len(n) - 1)

ASSUME DiscoveryAssumption ==
  /\ Disks \subseteq Nodes
  /\ Worlds \subseteq [kind : [Nodes -> Kinds], removable : SUBSET Disks]
  /\ TooLong \subseteq Disks /\ MaxCand \in Nat /\ MaxSwaps \in Nat /\ MaxFails \in Nat

VARIABLES
  legacy,    \* which interface the library has
  kind,      \* what each node is
  removable, \* the disks whose file in sysfs says so
  pc,
  unread,    \* the entries of /sys/block not read yet
  cands, i,  \* the candidates, and the one at hand
  second,    \* is it the turn of its other name?
  bound,     \* g_block: the node that is open, or <<>>
  valid,     \* g_block.offsets_valid
  leaked,    \* the descriptors g_block or a probe has forgotten
  store,     \* the library's store: none, or of mount, path, name or block
  swaps, fails,
  swapped,   \* ghost: the disks exchanged since they were listed, or probed
  touched,   \* ghost: [node, of, fixed, excused] of every open()
  boundKind  \* ghost: what was there when it was opened for good

world == <<kind, removable, swaps, swapped>>
vars  == <<world, legacy, pc, unread, cands, i, second, bound, valid, leaked, store, fails,
           touched, boundKind>>

Init ==
  /\ legacy \in BOOLEAN
  /\ \E w \in Worlds : kind = w.kind /\ removable = w.removable
  /\ pc = IF legacy THEN "mount" ELSE "scan"
  /\ unread = Disks /\ cands = <<>> /\ i = 1 /\ second = FALSE
  /\ bound = <<>> /\ valid = FALSE /\ leaked = {} /\ store = "none"
  /\ swaps = 0 /\ fails = 0 /\ swapped = {} /\ touched = {} /\ boundKind = "none"

\* A disk is exchanged for another of its name, or pulled, or put in.
Swap(d) ==
  /\ swaps < MaxSwaps /\ swaps' = swaps + 1
  /\ \E w \in Worlds :
       /\ \A n \in Nodes : DiskOf(n) # d => w.kind[n] = kind[n]
       /\ w.removable \ {d} = removable \ {d}
       /\ kind' = w.kind /\ removable' = w.removable
  /\ <<kind, removable>>' # <<kind, removable>>
  /\ swapped' = swapped \cup {<<d, "listed">>, <<d, "probed">>}
  /\ UNCHANGED <<legacy, pc, unread, cands, i, second, bound, valid, leaked, store,
                 fails, touched, boundKind>>

(***************************************************************************)
(* The candidates.                                                         *)
(***************************************************************************)
\* The legacy interface tries two directories first: the vendor's library
\* finds a mounted TSE there, or does not.
Mount ==
  /\ pc = "mount"
  /\ \/ pc' = "up" /\ store' = "mount"
     \/ pc' = "scan" /\ UNCHANGED store
  /\ UNCHANGED <<world, legacy, unread, cands, i, second, bound, valid, leaked, fails,
                 touched, boundKind>>

\* is_block_dev_name.
IsBlockDevName(n) == n[1] \in {"sd", "mmcblk", "nvme"}

\* Defect: any disk will do.
IsCandidate_Fixed(n) == IsBlockDevName(n)

Eligible(n)    == IsBlockDevName(n) /\ n \notin TooLong
IsCandidate(n) == Eligible(n) /\ n \in removable

\* /sys/block cannot be opened.
NoList ==
  /\ pc = "scan" /\ unread = Disks /\ pc' = "down"
  /\ UNCHANGED <<world, legacy, unread, cands, i, second, bound, valid, leaked, store,
                 fails, touched, boundKind>>

\* readdir gives the entries in any order; the loop ends when the places are
\* taken.
Scan ==
  /\ pc = "scan"
  /\ IF unread = {} \/ Len(cands) = MaxCand
     THEN pc' = "probe" /\ UNCHANGED <<unread, cands, swapped>>
     ELSE \E n \in unread :
            /\ unread' = unread \ {n}
            /\ cands' = IF IsCandidate(n) THEN Append(cands, n) ELSE cands
            /\ swapped' = swapped \ {<<n, "listed">>}
            /\ UNCHANGED pc
  /\ UNCHANGED <<kind, removable, swaps, legacy, i, second, bound, valid, leaked,
                 store, fails, touched, boundKind>>

\* The other name: without the last digit, or with a 1 behind it.  It may be
\* another disk's, and sysfs is not asked about that one.
Fallback(n) == IF n[Len(n)] \in Digits THEN SubSeq(n, 1, Len(n) - 1)
               ELSE Append(n, "1")

\* What is there under a name; /dev has no others than Nodes.
KindAt(n) == IF n \in Nodes THEN kind[n] ELSE "none"

Target == IF second THEN Fallback(cands[i]) ELSE cands[i]

(***************************************************************************)
(* Probing and opening.                                                    *)
(***************************************************************************)
\* The read of the offset table, or of the info sector, fails.
Faults(f) == /\ f # "no" => fails < MaxFails
             /\ fails' = IF f = "no" THEN fails ELSE fails + 1

Opened(n) ==
  touched' = IF KindAt(n) = "none" THEN touched
             ELSE touched \cup {[node |-> n, of |-> cands[i],
                                fixed |-> DiskOf(n) \notin removable,
                                excused |-> <<DiskOf(n), "listed">> \in swapped]}

\* tse_block_load_offsets.
HasTable(n, f) == KindAt(n) \in {"tse", "table"} /\ f # "table"

\* Defect: an offset table is enough.
LooksLikeTse_Table(n, f) == HasTable(n, f)

LooksLikeTse(n, f) == HasTable(n, f) /\ f # "info" /\ KindAt(n) = "tse"

\* Defect: the other name is not tried.
NextTarget_NoFallback == i' = i + 1 /\ second' = FALSE

NextTarget == /\ i' = IF second THEN i + 1 ELSE i
              /\ second' = ~second

\* Defect: the probe closes nothing when it fails.
Forgotten_Info(n, f) == KindAt(n) # "none" /\ ~LooksLikeTse(n, f)

\* If the offset table cannot be read, tse_block_open leaves its descriptor
\* open, and the probe does not close it.
Forgotten(n, f) == KindAt(n) # "none" /\ ~HasTable(n, f)

\* tse_block_probe.
Probe ==
  /\ pc = "probe" /\ i <= Len(cands)
  /\ \E f \in {"no", "table", "info"} :
       /\ Faults(f) /\ Opened(Target)
       /\ leaked' = IF Forgotten(Target, f)
                    THEN leaked \cup {[node |-> Target, table |-> HasTable(Target, f)]}
                    ELSE leaked
       /\ IF LooksLikeTse(Target, f)
          THEN /\ pc' = "open" /\ swapped' = swapped \ {<<DiskOf(Target), "probed">>}
               /\ UNCHANGED <<i, second>>
          ELSE NextTarget /\ UNCHANGED <<pc, swapped>>
  /\ UNCHANGED <<kind, removable, swaps, legacy, unread, cands, bound, valid, store,
                 boundKind>>

\* tse_block_open of g_block, which forgets the descriptor it had; after a
\* failure the search goes on.
Open ==
  /\ pc = "open"
  /\ leaked' = IF bound = <<>> THEN leaked
               ELSE leaked \cup {[node |-> bound, table |-> valid]}
  /\ \E f \in {"no", "table"} :
       /\ Faults(f) /\ Opened(Target)
       /\ bound' = IF KindAt(Target) = "none" THEN <<>> ELSE Target
       /\ valid' = HasTable(Target, f)
       /\ boundKind' = KindAt(Target)
       /\ IF HasTable(Target, f)
          THEN pc' = "library" /\ UNCHANGED <<i, second>>
          ELSE pc' = "probe" /\ NextTarget
  /\ UNCHANGED <<world, legacy, unread, cands, store>>

Close == bound' = <<>> /\ valid' = FALSE

\* No candidate is left.  Only the legacy interface's path closes g_block.
Lost ==
  /\ pc = "probe" /\ i > Len(cands) /\ pc' = "down"
  /\ IF legacy THEN Close ELSE UNCHANGED <<bound, valid>>
  /\ UNCHANGED <<world, legacy, unread, cands, i, second, leaked, store, fails, touched,
                 boundKind>>

\* The library makes a store of the device, or gives an error.  With its newer
\* interface it first tries the configured path (there is none as long as
\* config.c:128 empties it), and then opens the device once more, by its name.
Library ==
  /\ pc = "library"
  /\ \/ /\ pc' = "up" /\ UNCHANGED <<bound, valid>>
        /\ store' \in IF legacy THEN {"block"} ELSE {"path", "name", "block"}
        /\ boundKind' = IF store' = "name" THEN KindAt(bound) ELSE boundKind
     \/ pc' = "down" /\ UNCHANGED <<store, boundKind>> /\ Close
  /\ UNCHANGED <<world, legacy, unread, cands, i, second, leaked, fails, touched>>

\* tse_worm_shutdown.
Shutdown ==
  /\ pc = "up" /\ pc' = "down" /\ store' = "none" /\ Close
  /\ UNCHANGED <<world, legacy, unread, cands, i, second, leaked, fails, touched,
                 boundKind>>

Next == \/ Mount \/ NoList \/ Scan \/ Probe \/ Open \/ Lost \/ Library \/ Shutdown
        \/ \E d \in Disks : Swap(d)

Spec == Init /\ [][Next]_vars

(***************************************************************************)
(* Properties.                                                             *)
(***************************************************************************)
TypeOK ==
  /\ legacy \in BOOLEAN /\ [kind |-> kind, removable |-> removable] \in Worlds
  /\ pc \in {"mount", "scan", "probe", "open", "library", "up", "down"}
  /\ unread \subseteq Disks /\ cands \in Seq(Disks) /\ i \in Nat \ {0}
  /\ second \in BOOLEAN /\ valid \in BOOLEAN
  /\ store \in {"none", "mount", "path", "name", "block"} /\ swaps \in Nat /\ fails \in Nat

\* "Fixed system disks are never opened" (tse_worm.c:431), but for two cases: one
\* has taken the place of a removable disk since /sys/block was read, or its name
\* is the one derived from a removable disk's (tse_worm.c:458).
NeverFixed ==
  \A t \in touched :
    t.fixed => t.excused \/ (t.node = Fallback(t.of) /\ DiskOf(t.node) # t.of)

\* ensure_block_open opens the device a second time for good, and open_store by
\* its name a third time: it is the TSE that was probed, unless it was exchanged
\* in between.
BoundIsTse ==
  pc \in {"library", "up"} /\ bound # <<>> =>
    valid /\ (boundKind = "tse" \/ <<DiskOf(bound), "probed">> \in swapped)

\* If nothing is exchanged and no read fails, a TSE on a removable disk, under
\* the disk's name or the derived one, is found, unless its name is too long or
\* there were too many candidates to list it.
FoundIfPresent ==
  pc = "probe" /\ i > Len(cands) /\ swaps = 0 /\ fails = 0 =>
    \A d \in removable :
      Eligible(d) /\ "tse" \in {KindAt(d), KindAt(Fallback(d))} =>
        Len(cands) = MaxCand /\ \A k \in 1..MaxCand : cands[k] # d

\* A descriptor is forgotten only where the offset table could not be read: the
\* probe closes what it can read, and a search that failed leaves no TSE open.
NothingLost ==
  /\ \A l \in leaked : ~l.table
  /\ pc = "down" /\ bound # <<>> => ~valid
=============================================================================
