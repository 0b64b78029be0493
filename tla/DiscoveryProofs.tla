-------------------------- MODULE DiscoveryProofs ---------------------------
(***************************************************************************)
(* What the search for the TSE guarantees, for every set of disks, however *)
(* often they are exchanged and however many reads fail.                   *)
(***************************************************************************)
EXTENDS Discovery, TLAPS

Types ==
  /\ cands \in Seq(Disks) /\ i \in Nat \ {0} /\ unread \subseteq Disks
  /\ second \in BOOLEAN /\ valid \in BOOLEAN /\ swaps \in Nat /\ fails \in Nat
  /\ kind \in [Nodes -> Kinds]
  /\ pc \in {"mount", "scan", "probe", "open", "library", "up", "down"}
  /\ pc = "open" => i <= Len(cands)

LEMMA WorldType ==
  ASSUME NEW w \in Worlds
  PROVE  w.kind \in [Nodes -> Kinds] /\ w.removable \subseteq Disks
BY DiscoveryAssumption DEF DiscoveryAssumption

LEMMA TargetType ==
  ASSUME i \in Nat \ {0}, second \in BOOLEAN, NextTarget \/ UNCHANGED <<i, second>>
  PROVE  i' \in Nat \ {0} /\ second' \in BOOLEAN
<1>1. i' \in Nat \ {0}
  BY DEF NextTarget
<1>2. NextTarget => second' = ~second
  BY Zenon DEF NextTarget
<1>3. second' \in BOOLEAN
  BY <1>2, Zenon
<1> QED BY <1>1, <1>3

\* What happens to a candidate list, step by step.
LEMMA TypesHold ==
  ASSUME Types, [Next]_vars
  PROVE  Types'
<1> USE DEF Types
<1>1. CASE UNCHANGED vars
  BY <1>1 DEF vars, world
<1>2. CASE Mount
  BY <1>2 DEF Mount, world
<1>3. CASE Scan
  <2>1. CASE unread = {} \/ Len(cands) = MaxCand
    BY <1>3, <2>1 DEF Scan
  <2>2. CASE ~(unread = {} \/ Len(cands) = MaxCand)
    <3>1. PICK n \in unread :
            /\ unread' = unread \ {n}
            /\ cands' = IF IsCandidate(n) THEN Append(cands, n) ELSE cands
      BY <1>3, <2>2 DEF Scan
    <3>2. cands' \in Seq(Disks)
      BY <3>1
    <3> QED BY <1>3, <2>2, <3>1, <3>2 DEF Scan
  <2> QED BY <2>1, <2>2
<1>4. CASE Probe
  <2>1. PICK f \in {"no", "table", "info"} :
          /\ Faults(f)
          /\ IF LooksLikeTse(Target, f)
             THEN pc' = "open" /\ UNCHANGED <<i, second>>
             ELSE NextTarget /\ UNCHANGED pc
    BY <1>4 DEF Probe
  <2>2. i' \in Nat \ {0} /\ second' \in BOOLEAN
    BY <2>1, TargetType
  <2>3. fails' \in Nat
    BY <2>1 DEF Faults
  <2>4. pc' \in {"probe", "open"} /\ (pc' = "open" => i' = i)
    BY <1>4, <2>1 DEF Probe
  <2>5. UNCHANGED <<kind, swaps, unread, cands, valid>> /\ i <= Len(cands)
    BY <1>4 DEF Probe
  <2> QED BY <2>2, <2>3, <2>4, <2>5
<1>5. CASE Open
  <2>1. PICK f \in {"no", "table"} :
          /\ Faults(f) /\ valid' = HasTable(Target, f)
          /\ IF HasTable(Target, f)
             THEN pc' = "library" /\ UNCHANGED <<i, second>>
             ELSE pc' = "probe" /\ NextTarget
    BY <1>5 DEF Open
  <2>2. i' \in Nat \ {0} /\ second' \in BOOLEAN
    BY <2>1, TargetType
  <2>3. fails' \in Nat
    BY <2>1 DEF Faults
  <2>4. valid' \in BOOLEAN
    BY <2>1, Zenon DEF HasTable
  <2>5. pc' \in {"probe", "library"}
    BY <2>1
  <2>6. UNCHANGED <<kind, swaps, unread, cands>>
    BY <1>5 DEF Open, world
  <2> QED BY <2>2, <2>3, <2>4, <2>5, <2>6
<1>6. CASE Lost
  BY <1>6 DEF Lost, world, Close
<1>7. CASE Library
  BY <1>7 DEF Library, world, Close
<1>8. CASE Shutdown
  BY <1>8 DEF Shutdown, world, Close
<1>9. ASSUME NEW d \in Disks, Swap(d) PROVE Types'
  <2>1. PICK w \in Worlds : kind' = w.kind
    BY <1>9 DEF Swap
  <2> QED BY <1>9, <2>1, WorldType DEF Swap
<1>10. CASE NoList
  BY <1>10 DEF NoList, world
<1> QED BY <1>10, <1>1, <1>2, <1>3, <1>4, <1>5, <1>6, <1>7, <1>8, <1>9 DEF Next

LEMMA TypesAtStart == Init => Types
<1> SUFFICES ASSUME Init PROVE Types OBVIOUS
<1>1. kind \in [Nodes -> Kinds]
  BY WorldType DEF Init
<1>2. cands \in Seq(Disks) /\ i \in Nat \ {0} /\ unread \subseteq Disks
  BY DEF Init
<1>3. second = FALSE /\ valid = FALSE /\ swaps \in Nat /\ fails \in Nat
  BY DEF Init
<1>4. pc \in {"mount", "scan"}
  BY DEF Init
<1> QED BY <1>1, <1>2, <1>3, <1>4 DEF Types

(***************************************************************************)
(* No fixed disk is opened.                                                *)
(***************************************************************************)
Vetted(n) == n \in removable \/ <<n, "listed">> \in swapped

\* The candidates have been looked up in sysfs, and only they and their parts
\* have been opened.
Sound ==
  /\ \A k \in 1..Len(cands) : Vetted(cands[k]) /\ cands[k] \notin unread
  /\ NeverFixed

\* What a disk was found to be remains so until it is exchanged.
LEMMA VettedHolds ==
  ASSUME NEW n, Vetted(n), [Next]_vars, pc = "scan" => n \notin unread
  PROVE  Vetted(n)'
<1> USE DEF Vetted
<1>1. CASE UNCHANGED vars
  BY <1>1 DEF vars, world
<1>2. CASE Mount
  BY <1>2 DEF Mount, world
<1>3. CASE Scan
  <2>1. UNCHANGED removable
    BY <1>3 DEF Scan
  <2>2. UNCHANGED swapped \/ \E m \in unread : swapped' = swapped \ {<<m, "listed">>}
    BY <1>3 DEF Scan
  <2> QED BY <2>1, <2>2, <1>3 DEF Scan
<1>4. CASE Probe
  <2>1. UNCHANGED removable
    BY <1>4 DEF Probe
  <2>2. UNCHANGED swapped \/ swapped' = swapped \ {<<DiskOf(Target), "probed">>}
    BY <1>4 DEF Probe
  <2> QED BY <2>1, <2>2
<1>5. CASE Open
  BY <1>5 DEF Open, world
<1>6. CASE Lost
  BY <1>6 DEF Lost, world
<1>7. CASE Library
  BY <1>7 DEF Library, world
<1>8. CASE Shutdown
  BY <1>8 DEF Shutdown, world
<1>9. ASSUME NEW d \in Disks, Swap(d) PROVE Vetted(n)'
  <2>1. PICK w \in Worlds : /\ w.removable \ {d} = removable \ {d}
                            /\ removable' = w.removable
    BY <1>9 DEF Swap
  <2>2. swapped' = swapped \cup {<<d, "listed">>, <<d, "probed">>}
    BY <1>9 DEF Swap
  <2>3. CASE n = d
    BY <2>2, <2>3
  <2>4. CASE n # d
    BY <2>1, <2>2, <2>4
  <2> QED BY <2>3, <2>4
<1>10. CASE NoList
  BY <1>10 DEF NoList, world
<1> QED BY <1>10, <1>1, <1>2, <1>3, <1>4, <1>5, <1>6, <1>7, <1>8, <1>9 DEF Next

LEMMA OpensTheVetted ==
  ASSUME Types, Sound, i <= Len(cands), Opened(Target)
  PROVE  NeverFixed'
<1>1. CASE KindAt(Target) = "none"
  BY <1>1 DEF Opened, Sound, NeverFixed
<1>2. CASE KindAt(Target) # "none"
  <2>1. cands[i] \in Disks /\ Vetted(cands[i])
    BY DEF Types, Sound
  <2>2. touched' = touched \cup
          {[node |-> Target, of |-> cands[i], fixed |-> DiskOf(Target) \notin removable,
            excused |-> <<DiskOf(Target), "listed">> \in swapped]}
    BY <1>2 DEF Opened
  <2>3. ASSUME NEW t \in touched', t.fixed
        PROVE  t.excused \/ (t.node = Fallback(t.of) /\ DiskOf(t.node) # t.of)
    <3>1. CASE t \in touched
      BY <3>1, <2>3 DEF Sound, NeverFixed
    <3>2. CASE t = [node |-> Target, of |-> cands[i],
                    fixed |-> DiskOf(Target) \notin removable,
                    excused |-> <<DiskOf(Target), "listed">> \in swapped]
      <4>1. DiskOf(Target) \notin removable
        BY <3>2, <2>3
      <4>2. CASE DiskOf(Target) = cands[i]
        <5>1. <<DiskOf(Target), "listed">> \in swapped
          BY <4>1, <4>2, <2>1 DEF Vetted
        <5> QED BY <3>2, <5>1
      <4>3. CASE DiskOf(Target) # cands[i]
        <5>1. DiskOf(cands[i]) = cands[i]
          BY <2>1 DEF DiskOf
        <5>2. Target = Fallback(cands[i])
          BY <5>1, <4>3 DEF Target
        <5>3. t.node = Target /\ t.of = cands[i]
          BY <3>2
        <5> QED BY <5>2, <5>3, <4>3
      <4> QED BY <4>2, <4>3
    <3> QED BY <2>2, <2>3, <3>1, <3>2
  <2> QED BY <2>3 DEF NeverFixed
<1> QED BY <1>1, <1>2

LEMMA SoundHolds ==
  ASSUME Types, Sound, [Next]_vars
  PROVE  Sound'
<1> DEFINE Known(n) == Vetted(n) /\ n \notin unread
<1> SUFFICES (\A k \in 1..Len(cands) : Known(cands[k]))' /\ NeverFixed'
  BY DEF Sound
<1>1. CASE Scan
  <2>1. NeverFixed'
    BY <1>1 DEF Scan, Sound, NeverFixed
  <2>2. CASE unread = {} \/ Len(cands) = MaxCand
    BY <1>1, <2>1, <2>2 DEF Scan, Sound, Vetted
  <2>3. CASE ~(unread = {} \/ Len(cands) = MaxCand)
    <3>1. PICK n \in unread :
            /\ unread' = unread \ {n} /\ swapped' = swapped \ {<<n, "listed">>}
            /\ cands' = IF IsCandidate(n) THEN Append(cands, n) ELSE cands
      BY <1>1, <2>3 DEF Scan
    <3>2. UNCHANGED removable
      BY <1>1 DEF Scan
    <3>3. ASSUME NEW m, Vetted(m), m # n PROVE Vetted(m)'
      BY <3>1, <3>2, <3>3 DEF Vetted
    <3>4. ASSUME NEW k \in 1..Len(cands) PROVE Known(cands[k])' /\ cands[k] # n
      BY <3>1, <3>3 DEF Sound, Vetted
    <3>5. CASE IsCandidate(n)
      <4>1. n \in removable' /\ n \notin unread'
        BY <3>1, <3>2, <3>5 DEF IsCandidate
      <4>2. ASSUME NEW k \in 1..Len(cands') PROVE Vetted(cands[k])' /\ cands'[k] \notin unread'
        <5>1. cands' = Append(cands, n)
          BY <3>1, <3>5
        <5>2. k \in 1..Len(cands) \/ k = Len(cands) + 1
          BY <5>1 DEF Types
        <5>3. CASE k \in 1..Len(cands)
          <6>1. cands'[k] = cands[k]
            BY <5>1, <5>3 DEF Types
          <6>2. Vetted(cands[k]) /\ cands[k] \notin unread
            BY <5>3 DEF Sound
          <6> QED BY <6>1, <6>2, <3>1, <3>2 DEF Vetted
        <5>4. CASE k = Len(cands) + 1
          BY <5>1, <5>4, <4>1 DEF Types, Vetted
        <5> QED BY <5>2, <5>3, <5>4
      <4> QED BY <4>2, <2>1
    <3>6. CASE ~IsCandidate(n)
      <4>1. cands' = cands
        BY <3>1, <3>6
      <4>2. ASSUME NEW k \in 1..Len(cands) PROVE Vetted(cands[k])' /\ cands[k] \notin unread'
        BY <4>1, <3>1, <3>2 DEF Sound, Vetted
      <4> QED BY <4>1, <4>2, <2>1
    <3> QED BY <3>5, <3>6
  <2> QED BY <2>2, <2>3
<1>2. CASE ~Scan
  <2>1. UNCHANGED <<cands, unread>>
    BY <1>2 DEF Next, vars, world, Mount, NoList, Probe, Open, Lost, Library, Shutdown, Swap
  <2>2. ASSUME NEW k \in 1..Len(cands) PROVE Vetted(cands[k])' /\ cands[k] \notin unread'
    <3>1. Vetted(cands[k]) /\ cands[k] \notin unread
      BY DEF Sound
    <3>2. PICK n : n = cands[k]
      OBVIOUS
    <3>3. Vetted(n)'
      BY <3>1, <3>2, VettedHolds
    <3> QED BY <3>1, <3>2, <3>3, <2>1 DEF Vetted
  <2>3. NeverFixed'
    <3>1. CASE Probe
      <4>1. i <= Len(cands) /\ Opened(Target)
        BY <3>1 DEF Probe
      <4> QED BY <4>1, OpensTheVetted
    <3>2. CASE Open
      <4>1. i <= Len(cands) /\ Opened(Target)
        BY <3>2 DEF Open, Types
      <4> QED BY <4>1, OpensTheVetted
    <3>3. CASE ~Probe /\ ~Open
      <4>1. touched' = touched
        BY <1>2, <3>3 DEF Next, vars, Mount, NoList, Lost, Library, Shutdown, Swap
      <4> QED BY <4>1 DEF Sound, NeverFixed
    <3> QED BY <3>1, <3>2, <3>3
  <2> QED BY <2>1, <2>2, <2>3
<1> QED BY <1>1, <1>2

LEMMA SoundAtStart == Init => Sound
BY DEF Init, Sound, NeverFixed

\* A disk that is not removable is never opened, however the disks are exchanged
\* while they are searched, if it has not taken the place of one that was
\* removable when it was listed and its name is not the one derived from another
\* disk's (ensure_block_open).
THEOREM FixedDisksStayShut == Spec => []NeverFixed
<1>1. Types /\ Sound /\ [Next]_vars => (Types /\ Sound)'
  BY TypesHold, SoundHolds
<1>2. Init => Types /\ Sound
  BY TypesAtStart, SoundAtStart
<1>3. Sound => NeverFixed
  BY DEF Sound
<1> QED BY <1>1, <1>2, <1>3, PTL DEF Spec

(***************************************************************************)
(* What is opened for good.                                                *)
(***************************************************************************)
IsTse(k, n) == k = "tse" \/ <<DiskOf(n), "probed">> \in swapped

\* What was probed is still there, or was exchanged; g_block holds a readable
\* table only when the search is over.
Bound ==
  /\ pc = "open" => IsTse(KindAt(Target), Target)
  /\ pc \in {"library", "up"} /\ bound # <<>> => valid /\ IsTse(boundKind, bound)
  /\ pc = "library" => IsTse(KindAt(bound), bound)
  /\ pc \in {"mount", "scan", "probe", "open", "down"} => ~valid
  /\ pc \in {"mount", "scan"} => bound = <<>>
  /\ \A l \in leaked : ~l.table

LEMMA BoundHolds ==
  ASSUME Types, Bound, [Next]_vars
  PROVE  Bound'
<1> USE DEF Bound, IsTse
<1>1. CASE UNCHANGED vars
  BY <1>1 DEF vars, world, Target, KindAt
<1>2. CASE Mount
  BY <1>2 DEF Mount, world
<1>3. CASE Scan
  <2>1. pc' \in {"scan", "probe"} /\ UNCHANGED <<bound, valid, leaked>> /\ pc = "scan"
    BY <1>3 DEF Scan
  <2> QED BY <2>1
<1>4. CASE Probe
  <2>1. PICK f \in {"no", "table", "info"} :
          /\ leaked' = IF Forgotten(Target, f)
                       THEN leaked \cup {[node |-> Target, table |-> HasTable(Target, f)]}
                       ELSE leaked
          /\ IF LooksLikeTse(Target, f)
             THEN pc' = "open" /\ UNCHANGED <<i, second>>
             ELSE UNCHANGED pc
    BY <1>4 DEF Probe
  <2>2. \A l \in leaked' : ~l.table
    <3>1. CASE Forgotten(Target, f)
      <4>1. ~HasTable(Target, f)
        BY <3>1 DEF Forgotten
      <4>2. PICK e : e = [node |-> Target, table |-> HasTable(Target, f)]
        OBVIOUS
      <4>3. e.table = HasTable(Target, f)
        BY <4>2, Zenon
      <4>4. leaked' = leaked \cup {e}
        BY <2>1, <3>1, <4>2, Zenon
      <4>5. ASSUME NEW l \in leaked' PROVE ~l.table
        <5>1. l \in leaked \/ l = e
          BY <4>4, Zenon
        <5> QED BY <5>1, <4>1, <4>3, Zenon
      <4> QED BY <4>5
    <3>2. CASE ~Forgotten(Target, f)
      BY <2>1, <3>2
    <3> QED BY <3>1, <3>2
  <2>3. pc = "probe" /\ UNCHANGED <<kind, cands, bound, valid>>
    BY <1>4 DEF Probe
  <2>4. pc' = "open" => KindAt(Target)' = "tse"
    BY <2>1, <2>3 DEF LooksLikeTse, Target, KindAt
  <2>5. pc' \in {"probe", "open"}
    BY <2>1, <2>3
  <2> QED BY <2>2, <2>3, <2>4, <2>5
<1>5. CASE Open
  <2>1. PICK f \in {"no", "table"} :
          /\ bound' = IF KindAt(Target) = "none" THEN <<>> ELSE Target
          /\ valid' = HasTable(Target, f) /\ boundKind' = KindAt(Target)
          /\ IF HasTable(Target, f) THEN pc' = "library" ELSE pc' = "probe"
    BY <1>5 DEF Open
  <2>2. \A l \in leaked' : ~l.table
    <3>1. leaked' = leaked \/ leaked' = leaked \cup {[node |-> bound, table |-> valid]}
      BY <1>5 DEF Open
    <3>2. ~valid
      BY <1>5 DEF Open
    <3>3. PICK e : e = [node |-> bound, table |-> valid]
      OBVIOUS
    <3>4. ~e.table
      BY <3>2, <3>3, Zenon
    <3>5. leaked' = leaked \/ leaked' = leaked \cup {e}
      BY <3>1, <3>3, Zenon
    <3> QED BY <3>4, <3>5, Zenon
  <2>3. CASE HasTable(Target, f)
    <3>1. bound' = Target /\ pc' = "library" /\ boundKind' = KindAt(Target)
      BY <2>1, <2>3 DEF HasTable
    <3>2. valid'
      BY <2>1, <2>3, Zenon
    <3>3. UNCHANGED <<kind, swapped>>
      BY <1>5 DEF Open, world
    <3>4. IsTse(KindAt(Target), Target)
      BY <1>5 DEF Open
    <3>5. KindAt(bound)' = KindAt(Target)
      BY <3>1, <3>3 DEF KindAt
    <3> QED BY <2>2, <3>1, <3>2, <3>3, <3>4, <3>5
  <2>4. CASE ~HasTable(Target, f)
    <3>1. pc' = "probe"
      BY <2>1, <2>4
    <3>2. ~valid'
      BY <2>1, <2>4, Zenon
    <3> QED BY <2>2, <3>1, <3>2
  <2> QED BY <2>3, <2>4
<1>6. CASE Lost
  <2>1. pc = "probe" /\ pc' = "down" /\ UNCHANGED leaked
    BY <1>6 DEF Lost
  <2>2. ~valid'
    BY <1>6, <2>1 DEF Lost, Close
  <2> QED BY <2>1, <2>2
<1>7. CASE Library
  <2>1. pc = "library" /\ UNCHANGED <<swapped, leaked>>
    BY <1>7 DEF Library, world
  <2>2. CASE pc' = "up"
    <3>1. UNCHANGED <<bound, valid>> /\ boundKind' \in {KindAt(bound), boundKind}
      BY <1>7, <2>2 DEF Library
    <3> QED BY <2>1, <2>2, <3>1
  <2>3. CASE pc' # "up"
    <3>1. pc' = "down"
      BY <1>7, <2>3 DEF Library
    <3>2. ~valid'
      BY <1>7, <2>3, Zenon DEF Library, Close
    <3> QED BY <2>1, <3>1, <3>2
  <2> QED BY <2>2, <2>3
<1>8. CASE Shutdown
  BY <1>8 DEF Shutdown, world, Close
<1>9. ASSUME NEW d \in Disks, Swap(d) PROVE Bound'
  <2>1. PICK w \in Worlds :
          (\A n \in Nodes : DiskOf(n) # d => w.kind[n] = kind[n]) /\ kind' = w.kind
    BY <1>9 DEF Swap
  <2>2. swapped' = swapped \cup {<<d, "listed">>, <<d, "probed">>}
    BY <1>9 DEF Swap
  <2>3. UNCHANGED <<pc, cands, i, second, bound, valid, leaked, boundKind>>
    BY <1>9 DEF Swap
  <2>4. UNCHANGED Target
    BY <2>3 DEF Target
  <2>5. KindAt(Target) = "tse" /\ DiskOf(Target) # d => KindAt(Target)' = "tse"
    BY <2>1, <2>4 DEF KindAt
  <2>6. KindAt(bound) = "tse" /\ DiskOf(bound) # d => KindAt(bound)' = "tse"
    BY <2>1, <2>3 DEF KindAt
  <2> QED BY <2>2, <2>3, <2>4, <2>5, <2>6
<1>10. CASE NoList
  BY <1>10 DEF NoList, world
<1> QED BY <1>10, <1>1, <1>2, <1>3, <1>4, <1>5, <1>6, <1>7, <1>8, <1>9 DEF Next

LEMMA BoundAtStart == Init => Bound
BY DEF Init, Bound

LEMMA BoundAlways == Spec => [](Types /\ Bound)
<1>1. Types /\ Bound /\ [Next]_vars => (Types /\ Bound)'
  BY TypesHold, BoundHolds
<1>2. Init => Types /\ Bound
  BY TypesAtStart, BoundAtStart
<1> QED BY <1>1, <1>2, PTL DEF Spec

\* The device the program works with is the TSE it probed, unless that was
\* exchanged between the probe and the second open.
THEOREM OpensTheTse == Spec => []BoundIsTse
<1>1. Bound => BoundIsTse
  BY DEF Bound, IsTse, BoundIsTse
<1> QED BY <1>1, BoundAlways, PTL

\* Descriptors are lost only to disks without a readable offset table.
THEOREM DescriptorsAreClosed == Spec => []NothingLost
<1>1. Bound => NothingLost
  BY DEF Bound, NothingLost
<1> QED BY <1>1, BoundAlways, PTL

(***************************************************************************)
(* The search is complete.                                                 *)
(***************************************************************************)
Calm == swaps = 0 /\ fails = 0
Searched(n) == KindAt(n) # "tse"

\* While nothing is exchanged and no read fails: every disk that qualifies is
\* unread or listed, and what is before the one at hand is no TSE.
Listed ==
  /\ \A d \in removable :
       Eligible(d) => d \in unread \/ \E k \in 1..Len(cands) : cands[k] = d
  /\ pc \in {"probe", "open"} => unread = {} \/ Len(cands) = MaxCand
  /\ pc \in {"mount", "scan"} => i = 1 /\ second = FALSE

Tried ==
  /\ \A k \in 1..Len(cands) :
       k < i => Searched(cands[k]) /\ Searched(Fallback(cands[k]))
  /\ second => Searched(cands[i])
  /\ pc = "open" => KindAt(Target) = "tse"

\* The candidates stay as they are once the first is probed.
LEMMA ListedHolds ==
  ASSUME Types, Listed, [Next]_vars, Calm'
  PROVE  Listed'
<1> USE DEF Listed
<1>1. CASE UNCHANGED vars
  BY <1>1 DEF vars, world
<1>2. CASE Mount
  BY <1>2 DEF Mount, world
<1>3. CASE Scan
  <2>1. UNCHANGED <<removable, i, second>> /\ pc = "scan" /\ pc' \in {"scan", "probe"}
    BY <1>3 DEF Scan
  <2>2. CASE unread = {} \/ Len(cands) = MaxCand
    BY <1>3, <2>1, <2>2 DEF Scan
  <2>3. CASE ~(unread = {} \/ Len(cands) = MaxCand)
    <3>1. PICK n \in unread :
            /\ unread' = unread \ {n} /\ UNCHANGED pc
            /\ cands' = IF IsCandidate(n) THEN Append(cands, n) ELSE cands
      BY <1>3, <2>3 DEF Scan
    <3>2. ASSUME NEW d \in removable', Eligible(d)
          PROVE  d \in unread' \/ \E k \in 1..Len(cands') : cands'[k] = d
      <4>1. CASE d \in unread /\ d # n
        BY <4>1, <3>1
      <4>2. CASE d = n
        <5>1. cands' = Append(cands, n)
          BY <2>1, <3>1, <3>2, <4>2 DEF IsCandidate
        <5> QED BY <5>1, <4>2 DEF Types
      <4>3. CASE \E k \in 1..Len(cands) : cands[k] = d
        <5>1. PICK k \in 1..Len(cands) : cands[k] = d
          BY <4>3
        <5>2. k \in 1..Len(cands') /\ cands'[k] = d
          BY <5>1, <3>1 DEF Types
        <5> QED BY <5>2
      <4> QED BY <4>1, <4>2, <4>3, <3>2, <2>1
    <3> QED BY <3>1, <3>2, <2>1
  <2> QED BY <2>2, <2>3
<1>4. CASE Probe
  BY <1>4 DEF Probe
<1>5. CASE Open
  <2>1. UNCHANGED <<removable, unread, cands>> /\ pc' \in {"probe", "library"}
    BY <1>5 DEF Open, world
  <2>2. unread = {} \/ Len(cands) = MaxCand
    BY <1>5 DEF Open
  <2> QED BY <2>1, <2>2
<1>6. CASE Lost
  BY <1>6 DEF Lost, world
<1>7. CASE Library
  BY <1>7 DEF Library, world
<1>8. CASE Shutdown
  BY <1>8 DEF Shutdown, world
<1>9. ASSUME NEW d \in Disks, Swap(d) PROVE Listed'
  BY <1>9 DEF Swap, Calm, Types
<1>10. CASE NoList
  BY <1>10 DEF NoList, world
<1> QED BY <1>10, <1>1, <1>2, <1>3, <1>4, <1>5, <1>6, <1>7, <1>8, <1>9 DEF Next

LEMMA TriedHolds ==
  ASSUME Types, Listed, Tried, [Next]_vars, Calm'
  PROVE  Tried'
<1> USE DEF Tried, Searched
<1>1. CASE UNCHANGED vars
  BY <1>1 DEF vars, world, KindAt, Target
<1>2. CASE Mount
  BY <1>2 DEF Mount, world, KindAt, Target
<1>3. CASE Scan
  BY <1>3 DEF Scan, Listed, Types
<1>4. CASE Probe
  <2>1. PICK f \in {"no", "table", "info"} :
          /\ Faults(f)
          /\ IF LooksLikeTse(Target, f)
             THEN pc' = "open" /\ UNCHANGED <<i, second>>
             ELSE NextTarget /\ UNCHANGED pc
    BY <1>4 DEF Probe
  <2>2. UNCHANGED <<kind, cands>> /\ pc = "probe"
    BY <1>4 DEF Probe
  <2>3. f = "no"
    BY <2>1 DEF Faults, Calm, Types
  <2>4. CASE LooksLikeTse(Target, f)
    <3>1. KindAt(Target) = "tse" /\ UNCHANGED <<i, second>>
      BY <2>1, <2>4 DEF LooksLikeTse
    <3> QED BY <3>1, <2>2 DEF KindAt, Target
  <2>5. CASE ~LooksLikeTse(Target, f)
    <3>1. Searched(Target)
      BY <2>5, <2>3 DEF LooksLikeTse, HasTable
    <3>2. NextTarget /\ pc' = "probe"
      BY <2>1, <2>2, <2>5
    <3>3. CASE second
      <4>1. i' = i + 1 /\ ~second' /\ Searched(Fallback(cands[i]))
        BY <3>1, <3>2, <3>3 DEF NextTarget, Target
      <4>2. ASSUME NEW k \in 1..Len(cands), k < i'
            PROVE  Searched(cands[k]) /\ Searched(Fallback(cands[k]))
        BY <4>1, <4>2, <3>3 DEF Types
      <4> QED BY <4>1, <4>2, <3>2, <2>2 DEF KindAt
    <3>4. CASE ~second
      BY <3>1, <3>2, <3>4, <2>2 DEF NextTarget, Target, KindAt
    <3> QED BY <3>3, <3>4
  <2> QED BY <2>4, <2>5
<1>5. CASE Open
  <2>1. PICK f \in {"no", "table"} :
          /\ Faults(f)
          /\ HasTable(Target, f) => pc' = "library" /\ UNCHANGED <<i, second>>
    BY <1>5 DEF Open
  <2>2. f = "no"
    BY <2>1 DEF Faults, Calm, Types
  <2>3. HasTable(Target, f)
    BY <1>5, <2>2 DEF Open, HasTable
  <2>4. UNCHANGED <<kind, cands>>
    BY <1>5 DEF Open, world
  <2> QED BY <2>1, <2>3, <2>4 DEF KindAt
<1>6. CASE Lost
  BY <1>6 DEF Lost, world, KindAt
<1>7. CASE Library
  BY <1>7 DEF Library, world, KindAt
<1>8. CASE Shutdown
  BY <1>8 DEF Shutdown, world, KindAt
<1>9. ASSUME NEW d \in Disks, Swap(d) PROVE Tried'
  BY <1>9 DEF Swap, Calm, Types
<1>10. CASE NoList
  BY <1>10 DEF NoList, world, KindAt
<1> QED BY <1>10, <1>1, <1>2, <1>3, <1>4, <1>5, <1>6, <1>7, <1>8, <1>9 DEF Next

\* Faults and exchanges are counted and never forgotten.
LEMMA CalmBefore == ASSUME Types, [Next]_vars, Calm' PROVE Calm
<1> USE DEF Calm, Types
<1>1. CASE Probe
  BY <1>1 DEF Probe, Faults
<1>2. CASE Open
  BY <1>2 DEF Open, Faults, world
<1>3. CASE ~Probe /\ ~Open
  BY <1>3 DEF Next, vars, world, Mount, NoList, Scan, Lost, Library, Shutdown, Swap
<1> QED BY <1>1, <1>2, <1>3

\* A search that nothing disturbs finds the TSE on a removable disk, under the
\* disk's name or the other, unless the places for candidates were taken first.
THEOREM SearchIsComplete == Spec => []FoundIfPresent
<1> DEFINE Complete == Types /\ (Calm => Listed /\ Tried)
<1>1. Init => Complete
  <2> SUFFICES ASSUME Init PROVE Listed /\ Tried
    BY TypesAtStart
  <2>1. removable \subseteq Disks /\ unread = Disks /\ i = 1 /\ second = FALSE
    BY WorldType DEF Init
  <2>2. pc \in {"mount", "scan"} /\ Len(cands) = 0
    BY DEF Init
  <2> QED BY <2>1, <2>2 DEF Listed, Tried
<1>2. Complete /\ [Next]_vars => Complete'
  BY TypesHold, ListedHolds, TriedHolds, CalmBefore
<1>3. Complete => FoundIfPresent
  <2> SUFFICES ASSUME Complete, pc = "probe", i > Len(cands), Calm,
                      NEW d \in removable, Eligible(d),
                      "tse" \in {KindAt(d), KindAt(Fallback(d))}
               PROVE  Len(cands) = MaxCand /\ \A k \in 1..MaxCand : cands[k] # d
    BY DEF FoundIfPresent, Calm
  <2>1. \A k \in 1..Len(cands) : cands[k] # d
    BY DEF Types, Tried, Searched
  <2>2. d \in unread
    BY <2>1 DEF Listed
  <2> QED BY <2>1, <2>2 DEF Listed
<1> QED BY <1>1, <1>2, <1>3, PTL DEF Spec
=============================================================================
