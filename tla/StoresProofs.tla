---------------------------- MODULE StoresProofs ----------------------------
(***************************************************************************)
(* What is stored: what the run of MCStores checks on a small instance,    *)
(* for any finite sets of goroutines, paths and executions, any keys and   *)
(* any limits.                                                             *)
(*                                                                         *)
(* The modules share no state, so a behavior of all of them is one of      *)
(* each; every one has an inductive invariant of its own, and a step of    *)
(* another leaves its variables alone.                                     *)
(***************************************************************************)
EXTENDS MCStores, FiniteSetTheorems, SequenceTheorems, WellFoundedInduction, TLAPS
-----------------------------------------------------------------------------
(* Values that expire *)

KVItems == [value : Values, level : Nat, expiresAt : Nat]

(* What was set last is there, or has gone because it expired.             *)
StoreInv ==
  /\ kvClock \in Nat
  /\ items \in [Keys -> KVItems \cup {None}]
  /\ last \in [Keys -> KVItems \cup {None}]
  /\ \A k \in Keys :
       \/ items[k] = last[k]
       \/ items[k] = None /\ Store!Expired(last[k])
  /\ Store!LastValueSeen

(* When nothing is shown, only the items matter.                           *)
LEMMA StoreQuiet ==
  ASSUME StoreInv, Store!Quiet,
         kvClock' \in Nat, kvClock' >= kvClock,
         items' \in [Keys -> KVItems \cup {None}],
         last' \in [Keys -> KVItems \cup {None}],
         \A k \in Keys :
           \/ items'[k] = last'[k]
           \/ items'[k] = None /\ Store!Expired(last[k]) /\ last'[k] = last[k] /\ last[k] # None
  PROVE  StoreInv'
<1>1. Store!LastValueSeen'
  BY DEF Store!Quiet, Store!LastValueSeen
<1>2. ASSUME NEW k \in Keys, Store!Expired(last[k]), last'[k] = last[k], last[k] # None
      PROVE  Store!Expired(last[k])'
  <2>1. last[k] \in KVItems
    BY <1>2 DEF StoreInv
  <2> QED
    BY <1>2, <2>1 DEF Store!Expired, Store!NoExpiry, StoreInv, KVItems
<1> QED
  BY <1>1, <1>2 DEF StoreInv

LEMMA StoreInvNext == StoreInv /\ [Store!Next]_kvVars => StoreInv'
<1> SUFFICES ASSUME StoreInv, [Store!Next]_kvVars PROVE StoreInv'
  OBVIOUS
<1> USE DEF StoreInv
<1>1. ASSUME NEW k \in Keys, NEW v \in Values, NEW l \in Levels, NEW t \in TTLs,
             Store!Set(k, v, l, t)
      PROVE  StoreInv'
  <2> DEFINE item == [value |-> v, level |-> l,
                      expiresAt |-> IF t > 0 THEN kvClock + t ELSE Store!NoExpiry]
  <2>1. item \in KVItems
    BY StoresAssumption DEF KVItems, Store!NoExpiry
  <2>2. items' = [items EXCEPT ![k] = item] /\ last' = [last EXCEPT ![k] = item]
    BY <1>1 DEF Store!Set
  <2>3. Store!Quiet /\ kvClock' = kvClock
    BY <1>1 DEF Store!Set
  <2> HIDE DEF item
  <2>4. \A q \in Keys : (items'[q] = items[q] /\ last'[q] = last[q]) \/ items'[q] = last'[q]
    BY <2>2
  <2>5. items' \in [Keys -> KVItems \cup {None}] /\ last' \in [Keys -> KVItems \cup {None}]
    BY <2>1, <2>2
  <2> QED
    BY <2>3, <2>4, <2>5, StoreQuiet
<1>2. ASSUME NEW k \in Keys, NEW l \in Levels, Store!Get(k, l) PROVE StoreInv'
  <2> DEFINE item == items[k]
             gone == item # None /\ Store!Expired(item)
             seen == item # None /\ ~gone /\ ~(l > 0 /\ item.level < l)
  <2>1. /\ items' = (IF gone THEN [items EXCEPT ![k] = None] ELSE items)
        /\ got' = [key |-> k, minLevel |-> l, value |-> IF seen THEN item.value ELSE None]
        /\ listed' = {} /\ kvClock' = kvClock /\ last' = last
    BY <1>2 DEF Store!Get
  <2>2. items' \in [Keys -> KVItems \cup {None}]
    BY <2>1
  <2>3. \A q \in Keys : items'[q] = last[q] \/ (items'[q] = None /\ Store!Expired(last[q]))
    BY <2>1
  <2>4. \A q \in Keys : Store!Expired(last[q])' <=> Store!Expired(last[q])
    BY <2>1 DEF Store!Expired
  <2>5. seen <=> /\ last[k] # None /\ ~Store!Expired(last[k])
                 /\ l > 0 => last[k].level >= l
    <3>1. last[k] # None => last[k].level \in Nat /\ l \in Nat
      BY StoresAssumption DEF KVItems
    <3> QED
      BY <3>1
  <2>6. seen => item = last[k]
    OBVIOUS
  <2>7. Store!LastValueSeen'
    BY <2>1, <2>4, <2>5, <2>6 DEF Store!LastValueSeen
  <2> QED
    BY <2>1, <2>2, <2>3, <2>4, <2>7
<1>3. ASSUME NEW k \in Keys, Store!Delete(k) PROVE StoreInv'
  <2>1. /\ items' = [items EXCEPT ![k] = None] /\ last' = [last EXCEPT ![k] = None]
        /\ Store!Quiet /\ kvClock' = kvClock
    BY <1>3 DEF Store!Delete
  <2> QED
    BY <2>1, StoreQuiet
<1>4. CASE Store!List
  <2>1. listed' = {k \in Keys : last[k] # None /\ ~Store!Expired(last[k])}
    BY <1>4 DEF Store!List
  <2>2. Store!LastValueSeen'
    BY <1>4, <2>1 DEF Store!List, Store!LastValueSeen, Store!Expired
  <2> QED
    BY <1>4, <2>2 DEF Store!List, Store!Expired
<1>5. CASE Store!Expire
  <2>1. /\ items' = [k \in Keys |-> IF items[k] # None /\ Store!Expired(items[k])
                                    THEN None ELSE items[k]]
        /\ Store!Quiet /\ kvClock' = kvClock /\ last' = last
    BY <1>5 DEF Store!Expire
  <2> QED
    BY <2>1, StoreQuiet
<1>6. CASE Store!Tick
  BY <1>6, StoreQuiet DEF Store!Tick
<1>7. CASE UNCHANGED kvVars
  BY <1>7 DEF kvVars, Store!LastValueSeen, Store!Expired
<1> QED
  BY <1>1, <1>2, <1>3, <1>4, <1>5, <1>6, <1>7 DEF Store!Next
-----------------------------------------------------------------------------
(* Snapshots *)

Descending(list) == \A i, j \in 1..Len(list) : i < j => list[i] > list[j]

LEMMA KeptIs ==
  ASSUME NEW list \in Seq(Nat)
  PROVE  LET kept == Snap!Kept(list)
         IN  /\ kept \in Seq(Nat) /\ Len(kept) <= Len(list) /\ Len(kept) <= MaxKeep
             /\ \A i \in 1..Len(kept) : kept[i] = list[i]
<1> DEFINE m == IF Len(list) < MaxKeep THEN Len(list) ELSE MaxKeep
<1>1. m \in Nat /\ m <= Len(list) /\ m <= MaxKeep
  BY StoresAssumption
<1>2. Snap!Kept(list) = SubSeq(list, 1, m)
  BY DEF Snap!Kept
<1> HIDE DEF m
<1>3. \A i \in 1..m : list[i] \in Nat
  BY <1>1
<1>4. /\ SubSeq(list, 1, m) \in Seq(Nat) /\ Len(SubSeq(list, 1, m)) = m
      /\ \A i \in 1..m : SubSeq(list, 1, m)[i] = list[i]
  BY <1>1, <1>3
<1> QED
  BY <1>1, <1>2, <1>4

(* What a trim drops are elements behind the first MaxKeep.                *)
LEMMA DroppedIs ==
  ASSUME NEW list \in Seq(Nat), NEW m \in Nat,
         NEW x \in Snap!Elements(SubSeq(list, m + 1, Len(list)))
  PROVE  \E i \in (m + 1)..Len(list) : x = list[i]
<1> DEFINE rest == SubSeq(list, m + 1, Len(list))
<1>1. m + 1 \in Nat /\ Len(list) \in Nat /\ m + 1 >= 1
  OBVIOUS
<1>2. DOMAIN rest = 1..(Len(list) - (m + 1) + 1)
  BY <1>1
<1>3. PICK i \in DOMAIN rest : x = rest[i]
  BY DEF Snap!Elements
<1>4. i \in 1..(Len(list) - m)
  BY <1>1, <1>2, <1>3
<1>5. rest[i] = list[m + i]
  BY <1>1, <1>4
<1>6. m + i \in (m + 1)..Len(list)
  <2> HIDE DEF rest
  <2> QED
    BY <1>1, <1>4
<1> QED
  BY <1>3, <1>5, <1>6

Above(names, x) == {y \in names : y > x}

SnapTypes ==
  /\ second \in Nat \ {0} /\ versions \in Seq(Nat) /\ archives \in SUBSET Nat
  /\ taking \in Nat /\ named \in BOOLEAN /\ taken \in BOOLEAN
  /\ complete \in SUBSET Nat /\ newest \in Nat

(* No archive is newer than the one being written; and until the process   *)
(* has taken its snapshot the list names no second twice, and no archive   *)
(* that is gone.                                                           *)
SnapInv ==
  /\ SnapTypes
  /\ Len(versions) <= MaxKeep
  /\ newest <= second /\ \A x \in archives : x <= newest
  /\ taking # 0 => taken /\ newest <= taking /\ taking <= second
  /\ named => taking # 0 /\ taking \in archives
  /\ ~taken \/ taking # 0 => Descending(versions) /\ Snap!Elements(versions) \subseteq archives
  /\ Snap!NewestKept

LEMMA SnapCardinality == ASSUME NEW S PROVE Snap!Cardinality(S) = Cardinality(S)
BY DEF Cardinality, Snap!Cardinality

LEMMA ArchivesFinite ==
  ASSUME SnapInv
  PROVE  /\ IsFiniteSet(archives) /\ Cardinality(archives) \in Nat
         /\ \A x : IsFiniteSet(Above(archives, x)) /\ Cardinality(Above(archives, x)) \in Nat
<1>1. archives \in SUBSET (0..second)
  <2>1. second \in Nat /\ newest \in Nat /\ newest <= second
    BY DEF SnapInv, SnapTypes
  <2>2. \A x \in archives : x \in Nat /\ x <= newest
    BY DEF SnapInv, SnapTypes
  <2>3. \A x \in archives : x \in 0..second
    BY <2>1, <2>2
  <2> QED
    BY <2>3
<1>2. IsFiniteSet(0..second)
  BY FS_Interval DEF SnapInv, SnapTypes
<1>3. IsFiniteSet(archives) /\ Cardinality(archives) \in Nat
  BY <1>1, <1>2, FS_Subset, FS_CardinalityType
<1>4. ASSUME NEW x
      PROVE  IsFiniteSet(Above(archives, x)) /\ Cardinality(Above(archives, x)) \in Nat
  <2>1. Above(archives, x) \in SUBSET archives
    BY DEF Above
  <2> QED
    BY <1>3, <2>1, FS_Subset, FS_CardinalityType
<1> QED
  BY <1>3, <1>4

LEMMA NewestIs ==
  Snap!NewestKept <=>
    /\ MaxKeep > 1 =>
         (newest # 0 => newest \in archives) /\ Snap!Elements(versions) \subseteq archives
    /\ \A x \in complete \ archives : Cardinality(Above(archives, x)) >= MaxKeep - 1
BY SnapCardinality DEF Snap!NewestKept, Above

(* The list that a directory gives.                                        *)
LEMMA ListingIs ==
  ASSUME SnapInv, NEW all \in Snap!Listings(archives)
  PROVE  LET list == Snap!Kept(all)
         IN  /\ list \in Seq(Nat) /\ Len(list) <= MaxKeep /\ Descending(list)
             /\ Snap!Elements(list) \subseteq archives
<1> DEFINE n == Cardinality(archives)
<1>1. n \in Nat
  BY ArchivesFinite
<1>2. Cardinality(archives) = Snap!Cardinality(archives)
  BY SnapCardinality
<1>3. all \in [1..n -> archives] /\ \A i, j \in 1..n : i < j => all[i] > all[j]
  BY <1>2 DEF Snap!Listings
<1> HIDE DEF n
<1>4. all \in Seq(Nat) /\ Len(all) = n
  <2>1. all = [i \in 1..n |-> all[i]] /\ \A i \in 1..n : all[i] \in Nat
    BY <1>3 DEF SnapInv, SnapTypes
  <2>2. [i \in 1..n |-> all[i]] \in Seq(Nat)
    BY <1>1, <2>1, IsASeq
  <2>3. all \in Seq(Nat) /\ DOMAIN all = 1..n
    BY <2>1, <2>2
  <2>4. Len(all) = n
    BY <1>1, <2>3
  <2> QED
    BY <2>3, <2>4
<1> DEFINE list == Snap!Kept(all)
<1>5. /\ list \in Seq(Nat) /\ Len(list) <= n /\ Len(list) <= MaxKeep
      /\ \A i \in 1..Len(list) : list[i] = all[i]
  BY <1>4, KeptIs
<1> HIDE DEF list
<1>6. \A i \in 1..Len(list) : i \in 1..n
  BY <1>1, <1>5
<1>7. Descending(list)
  BY <1>3, <1>5, <1>6 DEF Descending
<1>8. Snap!Elements(list) \subseteq archives
  BY <1>3, <1>5, <1>6 DEF Snap!Elements
<1> QED
  BY <1>5, <1>7, <1>8 DEF list

(* A list without what is newer gets its new name at its head.             *)
LEMMA WithVersionIs ==
  ASSUME NEW list \in Seq(Nat), NEW v \in Nat, \A i \in 1..Len(list) : list[i] <= v
  PROVE  /\ Snap!WithVersion(list, v) \in Seq(Nat)
         /\ Len(Snap!WithVersion(list, v)) = Len(list) + 1
         /\ Snap!WithVersion(list, v)[1] = v
         /\ \A i \in 2..(Len(list) + 1) : Snap!WithVersion(list, v)[i] = list[i - 1]
<1>1. {i \in DOMAIN list : list[i] > v} = {}
  <2>1. \A i \in DOMAIN list : list[i] \in Nat /\ list[i] <= v
    OBVIOUS
  <2>2. \A i \in DOMAIN list : ~(list[i] > v)
    BY <2>1
  <2> QED
    BY <2>2, Zenon
<1>2. Snap!Cardinality({}) = 0
  <2>1. Snap!Cardinality({}) = Cardinality({})
    BY DEF Cardinality, Snap!Cardinality
  <2> QED
    BY <2>1, FS_EmptySet
<1>3. Snap!WithVersion(list, v) = SubSeq(list, 1, 0) \o <<v>> \o SubSeq(list, 0 + 1, Len(list))
  BY <1>1, <1>2 DEF Snap!WithVersion
<1>4. SubSeq(list, 1, 0) = <<>> /\ SubSeq(list, 0 + 1, Len(list)) = list
  BY SubSeqFull
<1>5. Snap!WithVersion(list, v) = <<v>> \o list
  BY <1>3, <1>4
<1> QED
  BY <1>5

(* As many names as a list has that names none twice.                      *)
LEMMA DistinctNames ==
  ASSUME NEW list \in Seq(Nat), Descending(list), NEW m \in Nat, m <= Len(list),
         NEW S, IsFiniteSet(S), \A i \in 1..m : list[i] \in S
  PROVE  m <= Cardinality(S)
<1> DEFINE f == [i \in 1..m |-> list[i]]
<1>1. f \in [1..m -> S]
  OBVIOUS
<1>2. \A i, j \in 1..m : f[i] = f[j] => i = j
  <2> TAKE i, j \in 1..m
  <2> HAVE f[i] = f[j]
  <2>1. i \in 1..Len(list) /\ j \in 1..Len(list) /\ list[i] = list[j]
    OBVIOUS
  <2>2. ~(i < j)
    BY <2>1 DEF Descending
  <2>3. ~(j < i)
    BY <2>1 DEF Descending
  <2> QED
    BY <2>1, <2>2, <2>3
<1> HIDE DEF f
<1>3. f \in Injection(1..m, S)
  BY <1>1, <1>2 DEF Injection, IsInjective
<1>4. Cardinality(1..m) = m
  <2>1. Cardinality(1..m) = IF 1 > m THEN 0 ELSE m - 1 + 1
    BY FS_Interval
  <2> QED
    BY <2>1
<1>5. IsFiniteSet(1..m) /\ Cardinality(1..m) <= Cardinality(S)
  BY <1>3, FS_Injection
<1> QED
  BY <1>4, <1>5

(* What is gone has as many names above it as before when names are added. *)
LEMMA GoneStays ==
  ASSUME SnapInv, IsFiniteSet(archives'), archives \subseteq archives',
         complete' \ archives' \subseteq complete \ archives
  PROVE  \A x \in complete' \ archives' : Cardinality(Above(archives', x)) >= MaxKeep - 1
<1> TAKE x \in complete' \ archives'
<1>1. x \in complete \ archives
  OBVIOUS
<1>2. Above(archives, x) \in SUBSET Above(archives', x)
  BY DEF Above
<1>3. Above(archives', x) \in SUBSET archives'
  BY DEF Above
<1>4. IsFiniteSet(Above(archives', x)) /\ Cardinality(Above(archives', x)) \in Nat
  BY <1>3, FS_Subset, FS_CardinalityType
<1>5. Cardinality(Above(archives, x)) <= Cardinality(Above(archives', x))
  BY <1>2, <1>4, FS_Subset
<1>6. Cardinality(Above(archives, x)) >= MaxKeep - 1
  BY <1>1, NewestIs DEF SnapInv
<1>7. Cardinality(Above(archives, x)) \in Nat /\ MaxKeep \in Nat
  BY ArchivesFinite, StoresAssumption
<1> QED
  BY <1>4, <1>5, <1>6, <1>7

LEMMA RenameArchiveInv ==
  ASSUME SnapInv, Snap!Rename
  PROVE  SnapInv'
<1>1. /\ taking # 0 /\ ~named /\ named' = TRUE /\ archives' = archives \cup {taking}
      /\ complete' \in {complete \cup {taking}, complete \ {taking}}
      /\ newest' = (IF taking > newest THEN taking ELSE newest)
      /\ UNCHANGED <<second, versions, taking, taken>>
  BY DEF Snap!Rename
<1>2. /\ taken /\ newest <= taking /\ taking <= second /\ SnapTypes
      /\ Descending(versions) /\ Snap!Elements(versions) \subseteq archives
  BY <1>1 DEF SnapInv
<1>3. newest' = taking /\ taking \in Nat /\ second \in Nat
  BY <1>1, <1>2 DEF SnapTypes
<1>4. SnapTypes'
  BY <1>1, <1>2, <1>3 DEF SnapTypes
<1>5. \A x \in archives' : x <= newest'
  <2>1. \A x \in archives : x <= taking
    <3>1. \A x \in archives : x \in Nat /\ x <= newest
      BY <1>2 DEF SnapInv, SnapTypes
    <3> QED
      BY <1>2, <1>3, <3>1 DEF SnapTypes
  <2> QED
    BY <1>1, <1>3, <2>1
<1>6. \A x \in complete' \ archives' : Cardinality(Above(archives', x)) >= MaxKeep - 1
  <2>1. IsFiniteSet(archives')
    BY <1>1, ArchivesFinite, FS_AddElement
  <2>2. archives \subseteq archives' /\ complete' \ archives' \subseteq complete \ archives
    BY <1>1
  <2> QED
    BY <2>1, <2>2, GoneStays
<1>7. Descending(versions)' /\ Snap!Elements(versions)' \subseteq archives'
  BY <1>1, <1>2 DEF Descending, Snap!Elements
<1>8. newest' \in archives'
  BY <1>1, <1>3
<1>9. Snap!NewestKept'
  BY <1>6, <1>7, <1>8, SnapCardinality DEF Snap!NewestKept, Above
<1>10. newest' <= second'
  BY <1>1, <1>2, <1>3
<1>11. Len(versions') <= MaxKeep
  BY <1>1 DEF SnapInv
<1>12. newest' <= taking'
  BY <1>1, <1>3
<1> QED
  BY <1>1, <1>2, <1>4, <1>5, <1>7, <1>8, <1>9, <1>10, <1>11, <1>12 DEF SnapInv

(* A trim removes one archive, the last of a full list, or none.           *)
LEMMA TrimIs ==
  ASSUME SnapInv, Snap!Trim
  PROVE  /\ versions' \in Seq(Nat) /\ Len(versions') <= MaxKeep
         /\ \A i \in 1..Len(versions') :
              versions'[i] = IF i = 1 THEN taking ELSE versions[i - 1]
         /\ Len(versions') <= Len(versions) + 1
         /\ archives' \subseteq archives
         /\ \A x \in archives \ archives' : Len(versions) = MaxKeep /\ x = versions[MaxKeep]
<1> DEFINE list == Snap!WithVersion(versions, taking)
           dropped == Snap!Elements(SubSeq(list, MaxKeep + 1, Len(list)))
<1>0. /\ SnapTypes /\ taking # 0 /\ taking \in Nat
      /\ Descending(versions) /\ Snap!Elements(versions) \subseteq archives
  BY DEF SnapInv, SnapTypes, Snap!Trim
<1>1. \A i \in 1..Len(versions) : versions[i] <= taking
  <2> TAKE i \in 1..Len(versions)
  <2>1. versions[i] \in archives
    BY <1>0 DEF Snap!Elements, SnapTypes
  <2>2. versions[i] \in Nat /\ newest \in Nat /\ versions[i] <= newest /\ newest <= taking
    BY <1>0, <2>1 DEF SnapInv, SnapTypes
  <2> QED
    BY <1>0, <2>2
<1>2. /\ list \in Seq(Nat) /\ Len(list) = Len(versions) + 1 /\ list[1] = taking
      /\ \A i \in 2..(Len(versions) + 1) : list[i] = versions[i - 1]
  BY <1>0, <1>1, WithVersionIs DEF SnapTypes
<1>3. versions' = Snap!Kept(list) /\ archives' = archives \ dropped
  BY DEF Snap!Trim
<1>4. MaxKeep \in Nat /\ MaxKeep >= 1 /\ Len(versions) \in Nat /\ Len(versions) <= MaxKeep
  BY <1>0, StoresAssumption DEF SnapInv, SnapTypes
<1> HIDE DEF list
<1>5. \A x \in dropped : \E i \in (MaxKeep + 1)..Len(list) : x = list[i]
  BY <1>2, <1>4, DroppedIs
<1> HIDE DEF dropped
<1>6. \A x \in dropped : Len(versions) = MaxKeep /\ x = versions[MaxKeep]
  <2> TAKE x \in dropped
  <2>1. PICK i \in (MaxKeep + 1)..Len(list) : x = list[i]
    BY <1>5
  <2>2. i = MaxKeep + 1 /\ Len(versions) = MaxKeep
    BY <1>2, <1>4
  <2>3. i \in 2..(Len(versions) + 1) /\ i - 1 = MaxKeep
    BY <1>4, <2>2
  <2>4. list[i] = versions[i - 1]
    BY <1>2, <2>3
  <2> QED
    BY <2>1, <2>2, <2>3, <2>4
<1>7. /\ versions' \in Seq(Nat) /\ Len(versions') <= Len(list) /\ Len(versions') <= MaxKeep
      /\ \A i \in 1..Len(versions') : versions'[i] = list[i]
  BY <1>2, <1>3, KeptIs
<1>8. \A i \in 1..Len(versions') : versions'[i] = IF i = 1 THEN taking ELSE versions[i - 1]
  <2> TAKE i \in 1..Len(versions')
  <2>1. versions'[i] = list[i]
    BY <1>7
  <2>2. CASE i = 1
    BY <1>2, <2>1, <2>2
  <2>3. CASE i # 1
    <3>1. i \in 2..(Len(versions) + 1)
      BY <1>2, <1>4, <1>7, <2>3
    <3> QED
      BY <1>2, <2>1, <2>3, <3>1
  <2> QED
    BY <2>2, <2>3
<1> QED
  BY <1>2, <1>3, <1>6, <1>7, <1>8

LEMMA TrimInv ==
  ASSUME SnapInv, Snap!Trim
  PROVE  SnapInv'
<1>1. /\ versions' \in Seq(Nat) /\ Len(versions') <= MaxKeep
      /\ \A i \in 1..Len(versions') : versions'[i] = IF i = 1 THEN taking ELSE versions[i - 1]
      /\ Len(versions') <= Len(versions) + 1
      /\ archives' \subseteq archives
      /\ \A x \in archives \ archives' : Len(versions) = MaxKeep /\ x = versions[MaxKeep]
  BY TrimIs
<1>2. /\ taking' = 0 /\ named' = FALSE /\ UNCHANGED <<second, taken, complete, newest>>
      /\ named
  BY DEF Snap!Trim
<1>3. /\ SnapTypes /\ taking # 0 /\ taken /\ newest <= taking /\ taking \in archives
      /\ Descending(versions) /\ Snap!Elements(versions) \subseteq archives
      /\ Len(versions) <= MaxKeep /\ newest <= second /\ \A x \in archives : x <= newest
  BY <1>2 DEF SnapInv
<1>4. SnapTypes'
  BY <1>1, <1>2, <1>3 DEF SnapTypes
<1>5. /\ MaxKeep \in Nat /\ MaxKeep >= 1 /\ Len(versions) \in Nat /\ versions \in Seq(Nat)
      /\ newest \in Nat /\ taking \in Nat /\ Len(versions') \in Nat
  BY <1>1, <1>3, StoresAssumption DEF SnapTypes
<1>6. \A i \in 1..Len(versions) : versions[i] \in archives /\ versions[i] \in Nat
  BY <1>3 DEF Snap!Elements, SnapTypes
<1>7. ASSUME NEW d \in archives \ archives'
      PROVE  /\ Len(versions) = MaxKeep /\ d = versions[MaxKeep] /\ d \in Nat
             /\ \A i \in 1..(MaxKeep - 1) :
                  /\ versions[i] \in Nat /\ versions[i] > d /\ versions[i] \in archives'
  <2>1. Len(versions) = MaxKeep /\ d = versions[MaxKeep]
    BY <1>1
  <2>2. MaxKeep \in 1..Len(versions)
    BY <1>5, <2>1
  <2>3. d \in Nat
    BY <1>6, <2>1, <2>2
  <2>4. ASSUME NEW i \in 1..(MaxKeep - 1)
        PROVE  versions[i] \in Nat /\ versions[i] > d /\ versions[i] \in archives'
    <3>1. i \in 1..Len(versions) /\ i < MaxKeep
      BY <1>5, <2>1
    <3>2. versions[i] > d
      BY <1>3, <2>1, <2>2, <3>1 DEF Descending
    <3>3. versions[i] \in Nat /\ versions[i] \in archives
      BY <1>6, <3>1
    <3>4. versions[i] # versions[MaxKeep]
      BY <2>1, <2>3, <3>2, <3>3
    <3> QED
      BY <1>1, <3>2, <3>3, <3>4
  <2> QED
    BY <2>1, <2>3, <2>4
<1>8. ASSUME MaxKeep > 1, NEW d \in archives \ archives' PROVE d < newest /\ d < taking
  <2>1. 1 \in 1..(MaxKeep - 1) /\ 1 \in 1..Len(versions)
    BY <1>5, <1>7, <1>8
  <2>2. versions[1] \in Nat /\ versions[1] > d /\ versions[1] \in archives /\ d \in Nat
    BY <1>6, <1>7, <2>1
  <2>3. versions[1] <= newest
    BY <1>3, <2>2
  <2> QED
    BY <1>3, <1>5, <2>2, <2>3
<1>9. ASSUME MaxKeep > 1
      PROVE  (newest # 0 => newest \in archives') /\ Snap!Elements(versions') \subseteq archives'
  <2>1. newest # 0 => newest \in archives
    BY <1>9, NewestIs DEF SnapInv
  <2>2. newest # 0 => newest \in archives'
    BY <1>5, <1>8, <1>9, <2>1
  <2>3. taking \in archives'
    BY <1>3, <1>5, <1>8, <1>9
  <2>4. ASSUME NEW i \in 1..Len(versions') PROVE versions'[i] \in archives'
    <3>1. CASE i = 1
      BY <1>1, <2>3, <3>1
    <3>2. CASE i # 1
      <4>1. i - 1 \in 1..Len(versions) /\ i - 1 \in 1..(MaxKeep - 1)
        BY <1>1, <1>5, <3>2
      <4>2. versions[i - 1] \in archives
        BY <1>6, <4>1
      <4>3. versions[i - 1] \in archives'
        BY <1>7, <4>1, <4>2
      <4> QED
        BY <1>1, <3>2, <4>3
    <3> QED
      BY <3>1, <3>2
  <2>5. Snap!Elements(versions') \subseteq archives'
    BY <1>1, <2>4 DEF Snap!Elements
  <2> QED
    BY <2>2, <2>5
<1>10. ASSUME NEW x \in complete \ archives'
       PROVE  Cardinality(Above(archives', x)) >= MaxKeep - 1
  <2>0. x \in Nat
    BY <1>3 DEF SnapTypes
  <2>1. CASE \E d \in archives \ archives' : x <= d
    <3>1. PICK d \in archives \ archives' : x <= d
      BY <2>1
    <3> DEFINE m == MaxKeep - 1
    <3>2. m \in Nat /\ m <= Len(versions)
      BY <1>5, <1>7
    <3>3. \A i \in 1..m : versions[i] \in Above(archives', x)
      <4> TAKE i \in 1..m
      <4>1. versions[i] \in Nat /\ versions[i] > d /\ versions[i] \in archives' /\ d \in Nat
        BY <1>7
      <4>2. versions[i] > x
        BY <2>0, <3>1, <4>1
      <4> QED
        BY <4>1, <4>2 DEF Above
    <3>4. IsFiniteSet(Above(archives', x)) /\ Cardinality(Above(archives', x)) \in Nat
      <4>1. Above(archives', x) \in SUBSET archives
        BY <1>1 DEF Above
      <4> QED
        BY <4>1, ArchivesFinite, FS_Subset, FS_CardinalityType
    <3> HIDE DEF m
    <3>5. m <= Cardinality(Above(archives', x))
      BY <1>3, <1>5, <3>2, <3>3, <3>4, DistinctNames
    <3> QED
      BY <1>5, <3>2, <3>4, <3>5 DEF m
  <2>2. CASE ~\E d \in archives \ archives' : x <= d
    <3>1. x \notin archives
      BY <2>0, <2>2
    <3>2. \A y \in archives : y > x => y \in archives'
      <4> TAKE y \in archives
      <4> HAVE y > x
      <4>1. y \in Nat
        BY <1>3 DEF SnapTypes
      <4>2. x <= y
        BY <2>0, <4>1
      <4> QED
        BY <2>2, <4>2
    <3>3. Above(archives', x) = Above(archives, x)
      BY <1>1, <3>2 DEF Above
    <3>4. Cardinality(Above(archives, x)) >= MaxKeep - 1
      BY <3>1, NewestIs DEF SnapInv
    <3> QED
      BY <3>3, <3>4
  <2> QED
    BY <2>1, <2>2
<1>11. Snap!NewestKept'
  <2>1. \A x \in complete' \ archives' : Cardinality(Above(archives', x)) >= MaxKeep - 1
    BY <1>2, <1>10
  <2> QED
    BY <1>2, <1>9, <2>1, SnapCardinality DEF Snap!NewestKept, Above
<1>12. newest' <= second' /\ \A x \in archives' : x <= newest'
  BY <1>1, <1>2, <1>3
<1> QED
  BY <1>1, <1>2, <1>3, <1>4, <1>11, <1>12 DEF SnapInv

(* A step that leaves what the invariant is about.                         *)
LEMMA SnapQuiet ==
  ASSUME SnapInv, UNCHANGED <<archives, complete, newest>>, SnapTypes',
         second' >= second,
         Len(versions') <= MaxKeep,
         Snap!Elements(versions') \subseteq archives \/ versions' = versions,
         taking' # 0 => taken' /\ newest <= taking' /\ taking' <= second',
         named' => taking' # 0 /\ taking' \in archives,
         ~taken' \/ taking' # 0 => Descending(versions') /\ Snap!Elements(versions') \subseteq archives
  PROVE  SnapInv'
<1>1. newest' <= second'
  <2>1. newest \in Nat /\ second \in Nat /\ second' \in Nat /\ newest <= second
    BY DEF SnapInv, SnapTypes
  <2> QED
    BY <2>1
<1>2. MaxKeep > 1 => (newest # 0 => newest \in archives)
                     /\ Snap!Elements(versions) \subseteq archives
  BY NewestIs DEF SnapInv
<1>3. \A x \in complete \ archives : Cardinality(Above(archives, x)) >= MaxKeep - 1
  BY NewestIs DEF SnapInv
<1>4. Snap!NewestKept'
  <2>1. MaxKeep > 1 => Snap!Elements(versions') \subseteq archives
    BY <1>2
  <2> QED
    BY <1>2, <1>3, <2>1, SnapCardinality DEF Snap!NewestKept, Above
<1>5. \A x \in archives' : x <= newest'
  BY DEF SnapInv
<1>6. Descending(versions)' = Descending(versions')
      /\ Snap!Elements(versions)' = Snap!Elements(versions')
  BY DEF Descending, Snap!Elements
<1> QED
  BY <1>1, <1>4, <1>5, <1>6 DEF SnapInv

LEMMA SnapInvNext == SnapInv /\ [Snap!Next]_snapVars => SnapInv'
<1> SUFFICES ASSUME SnapInv, [Snap!Next]_snapVars PROVE SnapInv'
  OBVIOUS
<1>0. SnapTypes /\ second \in Nat /\ Len(versions) <= MaxKeep
  BY DEF SnapInv, SnapTypes
<1>1. CASE Snap!Begin
  <2>1. /\ ~taken /\ taken' = TRUE /\ taking' = second
        /\ UNCHANGED <<second, versions, archives, named, complete, newest>>
    BY <1>1 DEF Snap!Begin
  <2>2. SnapTypes' /\ second' >= second /\ taking' <= second'
    BY <1>0, <2>1 DEF SnapTypes
  <2>3. ~named /\ newest <= second
    BY <2>1 DEF SnapInv
  <2>4. Descending(versions) /\ Snap!Elements(versions) \subseteq archives
    BY <2>1 DEF SnapInv
  <2> QED
    BY <1>0, <2>1, <2>2, <2>3, <2>4, SnapQuiet
<1>2. CASE Snap!Fails
  <2>1. /\ taking # 0 /\ ~named /\ taking' = 0
        /\ UNCHANGED <<second, versions, archives, named, taken, complete, newest>>
    BY <1>2 DEF Snap!Fails
  <2>2. SnapTypes' /\ second' >= second
    BY <1>0, <2>1 DEF SnapTypes
  <2>3. taken
    BY <2>1 DEF SnapInv
  <2> QED
    BY <1>0, <2>1, <2>2, <2>3, SnapQuiet
<1>3. CASE Snap!Rename
  BY <1>3, RenameArchiveInv
<1>4. CASE Snap!Trim
  BY <1>4, TrimInv
<1>5. ASSUME NEW all \in Snap!Listings(archives), versions' = Snap!Kept(all),
             UNCHANGED <<second, archives, taking, named, taken, complete, newest>>
      PROVE  SnapInv'
  <2>1. /\ versions' \in Seq(Nat) /\ Len(versions') <= MaxKeep /\ Descending(versions')
        /\ Snap!Elements(versions') \subseteq archives
    BY <1>5, ListingIs
  <2>2. SnapTypes' /\ second' >= second
    BY <1>0, <1>5, <2>1 DEF SnapTypes
  <2>3. /\ taking' # 0 => taken' /\ newest <= taking' /\ taking' <= second'
        /\ named' => taking' # 0 /\ taking' \in archives
    BY <1>5 DEF SnapInv
  <2> QED
    BY <1>5, <2>1, <2>2, <2>3, SnapQuiet
<1>6. CASE Snap!ListSnapshots
  BY <1>5, <1>6 DEF Snap!ListSnapshots
<1>7. CASE Snap!Collect
  <2>1. PICK all \in Snap!Listings(archives) :
          LET list == Snap!Kept(all)
          IN  /\ versions' = list
              /\ archives' = archives \ Snap!Elements(SubSeq(list, TrimLimit + 1, Len(list)))
    BY <1>7 DEF Snap!Collect
  <2> DEFINE list == Snap!Kept(all)
             trimmed == Snap!Elements(SubSeq(list, TrimLimit + 1, Len(list)))
  <2>2. list \in Seq(Nat) /\ Len(list) <= MaxKeep
    BY ListingIs
  <2>3. /\ archives' = archives \ trimmed
        /\ UNCHANGED <<second, taking, named, taken, complete, newest>>
    BY <1>7, <2>1 DEF Snap!Collect
  <2> HIDE DEF list
  <2>4. trimmed = {}
    <3> SUFFICES ASSUME NEW x \in trimmed PROVE FALSE
      OBVIOUS
    <3>1. TrimLimit \in Nat /\ MaxKeep \in Nat /\ TrimLimit >= MaxKeep
      BY StoresAssumption
    <3>2. \E i \in (TrimLimit + 1)..Len(list) : x = list[i]
      BY <2>2, <3>1, DroppedIs
    <3> QED
      BY <2>2, <3>1, <3>2
  <2>5. archives' = archives
    BY <2>3, <2>4
  <2> QED
    BY <1>5, <2>1, <2>3, <2>5
<1>8. CASE Snap!Restart
  <2>1. /\ versions' = <<>> /\ taking' = 0 /\ named' = FALSE /\ taken' = FALSE
        /\ UNCHANGED <<second, archives, complete, newest>>
    BY <1>8 DEF Snap!Restart
  <2>2. Len(<<>>) = 0 /\ Descending(<<>>) /\ <<>> \in Seq(Nat) /\ Snap!Elements(<<>>) = {}
    BY DEF Descending, Snap!Elements
  <2>3. SnapTypes' /\ second' >= second
    <3>1. taken' \in BOOLEAN /\ named' \in BOOLEAN
      BY <2>1
    <3>2. versions' \in Seq(Nat) /\ taking' \in Nat /\ second' >= second
      BY <1>0, <2>1, <2>2
    <3> QED
      BY <1>0, <2>1, <3>1, <3>2 DEF SnapTypes
  <2>4. Len(versions') <= MaxKeep
    BY <2>1, <2>2, StoresAssumption
  <2> QED
    BY <2>1, <2>2, <2>3, <2>4, SnapQuiet
<1>9. CASE Snap!Tick
  <2>1. /\ second' = second + 1
        /\ UNCHANGED <<versions, archives, taking, named, taken, complete, newest>>
    BY <1>9 DEF Snap!Tick
  <2>2. SnapTypes' /\ second' >= second
    BY <1>0, <2>1 DEF SnapTypes
  <2>3. taking' # 0 => taken' /\ newest <= taking' /\ taking' <= second'
    BY <1>0, <2>1 DEF SnapInv, SnapTypes
  <2>4. /\ named' => taking' # 0 /\ taking' \in archives
        /\ ~taken' \/ taking' # 0 =>
             Descending(versions') /\ Snap!Elements(versions') \subseteq archives
    BY <2>1 DEF SnapInv
  <2> QED
    BY <1>0, <2>1, <2>2, <2>3, <2>4, SnapQuiet
<1>10. CASE UNCHANGED snapVars
  <2>1. UNCHANGED <<second, versions, archives, taking, named, taken, complete, newest>>
    BY <1>10 DEF snapVars
  <2>2. SnapTypes' /\ second' >= second
    BY <1>0, <2>1 DEF SnapTypes
  <2>3. /\ taking' # 0 => taken' /\ newest <= taking' /\ taking' <= second'
        /\ named' => taking' # 0 /\ taking' \in archives
        /\ ~taken' \/ taking' # 0 =>
             Descending(versions') /\ Snap!Elements(versions') \subseteq archives
    BY <2>1 DEF SnapInv
  <2> QED
    BY <1>0, <2>1, <2>2, <2>3, SnapQuiet
<1> QED
  BY <1>1, <1>2, <1>3, <1>4, <1>6, <1>7, <1>8, <1>9, <1>10 DEF Snap!Next
-----------------------------------------------------------------------------
(* Slots and caches *)

LEMMA LessIsWellFounded == IsWellFoundedOn({ss \in Nat \X Nat : ss[1] < ss[2]}, Nat)
<1>1. IsWellFoundedOn(OpToRel(<, Nat), Nat)
  BY NatLessThanWellFounded
<1>2. OpToRel(<, Nat) = {ss \in Nat \X Nat : ss[1] < ss[2]}
  BY DEF OpToRel
<1> QED
  BY <1>1, <1>2, Zenon

(* What holds of some number holds of a least one.                         *)
LEMMA LeastNumber ==
  ASSUME NEW T, T \subseteq Nat, T # {}
  PROVE  \E n \in T : \A m \in T : n <= m
<1> DEFINE less == {ss \in Nat \X Nat : ss[1] < ss[2]}
<1>1. \E n \in T : \A m \in T : ~(<<m, n>> \in less)
  <2> HIDE DEF less
  <2>1. IsWellFoundedOn(less, Nat)
    BY LessIsWellFounded DEF less
  <2> QED
    BY <2>1, WFMin
<1>2. PICK n \in T : \A m \in T : ~(<<m, n>> \in less)
  BY <1>1
<1>3. \A m \in T : ~(m < n)
  <2> TAKE m \in T
  <2>1. m \in Nat /\ n \in Nat /\ <<m, n>> \in Nat \X Nat /\ ~(<<m, n>> \in less)
    BY <1>2
  <2> QED
    BY <2>1
<1> QED
  BY <1>3

SlotPlaces == {"idle", "cache", "lookup", "make", "acquire", "request", "left"}
Entries == [key : {KeyOf[j] : j \in Jobs}, expires : Nat]

SlotTypes ==
  /\ made \in [Slots!Kinds -> Nat] /\ slots \in [Slots!Kinds -> Nat]
  /\ job \in [Jobs -> [at : SlotPlaces, tries : Nat]]
  /\ cacheClock \in Nat

(* Nobody is past the making of a channel that has not been made.          *)
ChannelMade ==
  \A j \in Jobs : job[j].at \in {"acquire", "request"} => made[SkillOf[j]] > 0

SlotInv == SlotTypes /\ ChannelMade /\ Slots!SlotsAreRequests

CacheTypes ==
  /\ caches \in [Slots!Kinds -> Nat]
  /\ cache \in [Slots!Kinds -> SUBSET Entries]
  /\ latest \in [Slots!Kinds -> SUBSET Entries]

(* Nobody is past the making of a cache that has not been made, and a      *)
(* cache that has not been made never had an entry.                        *)
CacheMade ==
  /\ \A j \in Jobs :
       SkillOf[j] \in Cached /\ job[j].at \in SlotPlaces \ {"idle", "cache", "left"} =>
         caches[SkillOf[j]] > 0
  /\ \A k \in Slots!Kinds : caches[k] = 0 => latest[k] = {}

CacheInv ==
  /\ CacheTypes /\ CacheMade /\ Slots!CacheKeepsLatest
  /\ \A k \in Slots!Kinds : IsFiniteSet(cache[k])

LEMMA SlotCardinality == ASSUME NEW S PROVE Slots!Cardinality(S) = Cardinality(S)
BY DEF Cardinality, Slots!Cardinality

LEMMA InFlightFinite ==
  ASSUME NEW k
  PROVE  IsFiniteSet(Slots!InFlight(k)) /\ Cardinality(Slots!InFlight(k)) \in Nat
<1>1. Slots!InFlight(k) \in SUBSET Jobs
  BY DEF Slots!InFlight
<1> QED
  BY <1>1, StoresAssumption, FS_Subset, FS_CardinalityType

(* A full cache makes room for one.                                        *)
LEMMA RoomIsMade ==
  ASSUME NEW entries \in SUBSET Entries, IsFiniteSet(entries), Cardinality(entries) <= CacheSize
  PROVE  Slots!RoomFor(entries) \subseteq entries /\ Cardinality(Slots!RoomFor(entries)) < CacheSize
<1> DEFINE live == Slots!Live(entries)
<1>1. Cardinality(entries) \in Nat
  BY FS_CardinalityType
<1>2. live \in SUBSET entries /\ CacheSize \in Nat \ {0}
  BY StoresAssumption DEF Slots!Live
<1> HIDE DEF live
<1>3. IsFiniteSet(live) /\ Cardinality(live) \in Nat
      /\ Cardinality(live) <= Cardinality(entries)
  BY <1>1, <1>2, FS_Subset, FS_CardinalityType
<1>4. CASE Cardinality(live) < CacheSize
  BY <1>1, <1>2, <1>3, <1>4, SlotCardinality DEF Slots!RoomFor, live
<1>5. CASE ~(Cardinality(live) < CacheSize)
  <2>1. live # {}
    <3>1. Cardinality({}) = 0
      BY FS_EmptySet
    <3> QED
      BY <1>2, <1>5, <3>1
  <2> DEFINE times == {e.expires : e \in live}
             first == CHOOSE e \in live : \A f \in live : e.expires <= f.expires
  <2>2. times \subseteq Nat /\ times # {}
    BY <1>2, <2>1 DEF Entries
  <2>3. PICK n \in times : \A m \in times : n <= m
    <3> HIDE DEF times
    <3> QED
      BY <2>2, LeastNumber
  <2>4. \E e \in live : \A f \in live : e.expires <= f.expires
    BY <2>3
  <2>5. first \in live
    BY <2>4
  <2> HIDE DEF first
  <2>6. /\ IsFiniteSet(live \ {first})
        /\ Cardinality(live \ {first}) = Cardinality(live) - 1
    BY <1>3, <2>5, FS_RemoveElement
  <2>7. Slots!RoomFor(entries) = live \ {first}
    <3>1. ~(Slots!Cardinality(entries) < CacheSize) /\ ~(Slots!Cardinality(live) < CacheSize)
      BY <1>1, <1>2, <1>3, <1>5, SlotCardinality
    <3> QED
      BY <3>1 DEF Slots!RoomFor, first, live
  <2> QED
    BY <1>1, <1>2, <1>3, <2>6, <2>7
<1> QED
  BY <1>4, <1>5

(* Of the caches, only that of the skill changes.                          *)
LEMMA OneCache ==
  ASSUME CacheInv, CacheMade', NEW k \in Slots!Kinds, CacheTypes',
         \A q \in Slots!Kinds : q # k => /\ caches'[q] = caches[q] /\ cache'[q] = cache[q]
                                         /\ latest'[q] = latest[q],
         IsFiniteSet(cache'[k]), Cardinality(cache'[k]) <= CacheSize,
         caches'[k] <= 1 => latest'[k] \subseteq cache'[k]
  PROVE  CacheInv'
<1>1. \A q \in Slots!Kinds : IsFiniteSet(cache'[q])
  BY DEF CacheInv
<1>2. \A q \in Slots!Kinds : Slots!Cardinality(cache'[q]) <= CacheSize
                             /\ (caches'[q] <= 1 => latest'[q] \subseteq cache'[q])
  <2> TAKE q \in Slots!Kinds
  <2>1. CASE q = k
    BY <2>1, SlotCardinality
  <2>2. CASE q # k
    BY <2>2 DEF CacheInv, Slots!CacheKeepsLatest
  <2> QED
    BY <2>1, <2>2
<1> QED
  BY <1>1, <1>2 DEF CacheInv, Slots!CacheKeepsLatest, Slots!Kinds

LEMMA CacheSetInv ==
  ASSUME SlotInv, CacheInv, NEW j \in Jobs, Slots!CacheSet(SkillOf[j], KeyOf[j]),
         UNCHANGED caches, caches[SkillOf[j]] > 0,
         \A i \in Jobs : job'[i] = job[i] \/ job'[i].at = "left"
  PROVE  CacheInv'
<1> DEFINE k == SkillOf[j]
           entry == [key |-> KeyOf[j], expires |-> cacheClock + Ttl]
           others == {e \in Slots!RoomFor(cache[k]) : e.key # KeyOf[j]}
<1>1. /\ k \in Slots!Kinds
      /\ cache' = [cache EXCEPT ![k] = others \cup {entry}]
      /\ latest' = [latest EXCEPT ![k] = {entry}]
  BY DEF Slots!CacheSet, CacheInv, CacheTypes, Slots!Kinds
<1>2. entry \in Entries
  BY StoresAssumption DEF Entries, SlotInv, SlotTypes
<1>3. /\ IsFiniteSet(cache[k]) /\ cache[k] \in SUBSET Entries
      /\ Cardinality(cache[k]) <= CacheSize
  BY <1>1, SlotCardinality DEF CacheInv, CacheTypes, Slots!CacheKeepsLatest
<1>4. /\ Slots!RoomFor(cache[k]) \subseteq cache[k]
      /\ Cardinality(Slots!RoomFor(cache[k])) < CacheSize
  BY <1>3, RoomIsMade
<1>5. IsFiniteSet(Slots!RoomFor(cache[k])) /\ Cardinality(Slots!RoomFor(cache[k])) \in Nat
  BY <1>3, <1>4, FS_Subset, FS_CardinalityType
<1>6. others \in SUBSET Slots!RoomFor(cache[k]) /\ entry \notin others
  OBVIOUS
<1>7. IsFiniteSet(others) /\ Cardinality(others) \in Nat
      /\ Cardinality(others) <= Cardinality(Slots!RoomFor(cache[k]))
  <2> HIDE DEF others
  <2> QED
    BY <1>5, <1>6, FS_Subset, FS_CardinalityType
<1> HIDE DEF entry, others
<1>8. /\ cache'[k] = others \cup {entry} /\ latest'[k] = {entry}
      /\ \A q \in Slots!Kinds : q # k => cache'[q] = cache[q] /\ latest'[q] = latest[q]
  BY <1>1 DEF CacheInv, CacheTypes
<1>9. IsFiniteSet(cache'[k]) /\ Cardinality(cache'[k]) = Cardinality(others) + 1
  BY <1>6, <1>7, <1>8, FS_AddElement
<1>10. Cardinality(cache'[k]) <= CacheSize
  BY <1>4, <1>5, <1>7, <1>9, StoresAssumption
<1>11. CacheTypes'
  <2>1. others \cup {entry} \in SUBSET Entries /\ {entry} \in SUBSET Entries
    BY <1>2, <1>3, <1>4, <1>6
  <2> QED
    BY <1>1, <2>1 DEF CacheInv, CacheTypes, Slots!Kinds
<1>12. CacheMade'
  <2>1. \A i \in Jobs :
          SkillOf[i] \in Cached /\ job'[i].at \in SlotPlaces \ {"idle", "cache", "left"} =>
            caches'[SkillOf[i]] > 0
    BY DEF CacheInv, CacheMade
  <2>2. \A q \in Slots!Kinds : caches'[q] = 0 => latest'[q] = {}
    <3> TAKE q \in Slots!Kinds
    <3>1. CASE q = k
      <4>1. caches'[k] > 0 /\ caches'[k] \in Nat
        BY <1>1 DEF CacheInv, CacheTypes
      <4> QED
        BY <3>1, <4>1
    <3>2. CASE q # k
      BY <1>8, <3>2 DEF CacheInv, CacheMade
    <3> QED
      BY <3>1, <3>2
  <2> QED
    BY <2>1, <2>2 DEF CacheMade, Slots!Kinds
<1> HIDE DEF k
<1> QED
  BY <1>1, <1>8, <1>9, <1>10, <1>11, <1>12, OneCache

LEMMA MakeCacheInv ==
  ASSUME SlotInv, CacheInv, NEW j \in Jobs, Slots!MakeCache(j)
  PROVE  CacheInv'
<1> DEFINE k == SkillOf[j]
<1>1. /\ k \in Slots!Kinds /\ job' = [job EXCEPT ![j].at = "lookup"]
      /\ caches' = [caches EXCEPT ![k] = @ + 1] /\ cache' = [cache EXCEPT ![k] = {}]
      /\ latest' = latest
  BY DEF Slots!MakeCache, Slots!Goto, Slots!Kinds
<1>2. IsFiniteSet({}) /\ Cardinality({}) = 0 /\ CacheSize \in Nat
  BY FS_EmptySet, StoresAssumption
<1>3. caches[k] \in Nat /\ caches' \in [Slots!Kinds -> Nat] /\ caches'[k] = caches[k] + 1
  BY <1>1 DEF CacheInv, CacheTypes
<1>4. /\ cache'[k] = {}
      /\ \A q \in Slots!Kinds : q # k => caches'[q] = caches[q] /\ cache'[q] = cache[q]
  BY <1>1 DEF CacheInv, CacheTypes
<1>5. CacheTypes'
  BY <1>1, <1>3 DEF CacheInv, CacheTypes, Slots!Kinds
<1>6. caches'[k] <= 1 => latest'[k] = {}
  BY <1>1, <1>3 DEF CacheInv, CacheMade
<1>7. CacheMade'
  <2>1. ASSUME NEW i \in Jobs, SkillOf[i] \in Cached,
               job'[i].at \in SlotPlaces \ {"idle", "cache", "left"}
        PROVE  caches'[SkillOf[i]] > 0
    <3>1. SkillOf[i] \in Slots!Kinds
      BY DEF Slots!Kinds
    <3>2. CASE SkillOf[i] = k
      BY <1>3, <3>2
    <3>3. CASE SkillOf[i] # k
      <4>1. job'[i] = job[i]
        BY <1>1, <3>3 DEF SlotInv, SlotTypes
      <4> QED
        BY <1>4, <2>1, <3>1, <3>3, <4>1 DEF CacheInv, CacheMade
    <3> QED
      BY <3>2, <3>3
  <2>2. \A q \in Slots!Kinds : caches'[q] = 0 => latest'[q] = {}
    BY <1>1, <1>3, <1>4 DEF CacheInv, CacheMade
  <2> QED
    BY <2>1, <2>2 DEF CacheMade, Slots!Kinds
<1>8. \A q \in Slots!Kinds : q # k => latest'[q] = latest[q]
  BY <1>1
<1>9. IsFiniteSet(cache'[k]) /\ Cardinality(cache'[k]) <= CacheSize
  BY <1>2, <1>4
<1>10. caches'[k] <= 1 => latest'[k] \subseteq cache'[k]
  BY <1>6
<1> HIDE DEF k
<1> QED
  BY <1>1, <1>4, <1>5, <1>7, <1>8, <1>9, <1>10, OneCache

(* A step that leaves the caches alone, and only goes on where there is    *)
(* one.                                                                    *)
LEMMA SameCaches ==
  ASSUME SlotInv, CacheInv, UNCHANGED <<caches, cache, latest>>,
         \A i \in Jobs : \/ job'[i].at = job[i].at \/ job'[i].at \in {"cache", "left"}
                         \/ job[i].at \in SlotPlaces \ {"idle", "cache", "left"}
                         \/ ~Slots!Uncached(i)
  PROVE  CacheInv'
<1>1. CacheTypes' /\ Slots!CacheKeepsLatest' /\ \A k \in Slots!Kinds : IsFiniteSet(cache'[k])
  BY DEF CacheInv, CacheTypes, Slots!CacheKeepsLatest, Slots!Kinds
<1>2. CacheMade'
  <2>1. ASSUME NEW i \in Jobs, SkillOf[i] \in Cached,
               job'[i].at \in SlotPlaces \ {"idle", "cache", "left"}
        PROVE  caches'[SkillOf[i]] > 0
    <3>1. CASE job[i].at \in SlotPlaces \ {"idle", "cache", "left"}
      BY <2>1, <3>1 DEF CacheInv, CacheMade
    <3>2. CASE ~Slots!Uncached(i)
      <4>1. caches[SkillOf[i]] \in Nat
        BY DEF CacheInv, CacheTypes, Slots!Kinds
      <4>2. caches[SkillOf[i]] # 0
        BY <2>1, <3>2 DEF Slots!Uncached
      <4> QED
        BY <4>1, <4>2
    <3> QED
      BY <2>1, <3>1, <3>2
  <2> QED
    BY <2>1 DEF CacheInv, CacheMade, Slots!Kinds
<1> QED
  BY <1>1, <1>2 DEF CacheInv, Slots!Kinds

LEMMA CacheInvNext == SlotInv /\ CacheInv /\ [Slots!Next]_slotVars => CacheInv'
<1> SUFFICES ASSUME SlotInv, CacheInv, [Slots!Next]_slotVars PROVE CacheInv'
  OBVIOUS
<1> USE DEF SlotInv, SlotTypes
<1>1. ASSUME NEW j \in Jobs, Slots!BeginFirst(j) PROVE CacheInv'
  BY <1>1, SameCaches DEF Slots!BeginFirst, Slots!Goto
<1>2. ASSUME NEW j \in Jobs, Slots!Begin(j) PROVE CacheInv'
  <2>1. ~Slots!Uncached(j) /\ \A i \in Jobs : i # j => job'[i] = job[i]
    BY <1>2 DEF Slots!Begin, Slots!Goto
  <2>2. UNCHANGED <<caches, cache, latest>>
    BY <1>2 DEF Slots!Begin
  <2>3. \A i \in Jobs : \/ job'[i].at = job[i].at \/ ~Slots!Uncached(i)
    BY <2>1
  <2> QED
    BY <2>2, <2>3, SameCaches
<1>3. ASSUME NEW j \in Jobs, Slots!MakeSlots(j) PROVE CacheInv'
  BY <1>3, SameCaches DEF Slots!MakeSlots, Slots!Goto, SlotPlaces
<1>4. ASSUME NEW j \in Jobs, Slots!Acquire(j) PROVE CacheInv'
  BY <1>4, SameCaches DEF Slots!Acquire, Slots!Goto, SlotPlaces
<1>5. ASSUME NEW j \in Jobs, Slots!RequestRetried(j) PROVE CacheInv'
  BY <1>5, SameCaches DEF Slots!RequestRetried
<1>6. ASSUME NEW j \in Jobs, Slots!TimedOut(j) PROVE CacheInv'
  BY <1>6, SameCaches DEF Slots!TimedOut
<1>7. ASSUME NEW j \in Jobs, NEW ok \in BOOLEAN, Slots!RequestEnds(j, ok) PROVE CacheInv'
  <2>1. job[j].at = "request" /\ job' = [job EXCEPT ![j].at = "left"] /\ UNCHANGED caches
    BY <1>7 DEF Slots!RequestEnds, Slots!Goto
  <2>2. CASE ok /\ SkillOf[j] \in Cached
    <3>1. Slots!CacheSet(SkillOf[j], KeyOf[j])
      BY <1>7, <2>2 DEF Slots!RequestEnds
    <3>2. "request" \in SlotPlaces \ {"idle", "cache", "left"}
      BY DEF SlotPlaces
    <3>3. caches[SkillOf[j]] > 0
      BY <2>1, <2>2, <3>2 DEF CacheInv, CacheMade
    <3>4. \A i \in Jobs : job'[i] = job[i] \/ job'[i].at = "left"
      BY <2>1
    <3> QED
      BY <2>1, <3>1, <3>3, <3>4, CacheSetInv
  <2>3. CASE ~(ok /\ SkillOf[j] \in Cached)
    <3>1. UNCHANGED <<cache, latest>>
      BY <1>7, <2>3 DEF Slots!RequestEnds
    <3>2. \A i \in Jobs : job'[i].at = job[i].at \/ job'[i].at = "left"
      BY <2>1
    <3> QED
      BY <2>1, <3>1, <3>2, SameCaches
  <2> QED
    BY <2>2, <2>3
<1>8. CASE Slots!Tick
  BY <1>8, SameCaches DEF Slots!Tick
<1>9. CASE UNCHANGED slotVars
  BY <1>9, SameCaches DEF slotVars
<1> QED
  BY <1>1, <1>2, <1>3, <1>4, <1>5, <1>6, <1>7, <1>8, <1>9, MakeCacheInv DEF Slots!Next
-----------------------------------------------------------------------------
(* What a step of one execution has to keep: its own skill's slots.        *)
LEMMA OneSkill ==
  ASSUME SlotInv, NEW j \in Jobs, NEW k, k = SkillOf[j], SlotTypes',
         job' = [job EXCEPT ![j] = job'[j]],
         \A q \in Slots!Kinds : q # k => made'[q] = made[q] /\ slots'[q] = slots[q],
         made'[k] >= made[k],
         job'[j].at \in {"acquire", "request"} => made'[k] > 0,
         slots'[k] <= Cardinality(Slots!InFlight(k)'),
         made'[k] <= 1 => slots'[k] = Cardinality(Slots!InFlight(k)') /\ slots'[k] <= SlotLimit,
         k \in Once => made'[k] <= 1
  PROVE  SlotInv'
<1>1. ChannelMade'
  <2> SUFFICES ASSUME NEW i \in Jobs, job'[i].at \in {"acquire", "request"}
               PROVE  made'[SkillOf[i]] > 0
    BY DEF ChannelMade
  <2>1. SkillOf[i] \in Slots!Kinds /\ made[SkillOf[i]] \in Nat /\ made'[SkillOf[i]] \in Nat
    BY DEF SlotInv, SlotTypes, Slots!Kinds
  <2>2. CASE i = j
    BY <2>2
  <2>3. CASE i # j
    <3>1. job'[i] = job[i]
      BY <2>3 DEF SlotInv, SlotTypes
    <3>2. made[SkillOf[i]] > 0
      BY <3>1 DEF SlotInv, ChannelMade
    <3>3. made'[SkillOf[i]] >= made[SkillOf[i]]
      BY <2>1
    <3> QED
      BY <2>1, <3>2, <3>3
  <2> QED
    BY <2>2, <2>3
<1>2. ASSUME NEW q \in Slots!Kinds, q # k PROVE Slots!InFlight(q)' = Slots!InFlight(q)
  BY <1>2 DEF Slots!InFlight, SlotInv, SlotTypes
<1>3. Slots!SlotsAreRequests'
  <2> SUFFICES ASSUME NEW q \in Slots!Kinds
               PROVE  /\ slots'[q] <= Slots!Cardinality(Slots!InFlight(q)')
                      /\ made'[q] <= 1 => slots'[q] = Slots!Cardinality(Slots!InFlight(q)')
                                          /\ slots'[q] <= SlotLimit
                      /\ q \in Once => made'[q] <= 1
    BY DEF Slots!SlotsAreRequests, Slots!Kinds
  <2>1. CASE q = k
    BY <2>1, SlotCardinality
  <2>2. CASE q # k
    BY <1>2, <2>2 DEF SlotInv, Slots!SlotsAreRequests
  <2> QED
    BY <2>1, <2>2
<1> QED
  BY <1>1, <1>3 DEF SlotInv

LEMMA SlotGoto ==
  ASSUME SlotInv, NEW j \in Jobs, NEW at \in SlotPlaces, Slots!Goto(j, at)
  PROVE  /\ job' \in [Jobs -> [at : SlotPlaces, tries : Nat]]
         /\ job' = [job EXCEPT ![j] = job'[j]] /\ job'[j].at = at
BY DEF SlotInv, SlotTypes, Slots!Goto

(* An execution that neither takes nor gives back a slot.                  *)
LEMMA SameSlots ==
  ASSUME SlotInv, NEW j \in Jobs, job' \in [Jobs -> [at : SlotPlaces, tries : Nat]],
         job' = [job EXCEPT ![j] = job'[j]],
         job'[j].at = "request" <=> job[j].at = "request",
         job'[j].at \in {"acquire", "request"} => made[SkillOf[j]] > 0,
         UNCHANGED <<made, slots, cacheClock>>
  PROVE  SlotInv'
<1> DEFINE k == SkillOf[j]
<1>1. Slots!InFlight(k)' = Slots!InFlight(k)
  BY DEF Slots!InFlight, SlotInv, SlotTypes
<1>2. k \in Slots!Kinds
  BY DEF Slots!Kinds
<1>3. SlotTypes'
  BY SlotCardinality DEF SlotInv, SlotTypes
<1>4. /\ slots[k] <= Cardinality(Slots!InFlight(k))
      /\ made[k] <= 1 => slots[k] = Cardinality(Slots!InFlight(k)) /\ slots[k] <= SlotLimit
      /\ k \in Once => made[k] <= 1
  BY <1>2, SlotCardinality DEF SlotInv, Slots!SlotsAreRequests
<1>5. made'[k] >= made[k]
  BY <1>2 DEF SlotInv, SlotTypes
<1> HIDE DEF k
<1> QED
  BY <1>1, <1>3, <1>4, <1>5, OneSkill DEF k

LEMMA MakeSlotsInv ==
  ASSUME SlotInv, NEW j \in Jobs, Slots!MakeSlots(j)
  PROVE  SlotInv'
<1> DEFINE k == SkillOf[j]
<1>1. k \in Slots!Kinds /\ job[j].at = "make" /\ Slots!Goto(j, "acquire")
      /\ UNCHANGED cacheClock
  BY DEF Slots!MakeSlots, Slots!Kinds
<1>2. /\ job' \in [Jobs -> [at : SlotPlaces, tries : Nat]]
      /\ job' = [job EXCEPT ![j] = job'[j]] /\ job'[j].at = "acquire"
  <2>1. "acquire" \in SlotPlaces
    BY DEF SlotPlaces
  <2> QED
    BY <1>1, <2>1, SlotGoto
<1>3. CASE k \in Once /\ made[k] > 0
  <2>1. UNCHANGED <<made, slots>>
    BY <1>3 DEF Slots!MakeSlots
  <2> QED
    BY <1>1, <1>2, <1>3, <2>1, SameSlots
<1>4. CASE ~(k \in Once /\ made[k] > 0)
  <2>1. made' = [made EXCEPT ![k] = @ + 1] /\ slots' = [slots EXCEPT ![k] = 0]
    BY <1>4 DEF Slots!MakeSlots
  <2>2. made[k] \in Nat /\ slots' \in [Slots!Kinds -> Nat] /\ made' \in [Slots!Kinds -> Nat]
    BY <1>1, <2>1 DEF SlotInv, SlotTypes
  <2>3. made'[k] = made[k] + 1 /\ slots'[k] = 0
    BY <1>1, <2>1 DEF SlotInv, SlotTypes
  <2>4. Slots!InFlight(k)' = Slots!InFlight(k)
    BY <1>1, <1>2 DEF Slots!InFlight, SlotInv, SlotTypes
  <2>5. made[k] = 0 => Slots!InFlight(k) = {}
    BY DEF SlotInv, ChannelMade, Slots!InFlight
  <2>6. made[k] = 0 => Cardinality(Slots!InFlight(k)) = 0
    BY <2>5, FS_EmptySet
  <2>7. Cardinality(Slots!InFlight(k)) \in Nat
    BY InFlightFinite
  <2>8. SlotTypes'
    BY <1>1, <1>2, <2>2, SlotCardinality DEF SlotInv, SlotTypes
  <2>9. \A q \in Slots!Kinds : q # k => made'[q] = made[q] /\ slots'[q] = slots[q]
    BY <2>1 DEF SlotInv, SlotTypes
  <2>10. SlotLimit \in Nat
    BY StoresAssumption
  <2>11. /\ made'[k] >= made[k] /\ made'[k] > 0
         /\ slots'[k] <= Cardinality(Slots!InFlight(k)')
    BY <2>2, <2>3, <2>4, <2>7
  <2>12. made'[k] <= 1 => slots'[k] = Cardinality(Slots!InFlight(k)') /\ slots'[k] <= SlotLimit
    BY <2>2, <2>3, <2>4, <2>6, <2>10
  <2>13. k \in Once => made'[k] <= 1
    BY <1>4, <2>2, <2>3
  <2> HIDE DEF k
  <2> QED
    BY <1>2, <2>8, <2>9, <2>11, <2>12, <2>13, OneSkill DEF k
<1> QED
  BY <1>3, <1>4

LEMMA AcquireInv ==
  ASSUME SlotInv, NEW j \in Jobs, Slots!Acquire(j)
  PROVE  SlotInv'
<1> DEFINE k == SkillOf[j]
<1>1. k \in Slots!Kinds /\ job[j].at = "acquire" /\ UNCHANGED <<made, cacheClock>>
  BY DEF Slots!Acquire, Slots!Kinds
<1>2. CASE slots[k] < SlotLimit
  <2>1. Slots!Goto(j, "request") /\ slots' = [slots EXCEPT ![k] = @ + 1]
    BY <1>2 DEF Slots!Acquire
  <2>2. /\ job' \in [Jobs -> [at : SlotPlaces, tries : Nat]]
        /\ job' = [job EXCEPT ![j] = job'[j]] /\ job'[j].at = "request"
    <3>1. "request" \in SlotPlaces
      BY DEF SlotPlaces
    <3> QED
      BY <2>1, <3>1, SlotGoto
  <2>3. Slots!InFlight(k)' = Slots!InFlight(k) \cup {j} /\ j \notin Slots!InFlight(k)
    BY <1>1, <2>2 DEF Slots!InFlight, SlotInv, SlotTypes
  <2>4. /\ Cardinality(Slots!InFlight(k)) \in Nat
        /\ Cardinality(Slots!InFlight(k)') = Cardinality(Slots!InFlight(k)) + 1
    BY <2>3, InFlightFinite, FS_AddElement
  <2>5. /\ slots[k] \in Nat /\ made[k] \in Nat /\ slots'[k] = slots[k] + 1 /\ made'[k] = made[k]
        /\ slots' \in [Slots!Kinds -> Nat]
    BY <1>1, <2>1 DEF SlotInv, SlotTypes
  <2>6. /\ slots[k] <= Cardinality(Slots!InFlight(k))
        /\ made[k] <= 1 => slots[k] = Cardinality(Slots!InFlight(k)) /\ slots[k] <= SlotLimit
        /\ k \in Once => made[k] <= 1
    BY <1>1, SlotCardinality DEF SlotInv, Slots!SlotsAreRequests
  <2>7. SlotTypes'
    BY <1>1, <2>2, <2>5, SlotCardinality DEF SlotInv, SlotTypes
  <2>8. \A q \in Slots!Kinds : q # k => made'[q] = made[q] /\ slots'[q] = slots[q]
    BY <1>1, <2>1 DEF SlotInv, SlotTypes
  <2>9. made'[k] > 0
    BY <1>1 DEF SlotInv, ChannelMade
  <2>10. SlotLimit \in Nat
    BY StoresAssumption
  <2>11. /\ slots'[k] <= Cardinality(Slots!InFlight(k)')
         /\ made'[k] <= 1 => slots'[k] = Cardinality(Slots!InFlight(k)') /\ slots'[k] <= SlotLimit
         /\ k \in Once => made'[k] <= 1
    BY <1>2, <2>4, <2>5, <2>6, <2>10
  <2>12. made'[k] >= made[k]
    BY <2>5
  <2> HIDE DEF k
  <2> QED
    BY <2>2, <2>7, <2>8, <2>9, <2>11, <2>12, OneSkill DEF k
<1>3. CASE ~(slots[k] < SlotLimit)
  <2>1. Slots!Goto(j, "left") /\ UNCHANGED slots
    BY <1>3 DEF Slots!Acquire
  <2>2. "left" \in SlotPlaces
    BY DEF SlotPlaces
  <2> QED
    BY <1>1, <2>1, <2>2, SlotGoto, SameSlots
<1> QED
  BY <1>2, <1>3

LEMMA RequestEndsInv ==
  ASSUME SlotInv, NEW j \in Jobs, NEW ok \in BOOLEAN, Slots!RequestEnds(j, ok)
  PROVE  SlotInv'
<1> DEFINE k == SkillOf[j]
           after == Slots!Released(k)
<1>1. /\ k \in Slots!Kinds /\ job[j].at = "request" /\ Slots!Goto(j, "left")
      /\ slots' = [slots EXCEPT ![k] = after]
      /\ UNCHANGED <<made, cacheClock>>
  BY DEF Slots!RequestEnds, Slots!Kinds
<1>2. /\ job' \in [Jobs -> [at : SlotPlaces, tries : Nat]]
      /\ job' = [job EXCEPT ![j] = job'[j]] /\ job'[j].at = "left"
  <2>1. "left" \in SlotPlaces
    BY DEF SlotPlaces
  <2> QED
    BY <1>1, <2>1, SlotGoto
<1>3. /\ Slots!InFlight(k)' = Slots!InFlight(k) \ {j} /\ j \in Slots!InFlight(k)
  BY <1>1, <1>2 DEF Slots!InFlight, SlotInv, SlotTypes
<1>4. /\ Cardinality(Slots!InFlight(k)) \in Nat
      /\ Cardinality(Slots!InFlight(k)') = Cardinality(Slots!InFlight(k)) - 1
  BY <1>3, InFlightFinite, FS_RemoveElement
<1>5. Cardinality(Slots!InFlight(k)') \in Nat
  <2>1. IsFiniteSet(Slots!InFlight(k) \ {j})
    <3>1. Slots!InFlight(k) \ {j} \in SUBSET Slots!InFlight(k)
      OBVIOUS
    <3> QED
      BY <3>1, InFlightFinite, FS_Subset
  <2> QED
    BY <1>3, <2>1, FS_CardinalityType
<1>6. slots[k] \in Nat /\ made[k] \in Nat /\ SlotLimit \in Nat
  BY <1>1, StoresAssumption DEF SlotInv, SlotTypes
<1>7. after \in Nat /\ (slots[k] > 0 => after = slots[k] - 1) /\ (slots[k] = 0 => after = 0)
  BY <1>6 DEF Slots!Released
<1> HIDE DEF after
<1>8. slots'[k] = after /\ made' = made /\ slots' \in [Slots!Kinds -> Nat]
  BY <1>1, <1>7 DEF SlotInv, SlotTypes
<1>9. /\ slots[k] <= Cardinality(Slots!InFlight(k))
      /\ made[k] <= 1 => slots[k] = Cardinality(Slots!InFlight(k)) /\ slots[k] <= SlotLimit
      /\ k \in Once => made[k] <= 1
  BY <1>1, SlotCardinality DEF SlotInv, Slots!SlotsAreRequests
<1>10. /\ slots'[k] <= Cardinality(Slots!InFlight(k)')
       /\ made'[k] <= 1 => slots'[k] = Cardinality(Slots!InFlight(k)') /\ slots'[k] <= SlotLimit
       /\ k \in Once => made'[k] <= 1
  BY <1>4, <1>5, <1>6, <1>7, <1>8, <1>9
<1>12. SlotTypes'
  BY <1>1, <1>2, <1>8 DEF SlotInv, SlotTypes
<1>13. \A q \in Slots!Kinds : q # k => made'[q] = made[q] /\ slots'[q] = slots[q]
  BY <1>1, <1>8 DEF SlotInv, SlotTypes
<1>14. made'[k] >= made[k]
  BY <1>6, <1>8
<1> HIDE DEF k
<1> QED
  BY <1>2, <1>10, <1>12, <1>13, <1>14, OneSkill DEF k

LEMMA SlotInvNext == SlotInv /\ [Slots!Next]_slotVars => SlotInv'
<1> SUFFICES ASSUME SlotInv, [Slots!Next]_slotVars PROVE SlotInv'
  OBVIOUS
<1>1. ASSUME NEW j \in Jobs, Slots!Begin(j) PROVE SlotInv'
  <2>1. /\ job[j].at \in {"idle", "lookup"} /\ UNCHANGED <<made, slots, cacheClock>>
        /\ \E at \in {"left", "acquire", "make"} :
             Slots!Goto(j, at) /\ (at = "acquire" => made[SkillOf[j]] > 0)
    BY <1>1 DEF Slots!Begin
  <2>2. PICK at \in {"left", "acquire", "make"} :
          Slots!Goto(j, at) /\ (at = "acquire" => made[SkillOf[j]] > 0)
    BY <2>1
  <2>3. at \in SlotPlaces
    BY DEF SlotPlaces
  <2> QED
    BY <2>1, <2>2, <2>3, SlotGoto, SameSlots
<1>2. ASSUME NEW j \in Jobs, Slots!RequestRetried(j) PROVE SlotInv'
  <2>1. /\ job[j].at = "request" /\ job' = [job EXCEPT ![j].tries = @ + 1]
        /\ UNCHANGED <<made, slots, cacheClock>>
    BY <1>2 DEF Slots!RequestRetried
  <2>2. /\ job' \in [Jobs -> [at : SlotPlaces, tries : Nat]]
        /\ job' = [job EXCEPT ![j] = job'[j]] /\ job'[j].at = "request"
    BY <2>1 DEF SlotInv, SlotTypes
  <2>3. made[SkillOf[j]] > 0
    BY <2>1 DEF SlotInv, ChannelMade
  <2> QED
    BY <2>1, <2>2, <2>3, SameSlots
<1>3. ASSUME UNCHANGED <<made, slots, job>>, cacheClock' \in Nat PROVE SlotInv'
  <2>1. SlotTypes' /\ ChannelMade'
    BY <1>3 DEF SlotInv, SlotTypes, ChannelMade
  <2>2. Slots!SlotsAreRequests'
    BY <1>3 DEF SlotInv, Slots!SlotsAreRequests, Slots!InFlight, Slots!Kinds
  <2> QED
    BY <2>1, <2>2 DEF SlotInv
<1>4. ASSUME NEW j \in Jobs, Slots!TimedOut(j) PROVE SlotInv'
  BY <1>3, <1>4 DEF Slots!TimedOut, SlotInv, SlotTypes
<1>7. ASSUME NEW j \in Jobs, Slots!BeginFirst(j) PROVE SlotInv'
  <2>1. job[j].at = "idle" /\ Slots!Goto(j, "cache") /\ UNCHANGED <<made, slots, cacheClock>>
    BY <1>7 DEF Slots!BeginFirst
  <2>2. "cache" \in SlotPlaces
    BY DEF SlotPlaces
  <2> QED
    BY <2>1, <2>2, SlotGoto, SameSlots
<1>8. ASSUME NEW j \in Jobs, Slots!MakeCache(j) PROVE SlotInv'
  <2>1. job[j].at = "cache" /\ Slots!Goto(j, "lookup") /\ UNCHANGED <<made, slots, cacheClock>>
    BY <1>8 DEF Slots!MakeCache
  <2>2. "lookup" \in SlotPlaces
    BY DEF SlotPlaces
  <2> QED
    BY <2>1, <2>2, SlotGoto, SameSlots
<1>5. CASE Slots!Tick
  BY <1>3, <1>5 DEF Slots!Tick, SlotInv, SlotTypes
<1>6. CASE UNCHANGED slotVars
  BY <1>3, <1>6 DEF slotVars, SlotInv, SlotTypes
<1> QED
  BY <1>1, <1>2, <1>4, <1>5, <1>6, <1>7, <1>8, MakeSlotsInv, AcquireInv, RequestEndsInv
     DEF Slots!Next
-----------------------------------------------------------------------------
(* The program and its backup *)

(* What is under a name is all of a program, or there is nothing; between  *)
(* two renames the program is the backup.                                  *)
UpdateInv ==
  /\ release \in Nat
  /\ fetched # Partial /\ bak # Partial
  /\ step = "renaming" => current = Missing /\ Update!Whole(fetched)
  /\ Update!BinaryKept

LEMMA UpdateInvInit == Update!Init => UpdateInv
BY StoresAssumption DEF Update!Init, UpdateInv, Update!BinaryKept, Update!Whole

LEMMA UpdateInvNext == UpdateInv /\ [Update!Next]_updateVars => UpdateInv'
<1> SUFFICES ASSUME UpdateInv, [Update!Next]_updateVars PROVE UpdateInv'
  OBVIOUS
<1> USE DEF UpdateInv, Update!BinaryKept, Update!Whole
<1>1. CASE Update!BeginDownload
  BY <1>1 DEF Update!BeginDownload
<1>2. CASE Update!EndDownload
  BY <1>2, StoresAssumption DEF Update!EndDownload
<1>3. CASE Update!BackUp
  BY <1>3 DEF Update!BackUp
<1>4. CASE Update!MoveNew
  BY <1>4, StoresAssumption DEF Update!MoveNew
<1>5. CASE Update!Rollback
  BY <1>5, StoresAssumption DEF Update!Rollback
<1>6. CASE Update!Restart
  BY <1>6 DEF Update!Restart
<1>7. CASE UNCHANGED updateVars
  BY <1>7 DEF updateVars
<1> QED
  BY <1>1, <1>2, <1>3, <1>4, <1>5, <1>6, <1>7 DEF Update!Next
-----------------------------------------------------------------------------
(* Files and the roots of what was written to them *)

FileNames == Write!Names
FileInodes == Write!Inodes
Lines == Nat \cup {Header, Torn}
FileContents == [header : BOOLEAN, data : Seq(Lines)]
WriterPlaces == {"idle", "create", "header", "data", "rename", "read"}
WriterStates == [at : WriterPlaces, path : FileNames \cup {None}, data : Seq(Lines),
                 id : Nat, fd : FileInodes \cup {0}, blind : BOOLEAN]

WriteTypes ==
  /\ inode \in [FileInodes -> FileContents]
  /\ name \in [FileNames -> FileInodes \cup {None}]
  /\ tmp \in [FileNames -> FileInodes \cup {None}]
  /\ writer \in [Goroutines -> WriterStates]
  /\ wrote \in [FileNames -> Seq(Lines)]
  /\ roots \in Seq(Nat) /\ writes \in Nat

Writing(w) == writer[w].at \in {"header", "data", "rename"}

(* No inode has two names, and a goroutine writes to no file but that of   *)
(* its own path.                                                           *)
InodesApart ==
  /\ \A p, q \in FileNames : name[p] # None => name[p] # tmp[q]
  /\ \A p, q \in FileNames : p # q /\ name[p] # None => name[p] # name[q]
  /\ \A p, q \in FileNames : p # q /\ tmp[p] # None => tmp[p] # tmp[q]
  /\ \A w \in Goroutines : Writing(w) =>
       /\ writer[w].fd \in FileInodes
       /\ \A q \in FileNames : q # writer[w].path =>
            writer[w].fd # name[q] /\ writer[w].fd # tmp[q]

(* A goroutine is on a path unless it is idle; two on one path excuse it.  *)
Alone ==
  /\ \A w \in Goroutines : writer[w].at # "idle" => writer[w].path \in FileNames
  /\ \A w \in Goroutines : writer[w].at = "idle" => writer[w].path = None
  /\ \A p \in FileNames \ excused : \A v, w \in Goroutines :
       v # w => ~(writer[v].path = p /\ writer[w].path = p)

(* What the one goroutine on a path has written so far.                    *)
Begun ==
  \A w \in Goroutines : Writing(w) /\ writer[w].path \notin excused =>
    /\ tmp[writer[w].path] = writer[w].fd
    /\ inode[writer[w].fd].header = (writer[w].at # "header")
    /\ inode[writer[w].fd].data = IF writer[w].at = "rename" THEN writer[w].data ELSE <<>>

(* The audit root has the roots that were appended behind their headers,   *)
(* one of which SafeWrite adds; the goroutine that appends one more holds  *)
(* all of them, or none if it could not read them.                         *)
KnownTo(r, rs) == IF r.blind THEN <<>> ELSE rs
Holds(r, known) == r.data = Write!Behind(Len(known), Append(known, r.id))

RootsInv ==
  AuditRoot \notin excused =>
    /\ name[AuditRoot] = None => roots = <<>>
    /\ name[AuditRoot] # None =>
         Len(roots) > 0 /\ wrote[AuditRoot] = Write!Behind(Len(roots) - 1, roots)
    /\ \A w \in Goroutines : writer[w].path = AuditRoot /\ writer[w].at # "read" =>
         Holds(writer[w], KnownTo(writer[w], roots))

WriteInv ==
  WriteTypes /\ InodesApart /\ Alone /\ Begun /\ Write!FilesWhole /\ RootsInv

-----------------------------------------------------------------------------
LEMMA WriteCardinality == ASSUME NEW S PROVE Write!Cardinality(S) = Cardinality(S)
BY DEF Cardinality, Write!Cardinality

LEMMA InodesAre ==
  /\ Cardinality(FileNames) \in Nat /\ IsFiniteSet(FileNames)
  /\ Cardinality(Goroutines) \in Nat
  /\ FileInodes = 1..(2 * Cardinality(FileNames) + Cardinality(Goroutines))
  /\ 0 \notin FileInodes /\ None \notin FileInodes /\ FileInodes \subseteq Nat
<1>1. IsFiniteSet(FileNames) /\ Cardinality(FileNames) \in Nat
  BY StoresAssumption, FS_AddElement, FS_CardinalityType DEF FileNames, Write!Names
<1>2. Cardinality(Goroutines) \in Nat
  BY StoresAssumption, FS_CardinalityType
<1>3. FileInodes = 1..(2 * Cardinality(FileNames) + Cardinality(Goroutines))
  BY WriteCardinality DEF FileInodes, FileNames, Write!Inodes
<1>4. FileInodes \subseteq Nat /\ 0 \notin FileInodes
  BY <1>1, <1>2, <1>3
<1> QED
  BY <1>1, <1>2, <1>3, <1>4, StoresAssumption

(* A function has at most as many values as arguments.                     *)
LEMMA ValuesAreFew ==
  ASSUME NEW S, IsFiniteSet(S), NEW T, NEW f \in [S -> T],
         NEW V, \A s \in S : f[s] \in V, \A v \in V : \E s \in S : f[s] = v
  PROVE  IsFiniteSet(V) /\ Cardinality(V) <= Cardinality(S) /\ Cardinality(V) \in Nat
<1>1. f \in Surjection(S, V)
  BY DEF Surjection
<1> QED
  BY <1>1, FS_Surjection, FS_CardinalityType

LEMMA InodesOfFiles ==
  ASSUME NEW f \in [FileNames -> FileInodes \cup {None}],
         NEW V, V = {f[p] : p \in FileNames}
  PROVE  IsFiniteSet(V) /\ Cardinality(V) <= Cardinality(FileNames) /\ Cardinality(V) \in Nat
<1>1. (\A p \in FileNames : f[p] \in V) /\ \A v \in V : \E p \in FileNames : f[p] = v
  OBVIOUS
<1>2. IsFiniteSet(FileNames)
  BY InodesAre
<1> QED
  BY <1>1, <1>2, ValuesAreFew

LEMMA InodesOfWriters ==
  ASSUME NEW f \in [Goroutines -> FileInodes \cup {0}],
         NEW V, V = {f[w] : w \in Goroutines}
  PROVE  IsFiniteSet(V) /\ Cardinality(V) <= Cardinality(Goroutines) /\ Cardinality(V) \in Nat
<1>1. (\A w \in Goroutines : f[w] \in V) /\ \A v \in V : \E w \in Goroutines : f[w] = v
  OBVIOUS
<1>2. IsFiniteSet(Goroutines)
  BY StoresAssumption
<1> QED
  BY <1>1, <1>2, ValuesAreFew

(* There is an inode for a file that does not exist yet.                   *)
LEMMA FreeInodeIs ==
  ASSUME WriteTypes, NEW p \in FileNames, tmp[p] = None
  PROVE  Write!FreeInode \in FileInodes /\ Write!FreeInode \notin Write!InUse
<1> DEFINE Named == {name[q] : q \in FileNames}
           Temps == {tmp[q] : q \in FileNames}
           open == [w \in Goroutines |-> writer[w].fd]
           Opened == {open[w] : w \in Goroutines}
<1>1. IsFiniteSet(Named) /\ Cardinality(Named) <= Cardinality(FileNames)
      /\ Cardinality(Named) \in Nat
  <2>1. name \in [FileNames -> FileInodes \cup {None}] /\ Named = {name[q] : q \in FileNames}
    BY DEF WriteTypes
  <2> HIDE DEF Named, Temps, Opened, open
  <2> QED
    BY <2>1, InodesOfFiles
<1>2. IsFiniteSet(Temps) /\ Cardinality(Temps) <= Cardinality(FileNames)
      /\ Cardinality(Temps) \in Nat
  <2>1. tmp \in [FileNames -> FileInodes \cup {None}] /\ Temps = {tmp[q] : q \in FileNames}
    BY DEF WriteTypes
  <2> HIDE DEF Named, Temps, Opened, open
  <2> QED
    BY <2>1, InodesOfFiles
<1>3. IsFiniteSet(Opened) /\ Cardinality(Opened) <= Cardinality(Goroutines)
      /\ Cardinality(Opened) \in Nat
  <2>1. open \in [Goroutines -> FileInodes \cup {0}] /\ Opened = {open[w] : w \in Goroutines}
    BY DEF WriteTypes, WriterStates
  <2> HIDE DEF Named, Temps, Opened, open
  <2> QED
    BY <2>1, InodesOfWriters
<1>4. Write!InUse = (Named \cup Temps) \cup Opened
  BY DEF Write!InUse, FileNames
<1>5. None \in Temps
  OBVIOUS
<1> HIDE DEF Named, Temps, Opened
<1>6. IsFiniteSet(Named \cup Temps) /\ Cardinality(Named \cup Temps) \in Nat
      /\ Cardinality(Named \cup Temps) <= 2 * Cardinality(FileNames)
  <2>1. Cardinality(Named \cap Temps) \in Nat
    <3>1. Named \cap Temps \in SUBSET Named
      OBVIOUS
    <3> QED
      BY <1>1, <3>1, FS_Subset, FS_CardinalityType
  <2>2. /\ IsFiniteSet(Named \cup Temps)
        /\ Cardinality(Named \cup Temps) =
             Cardinality(Named) + Cardinality(Temps) - Cardinality(Named \cap Temps)
    BY <1>1, <1>2, FS_Union
  <2> QED
    BY <1>1, <1>2, <2>1, <2>2, InodesAre, FS_CardinalityType
<1> DEFINE used == (Named \cup Temps) \cup Opened
<1>7. IsFiniteSet(used) /\ Cardinality(used) \in Nat
      /\ Cardinality(used) <= 2 * Cardinality(FileNames) + Cardinality(Goroutines)
  <2> DEFINE M == Named \cup Temps
  <2>1. IsFiniteSet(M) /\ Cardinality(M) \in Nat /\ Cardinality(M) <= 2 * Cardinality(FileNames)
    BY <1>6
  <2> HIDE DEF M
  <2>2. Cardinality(M \cap Opened) \in Nat
    <3>1. M \cap Opened \in SUBSET M
      OBVIOUS
    <3> QED
      BY <2>1, <3>1, FS_Subset, FS_CardinalityType
  <2>3. /\ IsFiniteSet(M \cup Opened)
        /\ Cardinality(M \cup Opened) =
             Cardinality(M) + Cardinality(Opened) - Cardinality(M \cap Opened)
    BY <1>3, <2>1, FS_Union
  <2>4. /\ IsFiniteSet(M \cup Opened) /\ Cardinality(M \cup Opened) \in Nat
        /\ Cardinality(M \cup Opened) <= 2 * Cardinality(FileNames) + Cardinality(Goroutines)
    BY <1>3, <2>1, <2>2, <2>3, InodesAre, FS_CardinalityType
  <2> QED
    BY <2>4 DEF M
<1>8. None \in used
  BY <1>5
<1> HIDE DEF used
<1>9. IsFiniteSet(used \ {None}) /\ Cardinality(used \ {None}) = Cardinality(used) - 1
      /\ Cardinality(used \ {None}) \in Nat
  <2>1. IsFiniteSet(used \ {None}) /\ Cardinality(used \ {None}) = Cardinality(used) - 1
    BY <1>7, <1>8, FS_RemoveElement
  <2> QED
    BY <2>1, FS_CardinalityType
<1>10. \E i \in FileInodes : i \notin used
  <2> SUFFICES ASSUME FileInodes \subseteq used PROVE FALSE
    OBVIOUS
  <2>1. FileInodes \in SUBSET (used \ {None})
    BY InodesAre
  <2>2. Cardinality(FileInodes) <= Cardinality(used \ {None})
    <3> DEFINE rest == used \ {None}
    <3>1. IsFiniteSet(rest) /\ FileInodes \in SUBSET rest
      BY <1>9, <2>1
    <3> HIDE DEF rest
    <3>2. Cardinality(FileInodes) <= Cardinality(rest)
      BY <3>1, FS_Subset
    <3> QED
      BY <3>2 DEF rest
  <2>3. Cardinality(FileInodes) = 2 * Cardinality(FileNames) + Cardinality(Goroutines)
    <3> DEFINE m == 2 * Cardinality(FileNames) + Cardinality(Goroutines)
    <3>1. m \in Nat /\ FileInodes = 1..m
      BY InodesAre
    <3> HIDE DEF m
    <3>2. Cardinality(1..m) = IF 1 > m THEN 0 ELSE m - 1 + 1
      BY <3>1, FS_Interval
    <3>3. Cardinality(1..m) = m
      BY <3>1, <3>2
    <3> QED
      BY <3>1, <3>3 DEF m
  <2> QED
    BY <1>7, <1>9, <2>2, <2>3, InodesAre
<1>11. \E i \in FileInodes : i \notin used /\ \A j \in FileInodes : j < i => j \in used
  <2> DEFINE free == FileInodes \ used
  <2>1. free \subseteq Nat /\ free # {}
    BY <1>10, InodesAre
  <2>2. PICK i \in free : \A j \in free : i <= j
    <3> HIDE DEF free
    <3> QED
      BY <2>1, LeastNumber
  <2>3. \A j \in FileInodes : j < i => j \in used
    <3> SUFFICES ASSUME NEW j \in FileInodes, j < i, j \notin used PROVE FALSE
      OBVIOUS
    <3>1. j \in free /\ j \in Nat /\ i \in Nat
      BY InodesAre
    <3> QED
      BY <2>2, <3>1
  <2> QED
    BY <2>2, <2>3
<1>12. Write!InUse = used
  BY <1>4 DEF used
<1> QED
  BY <1>11, <1>12 DEF Write!FreeInode, FileInodes

-----------------------------------------------------------------------------
(* Lists of lines *)

LEMMA BehindIs ==
  ASSUME NEW n \in Nat, NEW lines \in Seq(Nat)
  PROVE  /\ Write!Behind(n, lines) \in Seq(Lines)
         /\ Len(Write!Behind(n, lines)) = n + Len(lines)
         /\ \A i \in 1..(n + Len(lines)) :
              Write!Behind(n, lines)[i] = IF i <= n THEN Header ELSE lines[i - n]
<1> DEFINE all == Write!Behind(n, lines)
           m == n + Len(lines)
<1>1. m \in Nat /\ all = [i \in 1..m |-> IF i <= n THEN Header ELSE lines[i - n]]
  BY DEF Write!Behind
<1>2. \A i \in 1..m : (IF i <= n THEN Header ELSE lines[i - n]) \in Lines
  <2> TAKE i \in 1..m
  <2>1. CASE i <= n
    BY <2>1 DEF Lines
  <2>2. CASE ~(i <= n)
    <3>1. i - n \in 1..Len(lines)
      BY <2>2
    <3>2. lines[i - n] \in Nat
      BY <3>1, ElementOfSeq
    <3> QED
      BY <2>2, <3>2 DEF Lines
  <2> QED
    BY <2>1, <2>2
<1> HIDE DEF all, m
<1>3. all \in Seq(Lines)
  BY <1>1, <1>2, IsASeq
<1>4. DOMAIN all = 1..m
  BY <1>1
<1>5. Len(all) = m
  BY <1>1, <1>3, <1>4
<1> QED
  BY <1>1, <1>3, <1>5 DEF all, m

(* SafeWrite puts one header more in front.                                *)
LEMMA HeaderInFront ==
  ASSUME NEW n \in Nat, NEW lines \in Seq(Nat)
  PROVE  <<Header>> \o Write!Behind(n, lines) = Write!Behind(n + 1, lines)
<1> DEFINE old == Write!Behind(n, lines)
           new == Write!Behind(n + 1, lines)
           m == n + Len(lines)
<1>1. /\ old \in Seq(Lines) /\ Len(old) = m
      /\ \A i \in 1..m : old[i] = IF i <= n THEN Header ELSE lines[i - n]
  BY BehindIs
<1>2. /\ new \in Seq(Lines) /\ Len(new) = m + 1
      /\ \A i \in 1..(m + 1) : new[i] = IF i <= n + 1 THEN Header ELSE lines[i - (n + 1)]
  <2>1. n + 1 \in Nat /\ (n + 1) + Len(lines) = m + 1
    OBVIOUS
  <2> QED
    BY <2>1, BehindIs
<1>3. m \in Nat
  OBVIOUS
<1>4. Header \in Lines
  BY DEF Lines
<1> HIDE DEF old, new, m
<1>5. /\ <<Header>> \o old \in Seq(Lines) /\ Len(<<Header>> \o old) = m + 1
      /\ \A i \in 1..(m + 1) : (<<Header>> \o old)[i] = IF i = 1 THEN Header ELSE old[i - 1]
  BY <1>1, <1>3, <1>4
<1>6. \A i \in 1..(m + 1) : (<<Header>> \o old)[i] = new[i]
  <2> TAKE i \in 1..(m + 1)
  <2>1. CASE i = 1
    BY <1>2, <1>3, <1>5, <2>1
  <2>2. CASE i # 1
    <3>1. i - 1 \in 1..m /\ (i - 1 <= n <=> i <= n + 1) /\ (i - 1) - n = i - (n + 1)
      BY <1>3, <2>2
    <3>2. (<<Header>> \o old)[i] = old[i - 1]
      BY <1>5, <2>2
    <3> QED
      BY <1>1, <1>2, <3>1, <3>2
  <2> QED
    BY <2>1, <2>2
<1>7. <<Header>> \o old = new
  <2> DEFINE both == <<Header>> \o old
  <2>1. /\ both \in Seq(Lines) /\ Len(both) = Len(new)
        /\ \A i \in 1..Len(both) : both[i] = new[i]
    BY <1>2, <1>5, <1>6
  <2> HIDE DEF both
  <2>2. both = new
    BY <1>2, <2>1, SeqEqual
  <2> QED
    BY <2>2 DEF both
<1> QED
  BY <1>7 DEF old, new

LEMMA AppendBehind ==
  ASSUME NEW n \in Nat, NEW lines \in Seq(Nat), NEW x \in Nat
  PROVE  Append(Write!Behind(n, lines), x) = Write!Behind(n, Append(lines, x))
<1> DEFINE old == Write!Behind(n, lines)
           new == Write!Behind(n, Append(lines, x))
           m == n + Len(lines)
<1>1. /\ old \in Seq(Lines) /\ Len(old) = m
      /\ \A i \in 1..m : old[i] = IF i <= n THEN Header ELSE lines[i - n]
  BY BehindIs
<1>2. /\ Append(lines, x) \in Seq(Nat) /\ Len(Append(lines, x)) = Len(lines) + 1
      /\ Len(lines) \in Nat /\ m \in Nat
      /\ \A i \in 1..(Len(lines) + 1) :
           Append(lines, x)[i] = IF i <= Len(lines) THEN lines[i] ELSE x
  OBVIOUS
<1>3. /\ new \in Seq(Lines) /\ Len(new) = m + 1
      /\ \A i \in 1..(m + 1) : new[i] = IF i <= n THEN Header ELSE Append(lines, x)[i - n]
  <2> DEFINE more == Append(lines, x)
  <2>1. more \in Seq(Nat) /\ n + Len(more) = m + 1
    BY <1>2
  <2> HIDE DEF more
  <2>2. /\ Write!Behind(n, more) \in Seq(Lines) /\ Len(Write!Behind(n, more)) = n + Len(more)
        /\ \A i \in 1..(n + Len(more)) :
             Write!Behind(n, more)[i] = IF i <= n THEN Header ELSE more[i - n]
    BY <2>1, BehindIs
  <2> QED
    BY <2>1, <2>2 DEF more
<1>4. x \in Lines /\ m = n + Len(lines)
  BY DEF Lines
<1> HIDE DEF old, new, m
<1>5. /\ Append(old, x) \in Seq(Lines) /\ Len(Append(old, x)) = m + 1
      /\ \A i \in 1..(m + 1) : Append(old, x)[i] = IF i <= m THEN old[i] ELSE x
  BY <1>1, <1>2, <1>4
<1>6. \A i \in 1..(m + 1) : Append(old, x)[i] = new[i]
  <2> TAKE i \in 1..(m + 1)
  <2>1. CASE i <= n
    <3>1. i \in 1..m
      BY <1>2, <1>4, <2>1
    <3> QED
      BY <1>1, <1>3, <1>5, <2>1, <3>1
  <2>2. CASE ~(i <= n) /\ i <= m
    <3>1. i \in 1..m /\ i - n \in 1..(Len(lines) + 1) /\ i - n <= Len(lines)
      BY <1>2, <1>4, <2>2
    <3> QED
      BY <1>1, <1>2, <1>3, <1>5, <2>2, <3>1
  <2>3. CASE i = m + 1
    <3>1. ~(i <= n) /\ ~(i <= m) /\ i - n \in 1..(Len(lines) + 1) /\ ~(i - n <= Len(lines))
      BY <1>2, <1>4, <2>3
    <3> QED
      BY <1>2, <1>3, <1>5, <2>3, <3>1
  <2>4. i <= m \/ i = m + 1
    BY <1>2
  <2> QED
    BY <2>1, <2>2, <2>3, <2>4
<1>7. Append(old, x) = new
  <2> DEFINE both == Append(old, x)
  <2>1. /\ both \in Seq(Lines) /\ Len(both) = Len(new)
        /\ \A i \in 1..Len(both) : both[i] = new[i]
    BY <1>3, <1>5, <1>6
  <2> HIDE DEF both
  <2>2. both = new
    BY <1>3, <2>1, SeqEqual
  <2> QED
    BY <2>2 DEF both
<1> QED
  BY <1>7 DEF old, new
-----------------------------------------------------------------------------
(* Steps that write to no file *)

LEMMA IdleType ==
  /\ Write!Idle \in WriterStates
  /\ Write!Idle.at = "idle" /\ Write!Idle.path = None /\ Write!Idle.fd = 0
  /\ Write!Idle.blind = FALSE
<1>1. <<>> \in Seq(Lines)
  BY EmptySeq
<1> QED
  BY <1>1 DEF Write!Idle, WriterStates, WriterPlaces

LEMMA WholeIs ==
  Write!FilesWhole <=>
    \A p \in FileNames \ excused :
      name[p] # None => inode[name[p]] = [header |-> TRUE, data |-> wrote[p]]
BY DEF Write!FilesWhole, FileNames

(* A goroutine that opens no file, and that is alone where it goes or is   *)
(* excused.                                                                *)
LEMMA QuietStep ==
  ASSUME WriteInv, NEW w \in Goroutines,
         UNCHANGED <<inode, name, tmp, wrote, roots>>, writes' \in Nat,
         excused \subseteq excused',
         writer' = [writer EXCEPT ![w] = writer'[w]], writer'[w] \in WriterStates,
         writer'[w].at \in {"idle", "create"},
         writer'[w].at = "idle" => writer'[w].path = None,
         writer'[w].at # "idle" =>
           /\ writer'[w].path \in FileNames
           /\ \A v \in Goroutines : v # w /\ writer[v].path = writer'[w].path =>
                writer'[w].path \in excused',
         writer'[w].path = AuditRoot /\ AuditRoot \notin excused' =>
           Holds(writer'[w], KnownTo(writer'[w], roots))
  PROVE  WriteInv'
<1>1. \A v \in Goroutines : v # w => writer'[v] = writer[v]
  BY DEF WriteInv, WriteTypes
<1>2. ~Writing(w)'
  BY DEF Writing
<1>3. \A v \in Goroutines : v # w => Writing(v)' = Writing(v)
  BY <1>1 DEF Writing
<1>4. WriteTypes'
  BY DEF WriteInv, WriteTypes
<1>5. InodesApart'
  BY <1>1, <1>2, <1>3 DEF WriteInv, InodesApart
<1>6. Alone'
  <2>1. ASSUME NEW p \in FileNames \ excused', NEW u \in Goroutines, NEW v \in Goroutines,
               u # v, writer'[u].path = p, writer'[v].path = p
        PROVE  FALSE
    <3>0. p \in FileNames \ excused /\ p # None
      BY <2>1, StoresAssumption DEF FileNames, Write!Names
    <3>1. CASE u = w
      BY <1>1, <2>1, <3>0, <3>1
    <3>2. CASE v = w
      BY <1>1, <2>1, <3>0, <3>2
    <3>3. CASE u # w /\ v # w
      BY <1>1, <2>1, <3>0, <3>3 DEF WriteInv, Alone
    <3> QED
      BY <3>1, <3>2, <3>3
  <2>2. \A v \in Goroutines : writer'[v].at # "idle" => writer'[v].path \in FileNames
    BY <1>1 DEF WriteInv, Alone
  <2>3. \A v \in Goroutines : writer'[v].at = "idle" => writer'[v].path = None
    BY <1>1 DEF WriteInv, Alone
  <2> QED
    BY <2>1, <2>2, <2>3 DEF Alone
<1>7. Begun'
  BY <1>1, <1>2, <1>3 DEF WriteInv, Begun
<1>8. Write!FilesWhole'
  BY DEF WriteInv, Write!FilesWhole
<1>9. RootsInv'
  <2>1. \A v \in Goroutines : AuditRoot \notin excused' /\ writer'[v].path = AuditRoot
            /\ writer'[v].at # "read" =>
          Holds(writer'[v], KnownTo(writer'[v], roots))
    BY <1>1 DEF WriteInv, RootsInv
  <2>2. Write!Behind(Len(roots) - 1, roots)' = Write!Behind(Len(roots) - 1, roots)
    BY DEF Write!Behind
  <2> QED
    BY <2>1, <2>2 DEF WriteInv, RootsInv
<1> QED
  BY <1>4, <1>5, <1>6, <1>7, <1>8, <1>9 DEF WriteInv

LEMMA BeginInv ==
  ASSUME WriteInv, NEW w \in Goroutines, NEW p \in Files, Write!Begin(w, p)
  PROVE  WriteInv'
<1> DEFINE n == writes + 1
           next == [Write!Idle EXCEPT !.at = "create", !.path = p, !.data = <<n>>, !.id = n]
<1>1. /\ writes' = n /\ writer' = [writer EXCEPT ![w] = next] /\ excused' = Write!ExcusedBy(w, p)
      /\ UNCHANGED <<inode, name, tmp, wrote, roots>>
  BY DEF Write!Begin
<1>2. p \in FileNames /\ p # AuditRoot /\ n \in Nat
  BY StoresAssumption DEF FileNames, Write!Names, WriteInv, WriteTypes
<1>3. next \in WriterStates /\ next.at = "create" /\ next.path = p
  <2>1. <<n>> \in Seq(Lines) /\ "create" \in WriterPlaces
    BY <1>2 DEF Lines, WriterPlaces
  <2> QED
    BY <1>2, <2>1, IdleType DEF WriterStates
<1> HIDE DEF next, n
<1>4. writer'[w] = next
  BY <1>1 DEF WriteInv, WriteTypes
<1>5. /\ excused \subseteq excused'
      /\ \A v \in Goroutines : v # w /\ writer[v].path = p => p \in excused'
  BY <1>1 DEF Write!ExcusedBy
<1> QED
  BY <1>1, <1>2, <1>3, <1>4, <1>5, QuietStep

LEMMA NoRootInv ==
  ASSUME WriteInv, NEW w \in Goroutines, Write!NoRoot(w) \/ Write!CreateFails(w)
  PROVE  WriteInv'
<1>1. writer' = [writer EXCEPT ![w] = Write!Idle] /\ writer'[w] = Write!Idle
      /\ UNCHANGED <<inode, name, tmp, wrote, roots, excused, writes>>
  BY DEF Write!NoRoot, Write!CreateFails, Write!Finished, WriteInv, WriteTypes
<1>2. None # AuditRoot
  BY StoresAssumption
<1>3. writes' \in Nat
  BY <1>1 DEF WriteInv, WriteTypes
<1> QED
  BY <1>1, <1>2, <1>3, IdleType, QuietStep

(* The goroutine that reads the audit root finds every root in it, unless  *)
(* the read fails.                                                         *)
LEMMA ReadAuditInv ==
  ASSUME WriteInv, NEW w \in Goroutines, Write!ReadAudit(w)
  PROVE  WriteInv'
<1>1. PICK fails \in BOOLEAN :
        writer' = [writer EXCEPT ![w].at = "create", ![w].path = AuditRoot, ![w].blind = fails,
                     ![w].data = Append(IF fails \/ name[AuditRoot] = None THEN <<>>
                                        ELSE Write!Bytes(AuditRoot), writer[w].id)]
  BY DEF Write!ReadAudit
<1> DEFINE old == IF fails \/ name[AuditRoot] = None THEN <<>> ELSE Write!Bytes(AuditRoot)
           known == IF fails THEN <<>> ELSE roots
<1>2. /\ UNCHANGED <<inode, name, tmp, wrote, roots, writes>>
      /\ excused' = Write!ExcusedBy(w, AuditRoot)
  BY DEF Write!ReadAudit
<1>3. AuditRoot \in FileNames /\ WriteTypes
  BY DEF FileNames, Write!Names, WriteInv
<1>4. writer[w] \in WriterStates /\ writer[w].id \in Nat /\ roots \in Seq(Nat)
  BY <1>3 DEF WriteTypes, WriterStates
<1>5. old \in Seq(Lines) /\ known \in Seq(Nat)
  <2>1. <<>> \in Seq(Lines) /\ <<>> \in Seq(Nat)
    BY EmptySeq
  <2>2. CASE ~fails /\ name[AuditRoot] # None
    <3>1. name[AuditRoot] \in FileInodes
      BY <1>3, <2>2 DEF WriteTypes
    <3>2. inode[name[AuditRoot]].data \in Seq(Lines) /\ Header \in Lines
      BY <1>3, <3>1 DEF WriteTypes, FileContents, Lines
    <3>3. <<Header>> \o inode[name[AuditRoot]].data \in Seq(Lines)
      BY <3>2
    <3> QED
      BY <1>4, <2>2, <3>2, <3>3 DEF Write!Bytes
  <2> QED
    BY <1>4, <2>1, <2>2
<1>6. /\ writer'[w] \in WriterStates /\ writer'[w].at = "create" /\ writer'[w].path = AuditRoot
      /\ writer'[w].data = Append(old, writer[w].id) /\ writer'[w].id = writer[w].id
      /\ writer'[w].blind = fails /\ writer' = [writer EXCEPT ![w] = writer'[w]]
  <2> DEFINE data == Append(old, writer[w].id)
  <2>1. data \in Seq(Lines) /\ "create" \in WriterPlaces
    <3>1. writer[w].id \in Lines
      BY <1>4 DEF Lines
    <3> HIDE DEF old
    <3> QED
      BY <1>5, <3>1 DEF WriterPlaces
  <2>2. writer' = [writer EXCEPT ![w].at = "create", ![w].path = AuditRoot, ![w].blind = fails,
                                 ![w].data = data]
    BY <1>1
  <2> HIDE DEF data
  <2>3. /\ writer'[w] \in WriterStates /\ writer'[w].at = "create" /\ writer'[w].path = AuditRoot
        /\ writer'[w].data = data /\ writer'[w].id = writer[w].id
        /\ writer'[w].blind = fails /\ writer' = [writer EXCEPT ![w] = writer'[w]]
    BY <1>3, <1>4, <2>1, <2>2 DEF WriteTypes, WriterStates
  <2> QED
    BY <2>3 DEF data
<1>7. /\ excused \subseteq excused'
      /\ \A v \in Goroutines : v # w /\ writer[v].path = AuditRoot => AuditRoot \in excused'
  BY <1>2 DEF Write!ExcusedBy
<1>8. ASSUME AuditRoot \notin excused'
      PROVE  old = Write!Behind(Len(known), known)
  <2>1. AuditRoot \notin excused
    BY <1>7, <1>8
  <2>2. CASE fails \/ name[AuditRoot] = None
    <3>1. old = <<>> /\ known = <<>>
      BY <2>1, <2>2 DEF WriteInv, RootsInv
    <3>2. Len(known) = 0
      BY <3>1
    <3> HIDE DEF known, old
    <3>3. Len(Write!Behind(0, known)) = 0 /\ Write!Behind(0, known) \in Seq(Lines)
      <4>1. 0 \in Nat /\ 0 + Len(known) = 0
        BY <3>2
      <4> QED
        BY <1>5, <4>1, BehindIs
    <3>4. Write!Behind(0, known) = <<>>
      BY <3>3, EmptySeq
    <3> QED
      BY <3>1, <3>2, <3>4
  <2>3. CASE ~(fails \/ name[AuditRoot] = None)
    <3>1. old = Write!Bytes(AuditRoot) /\ known = roots
      BY <2>3
    <3>2. inode[name[AuditRoot]] = [header |-> TRUE, data |-> wrote[AuditRoot]]
      BY <1>3, <2>1, <2>3, WholeIs DEF WriteInv
    <3>3. Len(roots) > 0 /\ wrote[AuditRoot] = Write!Behind(Len(roots) - 1, roots)
      BY <2>1, <2>3 DEF WriteInv, RootsInv
    <3>4. Len(roots) - 1 \in Nat /\ (Len(roots) - 1) + 1 = Len(roots)
      BY <1>4, <3>3
    <3> HIDE DEF old, known
    <3>5. old = <<Header>> \o wrote[AuditRoot]
      BY <3>1, <3>2 DEF Write!Bytes
    <3> DEFINE n == Len(roots) - 1
    <3>6. n \in Nat /\ n + 1 = Len(roots) /\ old = <<Header>> \o Write!Behind(n, roots)
      BY <3>3, <3>4, <3>5
    <3> HIDE DEF n
    <3>7. <<Header>> \o Write!Behind(n, roots) = Write!Behind(n + 1, roots)
      BY <1>4, <3>6, HeaderInFront
    <3> QED
      BY <3>1, <3>6, <3>7
  <2> QED
    BY <2>2, <2>3
<1> HIDE DEF old
<1>9. ASSUME AuditRoot \notin excused'
      PROVE  Holds(writer'[w], KnownTo(writer'[w], roots))
  <2>1. KnownTo(writer'[w], roots) = known
    BY <1>6 DEF KnownTo
  <2> DEFINE n == Len(known)
             x == writer[w].id
  <2>2. n \in Nat /\ x \in Nat /\ old = Write!Behind(n, known)
    BY <1>4, <1>5, <1>8, <1>9
  <2> HIDE DEF n, x, known
  <2>3. Append(Write!Behind(n, known), x) = Write!Behind(n, Append(known, x))
    BY <1>5, <2>2, AppendBehind
  <2> QED
    BY <1>6, <2>1, <2>2, <2>3 DEF n, x, Holds
<1>10. writes' \in Nat
  BY <1>2, <1>3 DEF WriteTypes
<1> QED
  BY <1>2, <1>3, <1>6, <1>7, <1>9, <1>10, QuietStep
-----------------------------------------------------------------------------
(* Steps of a goroutine that has its file open *)

(* What every one of them leaves of the others.                            *)
LEMMA SameAlone ==
  ASSUME WriteInv, NEW w \in Goroutines, excused' = excused,
         writer' = [writer EXCEPT ![w] = writer'[w]], writer'[w] \in WriterStates,
         \/ writer'[w].at # "idle" /\ writer'[w].path = writer[w].path /\ writer[w].at # "idle"
         \/ writer'[w] = Write!Idle
  PROVE  Alone'
<1>1. \A v \in Goroutines : v # w => writer'[v] = writer[v]
  BY DEF WriteInv, WriteTypes
<1>2. \A v \in Goroutines : writer'[v].path = writer[v].path \/ writer'[v].path = None
  BY <1>1, IdleType
<1>3. ASSUME NEW p \in FileNames \ excused, NEW u \in Goroutines, NEW v \in Goroutines,
             u # v, writer'[u].path = p, writer'[v].path = p
      PROVE  FALSE
  <2>1. p # None
    BY StoresAssumption DEF FileNames, Write!Names
  <2>2. writer[u].path = p /\ writer[v].path = p
    BY <1>2, <1>3, <2>1
  <2> QED
    BY <1>3, <2>2 DEF WriteInv, Alone
<1>4. \A v \in Goroutines : writer'[v].at # "idle" => writer'[v].path \in FileNames
  BY <1>1, IdleType DEF WriteInv, Alone
<1>5. \A v \in Goroutines : writer'[v].at = "idle" => writer'[v].path = None
  BY <1>1, IdleType DEF WriteInv, Alone
<1> QED
  BY <1>3, <1>4, <1>5 DEF Alone

(* The roots stay when no goroutine on the audit root moves its file.      *)
LEMMA SameRoots ==
  ASSUME WriteInv, NEW w \in Goroutines, excused' = excused, roots' = roots,
         wrote'[AuditRoot] = wrote[AuditRoot], name'[AuditRoot] = name[AuditRoot],
         writer' = [writer EXCEPT ![w] = writer'[w]],
         \/ /\ writer'[w].path = writer[w].path /\ writer'[w].data = writer[w].data
            /\ writer'[w].id = writer[w].id /\ writer'[w].blind = writer[w].blind
            /\ writer[w].path = AuditRoot => writer[w].at # "read"
         \/ writer'[w].path # AuditRoot
  PROVE  RootsInv'
<1>1. \A v \in Goroutines : v # w => writer'[v] = writer[v]
  BY DEF WriteInv, WriteTypes
<1>2. \A v \in Goroutines : AuditRoot \notin excused /\ writer'[v].path = AuditRoot
          /\ writer'[v].at # "read" =>
        Holds(writer'[v], KnownTo(writer'[v], roots))
  BY <1>1 DEF WriteInv, RootsInv, Holds, KnownTo
<1>3. Write!Behind(Len(roots) - 1, roots)' = Write!Behind(Len(roots) - 1, roots)
  BY DEF Write!Behind
<1> QED
  BY <1>2, <1>3 DEF WriteInv, RootsInv

(* What a goroutine writes changes no other file, and nobody else's.       *)
LEMMA OnlyOwnFile ==
  ASSUME WriteInv, NEW w \in Goroutines, writer[w].at # "idle",
         NEW i \in FileInodes, \A j \in FileInodes : j # i => inode'[j] = inode[j],
         \A q \in FileNames \ excused : name[q] # None => i # name[q],
         \A q \in FileNames : q # writer[w].path => i # tmp[q]
  PROVE  /\ \A q \in FileNames \ excused : name[q] # None => inode'[name[q]] = inode[name[q]]
         /\ \A v \in Goroutines : v # w /\ Writing(v) /\ writer[v].path \notin excused =>
              /\ writer[v].path # writer[w].path
              /\ inode'[writer[v].fd] = inode[writer[v].fd]
<1>1. inode \in [FileInodes -> FileContents] /\ name \in [FileNames -> FileInodes \cup {None}]
  BY DEF WriteInv, WriteTypes
<1>2. ASSUME NEW v \in Goroutines, v # w, Writing(v), writer[v].path \notin excused
      PROVE  /\ writer[v].path # writer[w].path
             /\ inode'[writer[v].fd] = inode[writer[v].fd]
  <2>1. writer[v].path \in FileNames /\ writer[v].fd \in FileInodes
    BY <1>2 DEF WriteInv, Alone, InodesApart, Writing
  <2>2. writer[v].path # writer[w].path
    BY <1>2, <2>1 DEF WriteInv, Alone
  <2>3. tmp[writer[v].path] = writer[v].fd
    BY <1>2 DEF WriteInv, Begun
  <2> QED
    BY <1>1, <2>1, <2>2, <2>3
<1> QED
  BY <1>1, <1>2

LEMMA CreateInv ==
  ASSUME WriteInv, NEW w \in Goroutines, Write!Create(w)
  PROVE  WriteInv'
<1> DEFINE p == writer[w].path
           i == IF tmp[p] = None THEN Write!FreeInode ELSE tmp[p]
<1>1. /\ inode' = [inode EXCEPT ![i] = Write!Empty] /\ tmp' = [tmp EXCEPT ![p] = i]
      /\ writer' = [writer EXCEPT ![w].at = "header", ![w].fd = i]
      /\ UNCHANGED <<name, wrote, roots, excused, writes>> /\ writer[w].at = "create"
  BY DEF Write!Create
<1>2. p \in FileNames /\ WriteTypes /\ writer[w] \in WriterStates
  BY <1>1 DEF WriteInv, Alone, WriteTypes
<1>3. /\ i \in FileInodes
      /\ \A q \in FileNames : i # name[q]
      /\ \A q \in FileNames : q # p => i # tmp[q]
      /\ \A v \in Goroutines : Writing(v) /\ writer[v].path # p => writer[v].fd # i
  <2>1. CASE tmp[p] = None
    <3>1. i = Write!FreeInode
      BY <2>1
    <3>2. i \in FileInodes /\ i \notin Write!InUse
      BY <1>2, <2>1, <3>1, FreeInodeIs
    <3> HIDE DEF i
    <3> QED
      BY <3>2 DEF Write!InUse, FileNames
  <2>2. CASE tmp[p] # None
    <3>1. i = tmp[p] /\ i # None
      BY <2>2
    <3>2. i \in FileInodes
      BY <1>2, <3>1 DEF WriteTypes
    <3>3. \A q \in FileNames : name[q] # None => name[q] # tmp[p]
      BY <1>2 DEF WriteInv, InodesApart
    <3>4. \A q \in FileNames : q # p => tmp[p] # tmp[q]
      BY <1>2, <2>2 DEF WriteInv, InodesApart
    <3>5. \A v \in Goroutines : Writing(v) /\ writer[v].path # p => writer[v].fd # tmp[p]
      BY <1>2 DEF WriteInv, InodesApart
    <3> HIDE DEF i
    <3> QED
      BY <3>1, <3>2, <3>3, <3>4, <3>5
  <2> QED
    BY <2>1, <2>2
<1> HIDE DEF i
<1>4. Write!Empty \in FileContents /\ Write!Empty.header = FALSE /\ Write!Empty.data = <<>>
  <2>1. <<>> \in Seq(Lines)
    BY EmptySeq
  <2> QED
    BY <2>1 DEF Write!Empty, FileContents
<1>5. /\ writer'[w] \in WriterStates /\ writer'[w].at = "header" /\ writer'[w].fd = i
      /\ writer'[w].path = p /\ writer'[w].data = writer[w].data /\ writer'[w].id = writer[w].id
      /\ writer'[w].blind = writer[w].blind /\ writer' = [writer EXCEPT ![w] = writer'[w]]
  BY <1>1, <1>2, <1>3 DEF WriteTypes, WriterStates, WriterPlaces
<1>6. \A v \in Goroutines : v # w => writer'[v] = writer[v] /\ Writing(v)' = Writing(v)
  BY <1>2, <1>5 DEF WriteTypes, Writing
<1>7. /\ inode' \in [FileInodes -> FileContents] /\ inode'[i] = Write!Empty
      /\ \A q \in FileNames \ excused : name[q] # None => inode'[name[q]] = inode[name[q]]
      /\ \A v \in Goroutines : v # w /\ Writing(v) /\ writer[v].path \notin excused =>
           /\ writer[v].path # p
           /\ inode'[writer[v].fd] = inode[writer[v].fd]
  <2>1. /\ inode' \in [FileInodes -> FileContents] /\ inode'[i] = Write!Empty
        /\ \A j \in FileInodes : j # i => inode'[j] = inode[j]
    BY <1>1, <1>2, <1>3, <1>4 DEF WriteTypes
  <2>2. writer[w].at # "idle" /\ \A q \in FileNames \ excused : name[q] # None => i # name[q]
    BY <1>1, <1>3
  <2>3. \A q \in FileNames : q # writer[w].path => i # tmp[q]
    BY <1>3
  <2> QED
    BY <1>3, <2>1, <2>2, <2>3, OnlyOwnFile
<1>8. /\ tmp' \in [FileNames -> FileInodes \cup {None}] /\ tmp'[p] = i
      /\ \A q \in FileNames : q # p => tmp'[q] = tmp[q]
  BY <1>1, <1>2, <1>3 DEF WriteTypes
<1> HIDE DEF p
<1>9. WriteTypes'
  BY <1>1, <1>2, <1>5, <1>7, <1>8 DEF WriteTypes
<1>10. InodesApart'
  <2>1. \A q, r \in FileNames : name[q] # None => name[q] # tmp'[r]
    BY <1>3, <1>8 DEF WriteInv, InodesApart
  <2>2. \A q, r \in FileNames : q # r /\ name[q] # None => name[q] # name[r]
    BY DEF WriteInv, InodesApart
  <2>3. \A q, r \in FileNames : q # r /\ tmp'[q] # None => tmp'[q] # tmp'[r]
    BY <1>3, <1>8 DEF WriteInv, InodesApart
  <2>4. ASSUME NEW v \in Goroutines, Writing(v)'
        PROVE  /\ writer'[v].fd \in FileInodes
               /\ \A q \in FileNames : q # writer'[v].path =>
                    writer'[v].fd # name[q] /\ writer'[v].fd # tmp'[q]
    <3>1. CASE v = w
      BY <1>3, <1>5, <1>8, <3>1
    <3>2. CASE v # w
      <4>1. writer'[v] = writer[v] /\ Writing(v)
        BY <1>6, <2>4, <3>2
      <4> QED
        BY <1>3, <1>8, <4>1 DEF WriteInv, InodesApart
    <3> QED
      BY <3>1, <3>2
  <2> QED
    BY <1>1, <2>1, <2>2, <2>3, <2>4 DEF InodesApart
<1>11. Alone'
  BY <1>1, <1>5, SameAlone DEF p
<1>12. Begun'
  <2> SUFFICES ASSUME NEW v \in Goroutines, Writing(v)', writer'[v].path \notin excused
               PROVE  /\ tmp'[writer'[v].path] = writer'[v].fd
                      /\ inode'[writer'[v].fd].header = (writer'[v].at # "header")
                      /\ inode'[writer'[v].fd].data =
                           IF writer'[v].at = "rename" THEN writer'[v].data ELSE <<>>
    BY <1>1 DEF Begun
  <2>1. CASE v = w
    BY <1>4, <1>5, <1>7, <1>8, <2>1
  <2>2. CASE v # w
    <3>1. writer'[v] = writer[v] /\ Writing(v) /\ writer[v].path \in FileNames
      BY <1>6, <2>2 DEF WriteInv, Alone, Writing
    <3> QED
      BY <1>7, <1>8, <2>2, <3>1 DEF WriteInv, Begun
  <2> QED
    BY <2>1, <2>2
<1>13. Write!FilesWhole'
  BY <1>1, <1>7 DEF WriteInv, Write!FilesWhole, FileNames
<1>14. RootsInv'
  BY <1>1, <1>5, SameRoots DEF p
<1> QED
  BY <1>9, <1>10, <1>11, <1>12, <1>13, <1>14 DEF WriteInv

(* A header, or the data behind it.                                        *)
LEMMA FillInv ==
  ASSUME WriteInv, NEW w \in Goroutines, Writing(w), NEW c \in FileContents, NEW at \in WriterPlaces,
         inode' = [inode EXCEPT ![writer[w].fd] = c],
         writer' = [writer EXCEPT ![w].at = at], at \in {"data", "rename"},
         UNCHANGED <<name, tmp, wrote, roots, excused, writes>>,
         writer[w].path \notin excused =>
           c = [header |-> TRUE, data |-> IF at = "rename" THEN writer[w].data ELSE <<>>]
  PROVE  WriteInv'
<1> DEFINE p == writer[w].path
           i == writer[w].fd
<1>1. p \in FileNames /\ i \in FileInodes /\ WriteTypes /\ writer[w] \in WriterStates
  BY DEF WriteInv, Alone, InodesApart, Writing, WriteTypes
<1>2. \A q \in FileNames \ excused : name[q] # None => i # name[q]
  <2> SUFFICES ASSUME NEW q \in FileNames \ excused, name[q] # None PROVE i # name[q]
    OBVIOUS
  <2>1. CASE q = p
    <3>1. tmp[p] = i
      BY <2>1 DEF WriteInv, Begun
    <3> QED
      BY <1>1, <2>1, <3>1 DEF WriteInv, InodesApart
  <2>2. CASE q # p
    BY <2>2 DEF WriteInv, InodesApart
  <2> QED
    BY <2>1, <2>2
<1>3. \A q \in FileNames : q # p => i # tmp[q]
  BY DEF WriteInv, InodesApart
<1>4. /\ writer'[w] \in WriterStates /\ writer'[w].at = at /\ writer'[w].fd = i
      /\ writer'[w].path = p /\ writer'[w].data = writer[w].data /\ writer'[w].id = writer[w].id
      /\ writer'[w].blind = writer[w].blind /\ writer' = [writer EXCEPT ![w] = writer'[w]]
  BY <1>1 DEF WriteTypes, WriterStates
<1>5. \A v \in Goroutines : v # w => writer'[v] = writer[v] /\ Writing(v)' = Writing(v)
  BY <1>1, <1>4 DEF WriteTypes, Writing
<1>6. /\ inode' \in [FileInodes -> FileContents] /\ inode'[i] = c
      /\ \A q \in FileNames \ excused : name[q] # None => inode'[name[q]] = inode[name[q]]
      /\ \A v \in Goroutines : v # w /\ Writing(v) /\ writer[v].path \notin excused =>
           inode'[writer[v].fd] = inode[writer[v].fd]
  <2>1. writer[w].at # "idle"
    BY DEF Writing
  <2>2. /\ inode' \in [FileInodes -> FileContents] /\ inode'[i] = c
        /\ \A j \in FileInodes : j # i => inode'[j] = inode[j]
    BY <1>1 DEF WriteTypes
  <2>3. \A q \in FileNames : q # writer[w].path => i # tmp[q]
    BY <1>3
  <2> HIDE DEF i, p
  <2> QED
    BY <1>1, <1>2, <2>1, <2>2, <2>3, OnlyOwnFile
<1>7. \A v \in Goroutines : writer'[v].fd = writer[v].fd /\ writer'[v].path = writer[v].path
        /\ (Writing(v)' = Writing(v))
  BY <1>4, <1>5 DEF Writing
<1>8. WriteTypes'
  BY <1>1, <1>4, <1>6 DEF WriteTypes
<1>9. InodesApart'
  BY <1>7 DEF WriteInv, InodesApart
<1>10. Alone'
  BY <1>4, SameAlone DEF Writing
<1>11. Begun'
  <2> SUFFICES ASSUME NEW v \in Goroutines, Writing(v), writer[v].path \notin excused
               PROVE  /\ tmp[writer[v].path] = writer[v].fd
                      /\ inode'[writer[v].fd].header = (writer'[v].at # "header")
                      /\ inode'[writer[v].fd].data =
                           IF writer'[v].at = "rename" THEN writer'[v].data ELSE <<>>
    BY <1>7 DEF Begun
  <2>1. CASE v = w
    <3>1. tmp[p] = i
      BY <2>1 DEF WriteInv, Begun
    <3>2. inode'[i].header = TRUE
          /\ inode'[i].data = (IF at = "rename" THEN writer[w].data ELSE <<>>)
      BY <1>6, <2>1
    <3>3. (at # "header") = TRUE
      OBVIOUS
    <3>4. /\ writer[v].fd = i /\ writer[v].path = p
          /\ writer'[v].at = at /\ writer'[v].data = writer[w].data
      BY <1>4, <2>1
    <3> HIDE DEF p, i
    <3> QED
      BY <3>1, <3>2, <3>3, <3>4
  <2>2. CASE v # w
    BY <1>5, <1>6, <2>2 DEF WriteInv, Begun
  <2> QED
    BY <2>1, <2>2
<1>12. Write!FilesWhole'
  BY <1>6 DEF WriteInv, Write!FilesWhole, FileNames
<1>13. RootsInv'
  BY <1>4, SameRoots DEF Writing
<1> QED
  BY <1>8, <1>9, <1>10, <1>11, <1>12, <1>13 DEF WriteInv
-----------------------------------------------------------------------------
LEMMA ContentsAre == \A c \in FileContents : c = [header |-> c.header, data |-> c.data]
BY DEF FileContents

LEMMA WriteHeaderInv ==
  ASSUME WriteInv, NEW w \in Goroutines, Write!WriteHeader(w)
  PROVE  WriteInv'
<1> DEFINE i == writer[w].fd
           c == [inode[i] EXCEPT !.header = TRUE]
<1>1. /\ Writing(w) /\ writer[w].at = "header" /\ inode' = [inode EXCEPT ![i].header = TRUE]
      /\ writer' = [writer EXCEPT ![w].at = "data"]
      /\ UNCHANGED <<name, tmp, wrote, roots, excused, writes>>
  BY DEF Write!WriteHeader, Writing
<1>2. i \in FileInodes /\ inode[i] \in FileContents
  BY <1>1 DEF WriteInv, InodesApart, WriteTypes
<1>3. c \in FileContents /\ c.header = TRUE /\ c.data = inode[i].data
  BY <1>2 DEF FileContents
<1>4. inode' = [inode EXCEPT ![i] = c]
  BY <1>1
<1>5. writer[w].path \notin excused => inode[i].data = <<>>
  BY <1>1 DEF WriteInv, Begun
<1> HIDE DEF c
<1>6. writer[w].path \notin excused => c = [header |-> TRUE, data |-> <<>>]
  BY <1>3, <1>5, ContentsAre
<1>7. "data" \in WriterPlaces
  BY DEF WriterPlaces
<1> QED
  BY <1>1, <1>3, <1>4, <1>6, <1>7, FillInv

LEMMA WriteDataInv ==
  ASSUME WriteInv, NEW w \in Goroutines, Write!WriteData(w)
  PROVE  WriteInv'
<1> DEFINE i == writer[w].fd
<1>1. PICK data \in {writer[w].data, <<Torn>>} :
        /\ data = <<Torn>> => inode[i].data # <<>>
        /\ inode' = [inode EXCEPT ![i].data = data]
  BY DEF Write!WriteData
<1> DEFINE c == [inode[i] EXCEPT !.data = data]
<1>2. /\ Writing(w) /\ writer[w].at = "data" /\ writer' = [writer EXCEPT ![w].at = "rename"]
      /\ UNCHANGED <<name, tmp, wrote, roots, excused, writes>>
  BY DEF Write!WriteData, Writing
<1>3. i \in FileInodes /\ inode[i] \in FileContents /\ data \in Seq(Lines)
  <2>1. writer[w].data \in Seq(Lines) /\ <<Torn>> \in Seq(Lines)
    BY DEF WriteInv, WriteTypes, WriterStates, Lines
  <2> QED
    BY <1>2, <2>1 DEF WriteInv, InodesApart, WriteTypes
<1>4. c \in FileContents /\ c.header = inode[i].header /\ c.data = data
  BY <1>3 DEF FileContents
<1>5. inode' = [inode EXCEPT ![i] = c]
  BY <1>1
<1>6. writer[w].path \notin excused => inode[i].data = <<>> /\ inode[i].header = TRUE
  <2>1. (writer[w].at # "header") = TRUE /\ writer[w].at # "rename"
    BY <1>2
  <2> QED
    BY <1>2, <2>1 DEF WriteInv, Begun
<1> HIDE DEF c
<1>7. writer[w].path \notin excused => c = [header |-> TRUE, data |-> writer[w].data]
  <2>1. c = [header |-> c.header, data |-> c.data]
    BY <1>4, ContentsAre
  <2>2. data = <<Torn>> => inode[i].data # <<>>
    BY <1>1
  <2> QED
    BY <1>1, <1>4, <1>6, <2>1, <2>2
<1>8. "rename" \in WriterPlaces
  BY DEF WriterPlaces
<1> QED
  BY <1>2, <1>4, <1>5, <1>7, <1>8, FillInv

(* A goroutine that has its file no longer open.                           *)
LEMMA LeavesFile ==
  ASSUME WriteInv, NEW w \in Goroutines, excused' = excused,
         writer' = [writer EXCEPT ![w] = writer'[w]],
         writer'[w] = Write!Idle \/ (writer'[w].at = "read" /\ writer'[w] \in WriterStates)
  PROVE  /\ ~Writing(w)' /\ writer'[w] \in WriterStates
         /\ writer' \in [Goroutines -> WriterStates]
         /\ \A v \in Goroutines : v # w => writer'[v] = writer[v] /\ Writing(v)' = Writing(v)
BY IdleType DEF WriteInv, WriteTypes, Writing

LEMMA RenameInv ==
  ASSUME WriteInv, NEW w \in Goroutines, Write!Rename(w)
  PROVE  WriteInv'
<1> DEFINE p == writer[w].path
           i == tmp[p]
<1>1. /\ writer[w].at = "rename" /\ tmp[p] # None
      /\ name' = [name EXCEPT ![p] = i] /\ tmp' = [tmp EXCEPT ![p] = None]
      /\ wrote' = [wrote EXCEPT ![p] = writer[w].data]
      /\ roots' = (IF p = AuditRoot THEN Append(Write!Known(w), writer[w].id) ELSE roots)
      /\ UNCHANGED <<inode, excused, writes>>
  BY DEF Write!Rename
<1>2. /\ p = AuditRoot => writer' = [writer EXCEPT ![w] = Write!Idle]
      /\ p # AuditRoot => writer' = [writer EXCEPT ![w].at = "read"]
  BY DEF Write!Rename, Write!Finished
<1>3. p \in FileNames /\ WriteTypes /\ writer[w] \in WriterStates /\ i \in FileInodes
  BY <1>1 DEF WriteInv, Alone, WriteTypes
<1>4. writer' = [writer EXCEPT ![w] = writer'[w]]
  BY <1>2, <1>3 DEF WriteTypes
<1>5. \/ writer'[w] = Write!Idle
      \/ /\ writer'[w].at = "read" /\ writer'[w] \in WriterStates
         /\ writer'[w].path = p /\ p # AuditRoot
  <2>1. CASE p = AuditRoot
    BY <1>2, <1>3, <2>1 DEF WriteTypes
  <2>2. CASE p # AuditRoot
    <3>1. writer'[w] = [writer[w] EXCEPT !.at = "read"] /\ "read" \in WriterPlaces
      BY <1>2, <1>3, <2>2 DEF WriteTypes, WriterPlaces
    <3>2. writer[w] \in WriterStates /\ writer[w].path = p
      BY <1>3
    <3>3. writer'[w] \in WriterStates /\ writer'[w].at = "read" /\ writer'[w].path = writer[w].path
      BY <3>1, <3>2 DEF WriterStates
    <3> QED
      BY <2>2, <3>2, <3>3
  <2> QED
    BY <2>1, <2>2
<1>6. /\ ~Writing(w)' /\ writer'[w] \in WriterStates
      /\ writer' \in [Goroutines -> WriterStates]
      /\ \A v \in Goroutines : v # w => writer'[v] = writer[v] /\ Writing(v)' = Writing(v)
  BY <1>1, <1>4, <1>5, LeavesFile
<1>7. /\ name'[p] = i /\ tmp'[p] = None /\ wrote'[p] = writer[w].data
      /\ \A q \in FileNames : q # p =>
           name'[q] = name[q] /\ tmp'[q] = tmp[q] /\ wrote'[q] = wrote[q]
  BY <1>1, <1>3 DEF WriteTypes
<1>8. WriteTypes'
  <2>1. writer[w].data \in Seq(Lines) /\ writer[w].id \in Nat
    BY <1>3 DEF WriterStates
  <2>2. roots' \in Seq(Nat)
    <3>1. Write!Known(w) \in Seq(Nat)
      BY <1>3, EmptySeq DEF Write!Known, WriteTypes
    <3> QED
      BY <1>1, <1>3, <2>1, <3>1 DEF WriteTypes
  <2> QED
    BY <1>1, <1>3, <1>6, <2>1, <2>2 DEF WriteTypes
<1>9. InodesApart'
  <2>1. \A q, r \in FileNames : name'[q] # None => name'[q] # tmp'[r]
    BY <1>1, <1>3, <1>7 DEF WriteInv, InodesApart
  <2>2. \A q, r \in FileNames : q # r /\ name'[q] # None => name'[q] # name'[r]
    BY <1>1, <1>3, <1>7 DEF WriteInv, InodesApart
  <2>3. \A q, r \in FileNames : q # r /\ tmp'[q] # None => tmp'[q] # tmp'[r]
    BY <1>7 DEF WriteInv, InodesApart
  <2>4. ASSUME NEW v \in Goroutines, Writing(v)'
        PROVE  /\ writer'[v].fd \in FileInodes
               /\ \A q \in FileNames : q # writer'[v].path =>
                    writer'[v].fd # name'[q] /\ writer'[v].fd # tmp'[q]
    <3>1. v # w /\ writer'[v] = writer[v] /\ Writing(v)
      BY <1>6, <2>4
    <3>2. None \notin FileInodes
      BY InodesAre
    <3> QED
      BY <1>3, <1>7, <3>1, <3>2 DEF WriteInv, InodesApart
  <2> QED
    BY <2>1, <2>2, <2>3, <2>4 DEF InodesApart
<1>10. Alone'
  BY <1>1, <1>4, <1>5, <1>6, SameAlone
<1>11. Begun'
  <2> SUFFICES ASSUME NEW v \in Goroutines, Writing(v)', writer'[v].path \notin excused
               PROVE  /\ tmp'[writer'[v].path] = writer'[v].fd
                      /\ inode[writer'[v].fd].header = (writer'[v].at # "header")
                      /\ inode[writer'[v].fd].data =
                           IF writer'[v].at = "rename" THEN writer'[v].data ELSE <<>>
    BY <1>1 DEF Begun
  <2>1. v # w /\ writer'[v] = writer[v] /\ Writing(v)
    BY <1>6
  <2>2. writer[v].path \in FileNames /\ writer[v].path # p
    BY <1>3, <2>1 DEF WriteInv, Alone, Writing
  <2> QED
    BY <1>7, <2>1, <2>2 DEF WriteInv, Begun
<1>12. p \notin excused => inode[i] = [header |-> TRUE, data |-> writer[w].data]
  <2> SUFFICES ASSUME p \notin excused PROVE inode[i] = [header |-> TRUE, data |-> writer[w].data]
    OBVIOUS
  <2>1. (writer[w].at # "header") = TRUE /\ Writing(w)
    BY <1>1 DEF Writing
  <2>2. i = writer[w].fd /\ inode[i].header = TRUE /\ inode[i].data = writer[w].data
    BY <1>1, <2>1 DEF WriteInv, Begun
  <2>3. inode[i] \in FileContents
    BY <1>3 DEF WriteTypes
  <2> QED
    BY <2>2, <2>3 DEF FileContents
<1>13. Write!FilesWhole'
  <2> SUFFICES ASSUME NEW q \in FileNames \ excused, name'[q] # None
               PROVE  inode[name'[q]] = [header |-> TRUE, data |-> wrote'[q]]
    BY <1>1 DEF Write!FilesWhole, FileNames
  <2>1. CASE q = p
    BY <1>7, <1>12, <2>1
  <2>2. CASE q # p
    BY <1>7, <2>2, WholeIs DEF WriteInv
  <2> QED
    BY <2>1, <2>2
<1>14. RootsInv'
  <2>1. CASE p = AuditRoot
    <3> SUFFICES ASSUME AuditRoot \notin excused
                 PROVE  /\ name'[AuditRoot] # None /\ Len(roots') > 0
                        /\ wrote'[AuditRoot] = Write!Behind(Len(roots') - 1, roots')
                        /\ \A v \in Goroutines : writer'[v].path # AuditRoot
      BY <1>1 DEF RootsInv, Write!Behind
    <3>1. name'[AuditRoot] # None
      BY <1>1, <1>7, <2>1
    <3>2. /\ roots' = Append(Write!Known(w), writer[w].id) /\ Write!Known(w) \in Seq(Nat)
          /\ writer[w].id \in Nat /\ Write!Known(w) = KnownTo(writer[w], roots)
      BY <1>1, <1>3, <2>1, EmptySeq DEF WriteTypes, WriterStates, Write!Known, KnownTo
    <3>3. Len(roots') - 1 = Len(Write!Known(w)) /\ Len(roots') > 0
      BY <3>2
    <3>4. writer[w].data = Write!Behind(Len(Write!Known(w)),
                                        Append(Write!Known(w), writer[w].id))
      BY <1>1, <2>1, <3>2 DEF WriteInv, RootsInv, Holds
    <3>5. wrote'[AuditRoot] = Write!Behind(Len(roots') - 1, roots')
      BY <1>7, <2>1, <3>2, <3>3, <3>4
    <3>6. \A v \in Goroutines : writer'[v].path # AuditRoot
      <4> SUFFICES ASSUME NEW v \in Goroutines, writer'[v].path = AuditRoot PROVE FALSE
        OBVIOUS
      <4>1. CASE v = w
        BY <1>5, <2>1, <4>1, IdleType, StoresAssumption
      <4>2. CASE v # w
        BY <1>3, <1>6, <2>1, <4>2 DEF WriteInv, Alone
      <4> QED
        BY <4>1, <4>2
    <3> QED
      BY <3>1, <3>3, <3>5, <3>6
  <2>2. CASE p # AuditRoot
    <3>1. AuditRoot \in FileNames
      BY DEF FileNames, Write!Names
    <3>2. writer'[w].path # AuditRoot
      BY <1>5, <2>2, IdleType, StoresAssumption
    <3>3. /\ roots' = roots /\ wrote'[AuditRoot] = wrote[AuditRoot]
          /\ name'[AuditRoot] = name[AuditRoot] /\ excused' = excused
      BY <1>1, <1>7, <2>2, <3>1
    <3> QED
      BY <1>4, <3>2, <3>3, SameRoots
  <2> QED
    BY <2>1, <2>2
<1> QED
  BY <1>8, <1>9, <1>10, <1>11, <1>13, <1>14 DEF WriteInv

LEMMA FailInv ==
  ASSUME WriteInv, NEW w \in Goroutines, Write!Fail(w)
  PROVE  WriteInv'
<1> DEFINE p == writer[w].path
<1>1. /\ tmp' = [tmp EXCEPT ![p] = None] /\ writer' = [writer EXCEPT ![w] = Write!Idle]
      /\ UNCHANGED <<inode, name, wrote, roots, excused, writes>>
      /\ writer[w].at \in {"header", "data", "rename"}
  BY DEF Write!Fail, Write!Finished
<1>2. p \in FileNames /\ WriteTypes
  BY <1>1 DEF WriteInv, Alone
<1>3. writer'[w] = Write!Idle /\ writer' = [writer EXCEPT ![w] = writer'[w]]
  BY <1>1, <1>2 DEF WriteTypes
<1>4. /\ ~Writing(w)' /\ writer'[w] \in WriterStates
      /\ writer' \in [Goroutines -> WriterStates]
      /\ \A v \in Goroutines : v # w => writer'[v] = writer[v] /\ Writing(v)' = Writing(v)
  BY <1>1, <1>3, LeavesFile
<1>5. tmp'[p] = None /\ \A q \in FileNames : q # p => tmp'[q] = tmp[q]
  BY <1>1, <1>2 DEF WriteTypes
<1>6. WriteTypes'
  BY <1>1, <1>2, <1>4 DEF WriteTypes
<1>7. InodesApart'
  <2>1. \A q, r \in FileNames : name[q] # None => name[q] # tmp'[r]
    BY <1>5 DEF WriteInv, InodesApart
  <2>2. \A q, r \in FileNames : q # r /\ tmp'[q] # None => tmp'[q] # tmp'[r]
    BY <1>5 DEF WriteInv, InodesApart
  <2>3. None \notin FileInodes
    BY InodesAre
  <2> QED
    BY <1>1, <1>4, <1>5, <2>1, <2>2, <2>3 DEF WriteInv, InodesApart
<1>8. Alone'
  BY <1>1, <1>3, <1>4, SameAlone
<1>9. Begun'
  <2> SUFFICES ASSUME NEW v \in Goroutines, v # w, Writing(v), writer[v].path \notin excused
               PROVE  tmp'[writer[v].path] = tmp[writer[v].path]
    BY <1>1, <1>4 DEF WriteInv, Begun
  <2>1. writer[v].path \in FileNames /\ writer[v].path # p
    BY <1>2 DEF WriteInv, Alone, Writing
  <2> QED
    BY <1>5, <2>1
<1>10. Write!FilesWhole'
  BY <1>1 DEF WriteInv, Write!FilesWhole
<1>11. RootsInv'
  <2>1. writer'[w].path # AuditRoot
    BY <1>3, IdleType, StoresAssumption
  <2> QED
    BY <1>1, <1>3, <2>1, SameRoots
<1> QED
  BY <1>6, <1>7, <1>8, <1>9, <1>10, <1>11 DEF WriteInv

LEMMA CrashInv ==
  ASSUME WriteInv, Write!Crash
  PROVE  WriteInv'
<1>1. /\ writer' = [w \in Goroutines |-> Write!Idle]
      /\ UNCHANGED <<inode, name, tmp, wrote, roots, excused, writes>>
  BY DEF Write!Crash
<1>2. \A w \in Goroutines : writer'[w] = Write!Idle /\ ~Writing(w)'
  BY <1>1, IdleType DEF Writing
<1>3. WriteTypes'
  BY <1>1, IdleType DEF WriteInv, WriteTypes
<1>4. InodesApart' /\ Begun'
  BY <1>1, <1>2 DEF WriteInv, InodesApart, Begun
<1>5. Alone'
  <2>1. \A p \in FileNames : p # None
    BY StoresAssumption DEF FileNames, Write!Names
  <2> QED
    BY <1>2, <2>1, IdleType DEF Alone
<1>6. Write!FilesWhole'
  BY <1>1 DEF WriteInv, Write!FilesWhole
<1>7. RootsInv'
  <2>1. \A w \in Goroutines : writer'[w].path # AuditRoot
    BY <1>2, IdleType, StoresAssumption
  <2> QED
    BY <1>1, <2>1 DEF WriteInv, RootsInv, Write!Behind
<1> QED
  BY <1>3, <1>4, <1>5, <1>6, <1>7 DEF WriteInv

LEMMA WriteInvInit == Write!Init => WriteInv
<1> SUFFICES ASSUME Write!Init PROVE WriteInv
  OBVIOUS
<1>1. /\ inode = [i \in FileInodes |-> Write!Empty]
      /\ name = [p \in FileNames |-> None] /\ tmp = [p \in FileNames |-> None]
      /\ writer = [w \in Goroutines |-> Write!Idle]
      /\ wrote = [p \in FileNames |-> <<>>] /\ roots = <<>> /\ writes = 0
  BY DEF Write!Init, FileNames, FileInodes
<1>2. <<>> \in Seq(Lines) /\ <<>> \in Seq(Nat)
  BY EmptySeq
<1>3. Write!Empty \in FileContents
  BY <1>2 DEF Write!Empty, FileContents
<1>4. WriteTypes
  BY <1>1, <1>2, <1>3, IdleType DEF WriteTypes
<1>5. \A w \in Goroutines : ~Writing(w) /\ writer[w].path = None /\ writer[w].at = "idle"
  BY <1>1, IdleType DEF Writing
<1>6. InodesApart /\ Begun
  BY <1>1, <1>5 DEF InodesApart, Begun
<1>7. \A p \in FileNames : p # None /\ name[p] = None
  BY <1>1, StoresAssumption DEF FileNames, Write!Names
<1>8. Alone /\ Write!FilesWhole
  BY <1>5, <1>7 DEF Alone, Write!FilesWhole, FileNames
<1>9. AuditRoot \in FileNames
  BY DEF FileNames, Write!Names
<1>10. RootsInv
  BY <1>1, <1>5, <1>7, <1>9 DEF RootsInv
<1> QED
  BY <1>4, <1>6, <1>8, <1>10 DEF WriteInv

LEMMA WriteInvNext == WriteInv /\ [Write!Next]_writeVars => WriteInv'
<1> SUFFICES ASSUME WriteInv, [Write!Next]_writeVars PROVE WriteInv'
  OBVIOUS
<1>1. CASE UNCHANGED writeVars
  <2>1. UNCHANGED <<inode, name, tmp, writer, wrote, roots, excused, writes>>
    BY <1>1 DEF writeVars
  <2>2. WriteTypes' /\ Alone'
    BY <2>1 DEF WriteInv, WriteTypes, Alone
  <2>3. InodesApart'
    BY <2>1 DEF WriteInv, InodesApart, Writing
  <2>4. Begun'
    BY <2>1 DEF WriteInv, Begun, Writing
  <2>5. Write!FilesWhole'
    BY <2>1 DEF WriteInv, Write!FilesWhole
  <2>6. RootsInv'
    <3>1. roots' = roots /\ writer' = writer /\ wrote' = wrote /\ name' = name /\ excused' = excused
      BY <2>1
    <3>2. Write!Behind(Len(roots) - 1, roots)' = Write!Behind(Len(roots) - 1, roots)
      BY <3>1 DEF Write!Behind
    <3> QED
      BY <3>1, <3>2 DEF WriteInv, RootsInv
  <2> QED
    BY <2>2, <2>3, <2>4, <2>5, <2>6 DEF WriteInv
<1> QED
  BY <1>1, BeginInv, CreateInv, WriteHeaderInv, WriteDataInv, RenameInv, FailInv, NoRootInv,
     ReadAuditInv, CrashInv DEF Write!Next

(* The bytes of the audit root are its headers, then its roots.            *)
LEMMA RootsBehindHeaders == WriteInv => Write!RootsKept
<1> SUFFICES ASSUME WriteInv, AuditRoot \notin excused, name[AuditRoot] # None
             PROVE  Write!Bytes(AuditRoot) = Write!Behind(Len(roots), roots)
  BY DEF Write!RootsKept
<1> DEFINE n == Len(roots) - 1
<1>1. AuditRoot \in FileNames \ excused
  BY DEF FileNames, Write!Names
<1>2. inode[name[AuditRoot]] = [header |-> TRUE, data |-> wrote[AuditRoot]]
  BY <1>1, WholeIs DEF WriteInv
<1>3. /\ roots \in Seq(Nat) /\ n \in Nat /\ n + 1 = Len(roots)
      /\ wrote[AuditRoot] = Write!Behind(n, roots)
  BY DEF WriteInv, WriteTypes, RootsInv
<1> HIDE DEF n
<1>4. Write!Bytes(AuditRoot) = <<Header>> \o Write!Behind(n, roots)
  BY <1>2, <1>3 DEF Write!Bytes
<1>5. <<Header>> \o Write!Behind(n, roots) = Write!Behind(n + 1, roots)
  BY <1>3, HeaderInFront
<1> QED
  BY <1>3, <1>4, <1>5
-----------------------------------------------------------------------------
(* Engrams, their files and the index *)

EngramRecords == [id : Ids, place : Places, content : Contents,
                  importance : Importances \cup {0}, accessed : Nat \cup {None}]
Storing(w, id) == storing[w].engram # None /\ storing[w].engram.id = id

EngramTypes ==
  /\ day \in Nat
  /\ engrams \in [Ids -> EngramRecords \cup {None}]
  /\ onDisk \in [Places \X Ids -> EngramRecords \cup {None}]
  /\ storing \in [Goroutines -> [engram : EngramRecords \cup {None}, renamed : BOOLEAN]]
  /\ \A w \in Goroutines : storing[w].renamed => storing[w].engram # None
  /\ \A id \in Ids : engrams[id] # None => engrams[id].id = id
  /\ \A id \in Ids : \A p \in Places : onDisk[<<p, id>>] # None => onDisk[<<p, id>>].id = id

(* An engram that is read back as another makes both of them unsure.       *)
Sure(e, ids) ==
  Engram!PathOf(Engram!Parsed(e)) # Engram!PathOf(e) => e.id \in ids /\ Engram!Parsed(e).id \in ids

ClaimsKnown ==
  /\ \A id \in Ids : \A p \in Places : onDisk[<<p, id>>] # None => Sure(onDisk[<<p, id>>], unsure)
  /\ \A w \in Goroutines : storing[w].engram # None => Sure(storing[w].engram, unsure)

(* The files of an id are that of the engram, or none.                     *)
FileIs(id, e) ==
  \A p \in Places : onDisk[<<p, id>>] = IF e # None /\ p = e.place THEN e ELSE None

(* What is indexed is the engram of the file, or what is read back of it.  *)
IndexIs(id, e) ==
  IF engrams[id] = None THEN e = None \/ id \in left
  ELSE e # None /\ engrams[id] \in {e, Engram!Parsed(e)} /\ engrams[id].place = e.place

(* Who writes an engram does so alone and where it has been; once the file *)
(* is there it is ahead of the index, until then they agree.               *)
EngramKept(id) ==
  /\ \A v, w \in Goroutines : Storing(v, id) /\ Storing(w, id) => v = w
  /\ \A w \in Goroutines : Storing(w, id) =>
       \A p \in Places : onDisk[<<p, id>>] # None => p = storing[w].engram.place
  /\ \A w \in Goroutines : Storing(w, id) /\ storing[w].renamed => FileIs(id, storing[w].engram)
  /\ (\A w \in Goroutines : Storing(w, id) => ~storing[w].renamed) =>
       \E e \in EngramRecords \cup {None} : FileIs(id, e) /\ IndexIs(id, e)

EngramInv == EngramTypes /\ ClaimsKnown /\ \A id \in Ids \ unsure : EngramKept(id)

LEMMA ParsedIs ==
  ASSUME NEW e \in EngramRecords
  PROVE  Engram!Parsed(e) \in EngramRecords
<1> DEFINE c == e.content
<1>1. c \in Contents /\ Reread[c] \in Contents
  BY EngramAssumption DEF EngramRecords
<1>2. Claimed[c] # None => Claimed[c].id \in Ids /\ Claimed[c].place \in Places
  BY <1>1, EngramAssumption
<1>3. /\ (IF Claimed[c] = None THEN e.id ELSE Claimed[c].id) \in Ids
      /\ (IF Claimed[c] = None THEN e.place ELSE Claimed[c].place) \in Places
      /\ (IF c \in CutOff THEN 0 ELSE e.importance) \in Importances \cup {0}
      /\ (IF c \in CutOff THEN None ELSE e.accessed) \in Nat \cup {None}
  BY <1>2 DEF EngramRecords
<1> HIDE DEF c
<1> QED
  BY <1>1, <1>3 DEF Engram!Parsed, EngramRecords, c

LEMMA NoEngram == None \notin EngramRecords
BY EngramAssumption DEF EngramRecords

LEMMA EngramInvInit == Engram!Init => EngramInv
<1> SUFFICES ASSUME Engram!Init PROVE EngramInv
  OBVIOUS
<1>1. /\ day = 0 /\ engrams = [id \in Ids |-> None] /\ onDisk = [p \in Places \X Ids |-> None]
      /\ storing = [w \in Goroutines |-> [engram |-> None, renamed |-> FALSE]]
  BY DEF Engram!Init, Engram!NotStoring
<1>2. EngramTypes
  BY <1>1 DEF EngramTypes
<1>3. \A id \in Ids : EngramKept(id)
  <2> TAKE id \in Ids
  <2>1. FileIs(id, None) /\ IndexIs(id, None)
    BY <1>1 DEF FileIs, IndexIs
  <2> QED
    BY <1>1, <2>1 DEF EngramKept, Storing
<1>4. ClaimsKnown
  BY <1>1 DEF ClaimsKnown
<1> QED
  BY <1>2, <1>3, <1>4 DEF EngramInv

(* A step that has to do with other ids alone.                             *)
LEMMA OtherEngram ==
  ASSUME NEW id, EngramKept(id), engrams'[id] = engrams[id],
         engrams[id] = None => (id \in left' <=> id \in left),
         \A p \in Places : onDisk'[<<p, id>>] = onDisk[<<p, id>>],
         \A w \in Goroutines :
           storing'[w] = storing[w] \/ (~Storing(w, id) /\ ~Storing(w, id)')
  PROVE  EngramKept(id)'
<1>1. \A w \in Goroutines : Storing(w, id)' => Storing(w, id) /\ storing'[w] = storing[w]
  BY DEF Storing
<1>2. \A w \in Goroutines : Storing(w, id) => Storing(w, id)' /\ storing'[w] = storing[w]
  BY DEF Storing
<1>3. ASSUME NEW e, FileIs(id, e) PROVE FileIs(id, e)'
  BY <1>3 DEF FileIs
<1>4. ASSUME NEW e, IndexIs(id, e) PROVE IndexIs(id, e)'
  BY <1>4 DEF IndexIs
<1>5. (\A w \in Goroutines : Storing(w, id)' => ~storing'[w].renamed) =>
        \E e \in EngramRecords \cup {None} : FileIs(id, e)' /\ IndexIs(id, e)'
  BY <1>2, <1>3, <1>4 DEF EngramKept
<1>6. \A w \in Goroutines : Storing(w, id)' /\ storing'[w].renamed =>
        FileIs(id, storing[w].engram)'
  <2> TAKE w \in Goroutines
  <2> HAVE Storing(w, id)' /\ storing'[w].renamed
  <2>1. Storing(w, id) /\ storing'[w] = storing[w]
    BY <1>1
  <2>2. FileIs(id, storing[w].engram)
    BY <2>1 DEF EngramKept
  <2> QED
    BY <2>1, <2>2 DEF FileIs
<1> QED
  BY <1>1, <1>5, <1>6 DEF EngramKept

(* What becomes unsure stays so, and no file is there that was not written. *)
LEMMA ClaimsStay ==
  ASSUME ClaimsKnown, unsure \subseteq unsure',
         \A id \in Ids : \A p \in Places : onDisk'[<<p, id>>] # None =>
           Sure(onDisk'[<<p, id>>], unsure) \/ onDisk'[<<p, id>>] = onDisk[<<p, id>>],
         \A w \in Goroutines : storing'[w].engram # None =>
           Sure(storing'[w].engram, unsure') \/ storing'[w].engram = storing[w].engram
  PROVE  ClaimsKnown'
BY DEF ClaimsKnown, Sure

LEMMA BeginEngramInv ==
  ASSUME EngramInv, NEW w \in Goroutines, NEW e \in EngramRecords, Engram!BeginWrite(w, e)
  PROVE  EngramInv'
<1>1. /\ storing[w].engram = None /\ storing' = [storing EXCEPT ![w].engram = e]
      /\ unsure' = unsure \cup
           (IF Engram!BeingStored(e.id) \/
               \E p \in Places \ {e.place} : onDisk[<<p, e.id>>] # None
            THEN {e.id} ELSE {}) \cup
           (IF Engram!PathOf(Engram!Parsed(e)) # Engram!PathOf(e)
            THEN {e.id, Engram!Parsed(e).id} ELSE {})
      /\ UNCHANGED <<day, engrams, onDisk, left>>
  BY DEF Engram!BeginWrite
<1>2. storing[w].renamed = FALSE
  BY <1>1 DEF EngramInv, EngramTypes
<1>3. /\ storing'[w].engram = e /\ storing'[w].renamed = FALSE
      /\ \A v \in Goroutines : v # w => storing'[v] = storing[v]
      /\ storing' \in [Goroutines -> [engram : EngramRecords \cup {None}, renamed : BOOLEAN]]
  BY <1>1, <1>2 DEF EngramInv, EngramTypes
<1>4. EngramTypes'
  BY <1>1, <1>3 DEF EngramInv, EngramTypes
<1>5. ASSUME NEW id \in Ids \ unsure' PROVE EngramKept(id)'
  <2>1. id \in Ids \ unsure /\ EngramKept(id)
    BY <1>1, <1>5 DEF EngramInv
  <2>2. CASE id # e.id
    <3>1. ~Storing(w, id) /\ ~Storing(w, id)'
      BY <1>1, <1>3, <2>2 DEF Storing
    <3> QED
      BY <1>1, <1>3, <2>1, <3>1, OtherEngram
  <2>3. CASE id = e.id
    <3>1. /\ ~Engram!BeingStored(id)
          /\ \A p \in Places \ {e.place} : onDisk[<<p, id>>] = None
      BY <1>1, <1>5, <2>3
    <3>2. \A v \in Goroutines : ~Storing(v, id)
      BY <3>1 DEF Engram!BeingStored, Storing
    <3>3. \A v \in Goroutines : Storing(v, id)' => v = w
      BY <1>3, <3>2 DEF Storing
    <3>4. PICK f \in EngramRecords \cup {None} : FileIs(id, f) /\ IndexIs(id, f)
      BY <2>1, <3>2 DEF EngramKept
    <3>5. FileIs(id, f)' /\ IndexIs(id, f)'
      BY <1>1, <3>4 DEF FileIs, IndexIs
    <3>6. \A p \in Places : onDisk'[<<p, id>>] # None => p = e.place
      BY <1>1, <3>1
    <3> QED
      BY <1>3, <3>3, <3>5, <3>6 DEF EngramKept
  <2> QED
    BY <2>2, <2>3
<1>6. ClaimsKnown'
  <2>1. ClaimsKnown /\ unsure \subseteq unsure'
    BY <1>1 DEF EngramInv
  <2>2. Sure(e, unsure')
    BY <1>1 DEF Sure
  <2>3. \A v \in Goroutines : storing'[v].engram # None =>
          Sure(storing'[v].engram, unsure') \/ storing'[v].engram = storing[v].engram
    BY <1>3, <2>2
  <2> QED
    BY <1>1, <2>1, <2>3, ClaimsStay
<1> QED
  BY <1>4, <1>5, <1>6 DEF EngramInv

LEMMA RenameFileInv ==
  ASSUME EngramInv, NEW w \in Goroutines, Engram!RenameFile(w)
  PROVE  EngramInv'
<1> DEFINE e == storing[w].engram
<1>1. /\ e # None /\ ~storing[w].renamed
      /\ onDisk' = [onDisk EXCEPT ![<<e.place, e.id>>] = e]
      /\ storing' = [storing EXCEPT ![w].renamed = TRUE]
      /\ UNCHANGED <<day, engrams, left, unsure>>
  BY DEF Engram!RenameFile, Engram!PathOf
<1>2. e \in EngramRecords /\ e.place \in Places /\ e.id \in Ids
  BY <1>1 DEF EngramInv, EngramTypes, EngramRecords
<1>3. /\ storing'[w].engram = e /\ storing'[w].renamed = TRUE
      /\ \A v \in Goroutines : v # w => storing'[v] = storing[v]
      /\ storing' \in [Goroutines -> [engram : EngramRecords \cup {None}, renamed : BOOLEAN]]
  BY <1>1 DEF EngramInv, EngramTypes
<1>4. /\ \A p \in Places : \A id \in Ids : id # e.id => onDisk'[<<p, id>>] = onDisk[<<p, id>>]
      /\ \A p \in Places : onDisk'[<<p, e.id>>] = IF p = e.place THEN e ELSE onDisk[<<p, e.id>>]
      /\ onDisk' \in [Places \X Ids -> EngramRecords \cup {None}]
  BY <1>1, <1>2 DEF EngramInv, EngramTypes
<1>5. Sure(e, unsure)
  BY <1>1 DEF EngramInv, ClaimsKnown
<1> HIDE DEF e
<1>6. EngramTypes'
  BY <1>1, <1>3, <1>4 DEF EngramInv, EngramTypes
<1>7. \A v \in Goroutines, id \in Ids : Storing(v, id)' = Storing(v, id)
  BY <1>3 DEF Storing, e
<1>8. ASSUME NEW id \in Ids \ unsure' PROVE EngramKept(id)'
  <2>1. EngramKept(id)
    BY <1>1, <1>8 DEF EngramInv
  <2>2. CASE id # e.id
    <3>1. ~Storing(w, id) /\ ~Storing(w, id)'
      BY <1>3, <2>2 DEF Storing, e
    <3>2. engrams'[id] = engrams[id] /\ \A p \in Places : onDisk'[<<p, id>>] = onDisk[<<p, id>>]
      BY <1>1, <1>4, <2>2
    <3> QED
      BY <1>1, <1>3, <2>1, <3>1, <3>2, OtherEngram
  <2>3. CASE id = e.id
    <3>1. Storing(w, id)
      BY <1>1, <2>3 DEF Storing, e
    <3>2. \A v \in Goroutines : Storing(v, id)' => v = w
      BY <1>7, <2>1, <3>1 DEF EngramKept
    <3>3. \A p \in Places : onDisk'[<<p, id>>] = IF e # None /\ p = e.place THEN e ELSE None
      BY <1>1, <1>4, <2>1, <2>3, <3>1 DEF EngramKept, e
    <3>4. Storing(w, id)'
      BY <1>7, <3>1
    <3> QED
      BY <1>3, <3>2, <3>3, <3>4 DEF EngramKept, FileIs
  <2> QED
    BY <2>2, <2>3
<1>9. ClaimsKnown'
  <2>1. ClaimsKnown /\ unsure \subseteq unsure'
    BY <1>1 DEF EngramInv
  <2>2. \A id \in Ids : \A p \in Places : onDisk'[<<p, id>>] # None =>
          Sure(onDisk'[<<p, id>>], unsure) \/ onDisk'[<<p, id>>] = onDisk[<<p, id>>]
    BY <1>4, <1>5
  <2>3. \A v \in Goroutines : storing'[v].engram = storing[v].engram
    BY <1>3 DEF e
  <2> QED
    BY <2>1, <2>2, <2>3, ClaimsStay
<1> QED
  BY <1>6, <1>8, <1>9 DEF EngramInv

LEMMA WriteFailsInv ==
  ASSUME EngramInv, NEW w \in Goroutines, Engram!WriteFails(w)
  PROVE  EngramInv'
<1>1. /\ ~storing[w].renamed /\ storing' = [storing EXCEPT ![w] = Engram!NotStoring]
      /\ UNCHANGED <<day, engrams, onDisk, left, unsure>>
  BY DEF Engram!WriteFails
<1>2. /\ storing'[w] = [engram |-> None, renamed |-> FALSE]
      /\ \A v \in Goroutines : v # w => storing'[v] = storing[v]
      /\ storing' \in [Goroutines -> [engram : EngramRecords \cup {None}, renamed : BOOLEAN]]
  BY <1>1 DEF EngramInv, EngramTypes, Engram!NotStoring
<1>3. EngramTypes'
  BY <1>1, <1>2 DEF EngramInv, EngramTypes
<1>4. ASSUME NEW id \in Ids \ unsure' PROVE EngramKept(id)'
  <2>1. EngramKept(id)
    BY <1>1, <1>4 DEF EngramInv
  <2>2. \A v \in Goroutines : Storing(v, id)' => v # w /\ Storing(v, id) /\ storing'[v] = storing[v]
    BY <1>2 DEF Storing
  <2>3. \A v \in Goroutines : Storing(v, id) /\ storing[v].renamed =>
          Storing(v, id)' /\ storing'[v].renamed
    BY <1>1, <1>2 DEF Storing
  <2> QED
    BY <1>1, <2>1, <2>2, <2>3 DEF EngramKept, FileIs, IndexIs
<1>5. ClaimsKnown'
  <2>1. ClaimsKnown
    BY DEF EngramInv
  <2>2. \A v \in Goroutines : storing'[v].engram # None => storing'[v].engram = storing[v].engram
    BY <1>2
  <2> QED
    BY <1>1, <2>1, <2>2, ClaimsStay
<1> QED
  BY <1>3, <1>4, <1>5 DEF EngramInv

-----------------------------------------------------------------------------
(* Removals *)

(* The ids are no longer in an index; of each the file has gone from where *)
(* it is looked for, or it stays and is known to be left.                  *)
Removed(ix, ids) ==
  /\ engrams' \in [Ids -> EngramRecords \cup {None}]
  /\ onDisk' \in [Places \X Ids -> EngramRecords \cup {None}]
  /\ \A id \in Ids : engrams'[id] = IF id \in ids THEN None ELSE ix[id]
  /\ \A id \in Ids : \A p \in Places : onDisk'[<<p, id>>] \in {None, onDisk[<<p, id>>]}
  /\ \A id \in Ids \ ids : \A p \in Places : onDisk'[<<p, id>>] = onDisk[<<p, id>>]
  /\ \A id \in Ids \ ids : engrams'[id] = None => (id \in left' <=> id \in left)
  /\ \A id \in ids :
       \/ id \in left' /\ \A p \in Places : onDisk'[<<p, id>>] = onDisk[<<p, id>>]
       \/ \A p \in Places :
            onDisk'[<<p, id>>] = IF p = ix[id].place THEN None ELSE onDisk[<<p, id>>]

LEMMA RemovedIs ==
  ASSUME EngramTypes, NEW known \in [Ids -> EngramRecords \cup {None}], NEW V \in SUBSET Ids,
         Engram!Remove(known, V)
  PROVE  Removed(known, V)
<1>1. PICK stay \in SUBSET {id \in V : onDisk[Engram!FileOf(known, id)] # None} :
        /\ onDisk' = [p \in Places \X Ids |->
                        IF p[2] \in V \ stay /\ p = Engram!FileOf(known, p[2])
                        THEN None ELSE onDisk[p]]
        /\ left' = (left \ V) \cup stay
  BY DEF Engram!Remove
<1>2. engrams' = [id \in Ids |-> IF id \in V THEN None ELSE known[id]]
  BY DEF Engram!Remove
<1>3. onDisk' \in [Places \X Ids -> EngramRecords \cup {None}]
  BY <1>1 DEF EngramTypes
<1>4. \A id \in Ids : \A p \in Places : onDisk'[<<p, id>>] =
        IF id \in V \ stay /\ p = known[id].place THEN None ELSE onDisk[<<p, id>>]
  BY <1>1 DEF Engram!FileOf
<1>5. \A id \in V : id \in stay => id \in left'
  BY <1>1
<1>6. \A id \in Ids \ V : id \in left' <=> id \in left
  BY <1>1
<1>7. engrams' \in [Ids -> EngramRecords \cup {None}]
  BY <1>2
<1>8. \A id \in V :
        \/ id \in left' /\ \A p \in Places : onDisk'[<<p, id>>] = onDisk[<<p, id>>]
        \/ \A p \in Places :
             onDisk'[<<p, id>>] = IF p = known[id].place THEN None ELSE onDisk[<<p, id>>]
  <2> TAKE id \in V
  <2>1. CASE id \in stay
    BY <1>4, <1>5, <2>1
  <2>2. CASE id \notin stay
    BY <1>4, <2>2
  <2> QED
    BY <2>1, <2>2
<1> QED
  BY <1>2, <1>3, <1>4, <1>6, <1>7, <1>8 DEF Removed

(* What is removed was the file, or it is left.                            *)
LEMMA NoFileIndexed ==
  ASSUME NEW id, NEW e \in EngramRecords, FileIs(id, e), NEW place, place = e.place,
         engrams'[id] = None,
         \/ id \in left' /\ \A p \in Places : onDisk'[<<p, id>>] = onDisk[<<p, id>>]
         \/ \A p \in Places :
              onDisk'[<<p, id>>] = IF p = place THEN None ELSE onDisk[<<p, id>>]
  PROVE  \E f \in EngramRecords \cup {None} : FileIs(id, f)' /\ IndexIs(id, f)'
<1>1. CASE id \in left' /\ \A p \in Places : onDisk'[<<p, id>>] = onDisk[<<p, id>>]
  <2>1. FileIs(id, e)' /\ IndexIs(id, e)'
    BY <1>1 DEF FileIs, IndexIs
  <2> QED
    BY <2>1
<1>2. CASE \A p \in Places :
             onDisk'[<<p, id>>] = IF p = place THEN None ELSE onDisk[<<p, id>>]
  <2>1. FileIs(id, None)' /\ IndexIs(id, None)'
    BY <1>2 DEF FileIs, IndexIs
  <2> QED
    BY <2>1
<1> QED
  BY <1>1, <1>2

(* What the files and the index are of an id that nobody else writes.      *)
LEMMA RemovedKept ==
  ASSUME NEW known, NEW V \in SUBSET Ids, Removed(known, V), NEW id \in V,
         \A v \in Goroutines : ~Storing(v, id)',
         NEW e \in EngramRecords, FileIs(id, e), known[id].place = e.place
  PROVE  EngramKept(id)'
<1>1. /\ engrams'[id] = None
      /\ \/ id \in left' /\ \A p \in Places : onDisk'[<<p, id>>] = onDisk[<<p, id>>]
         \/ \A p \in Places :
              onDisk'[<<p, id>>] = IF p = known[id].place THEN None ELSE onDisk[<<p, id>>]
  BY DEF Removed
<1>2. \E f \in EngramRecords \cup {None} : FileIs(id, f)' /\ IndexIs(id, f)'
  BY <1>1, NoFileIndexed
<1> QED
  BY <1>2 DEF EngramKept

LEMMA IndexEngramInv ==
  ASSUME EngramInv, NEW w \in Goroutines, Engram!IndexEngram(w)
  PROVE  EngramInv'
<1> DEFINE e == storing[w].engram
           known == [engrams EXCEPT ![e.id] = e]
           busy(V) == {id \in V : \E v \in Goroutines \ {w} :
                         storing[v].engram # None /\ storing[v].engram.id = id}
<1>1. /\ storing[w].renamed /\ storing' = [storing EXCEPT ![w] = Engram!NotStoring] /\ day' = day
      /\ \/ /\ engrams' = known /\ left' = left \ {e.id} /\ onDisk' = onDisk
            /\ unsure' = unsure
         \/ \E V \in Engram!Victims(known) :
              Engram!Remove(known, V) /\ unsure' = unsure \cup busy(V)
  BY DEF Engram!IndexEngram
<1>2. e \in EngramRecords /\ e # None /\ e.id \in Ids
  BY <1>1 DEF EngramInv, EngramTypes, EngramRecords
<1>3. /\ storing'[w] = [engram |-> None, renamed |-> FALSE]
      /\ \A v \in Goroutines : v # w => storing'[v] = storing[v]
      /\ storing' \in [Goroutines -> [engram : EngramRecords \cup {None}, renamed : BOOLEAN]]
  BY <1>1 DEF EngramInv, EngramTypes, Engram!NotStoring
<1>4. /\ known \in [Ids -> EngramRecords \cup {None}] /\ known[e.id] = e
      /\ \A id \in Ids : id # e.id => known[id] = engrams[id]
      /\ \A id \in Ids : known[id] # None => known[id].id = id
  BY <1>2 DEF EngramInv, EngramTypes
<1>5. Storing(w, e.id)
  BY <1>2 DEF Storing
<1>6. \E V \in SUBSET Ids :
        /\ Removed(known, V) /\ \A id \in V : known[id] # None
        /\ unsure \subseteq unsure'
        /\ \A id \in V \ unsure' : \A v \in Goroutines : v # w => ~Storing(v, id)
  <2> HIDE DEF known
  <2>1. CASE engrams' = known /\ left' = left \ {e.id} /\ onDisk' = onDisk /\ unsure' = unsure
    <3>1. Removed(known, {})
      <4>1. \A id \in Ids : engrams'[id] = None => (id \in left' <=> id \in left)
        BY <1>2, <1>4, <2>1
      <4> QED
        BY <1>4, <2>1, <4>1 DEF EngramInv, EngramTypes, Removed
    <3> WITNESS {} \in SUBSET Ids
    <3> QED
      BY <2>1, <3>1
  <2>2. ASSUME NEW V \in Engram!Victims(known), Engram!Remove(known, V),
               unsure' = unsure \cup busy(V)
        PROVE  /\ V \in SUBSET Ids
               /\ Removed(known, V) /\ \A id \in V : known[id] # None
               /\ unsure \subseteq unsure'
               /\ \A id \in V \ unsure' : \A v \in Goroutines : v # w => ~Storing(v, id)
    <3>1. V \in SUBSET Ids /\ \A id \in V : known[id] # None
      BY <2>2 DEF Engram!Victims
    <3>2. /\ unsure \subseteq unsure'
          /\ \A id \in V \ unsure' : \A v \in Goroutines : v # w => ~Storing(v, id)
      BY <2>2 DEF Storing
    <3>3. EngramTypes /\ known \in [Ids -> EngramRecords \cup {None}]
      BY <1>4 DEF EngramInv
    <3> HIDE DEF busy, e
    <3>4. Removed(known, V)
      BY <2>2, <3>1, <3>3, RemovedIs
    <3> QED
      BY <3>1, <3>2, <3>4
  <2> HIDE DEF busy
  <2> QED
    BY <1>1, <2>1, <2>2
<1> HIDE DEF known, e
<1>7. PICK V \in SUBSET Ids :
        /\ Removed(known, V) /\ \A id \in V : known[id] # None
        /\ unsure \subseteq unsure'
        /\ \A id \in V \ unsure' : \A v \in Goroutines : v # w => ~Storing(v, id)
  BY <1>6
<1>8. EngramTypes'
  <2>1. \A id \in Ids : engrams'[id] # None => engrams'[id].id = id
    BY <1>4, <1>7 DEF Removed
  <2>2. \A id \in Ids : \A p \in Places : onDisk'[<<p, id>>] # None => onDisk'[<<p, id>>].id = id
    BY <1>7 DEF Removed, EngramInv, EngramTypes
  <2>3. \A v \in Goroutines : storing'[v].renamed => storing'[v].engram # None
    BY <1>3 DEF EngramInv, EngramTypes
  <2> QED
    BY <1>1, <1>3, <1>7, <2>1, <2>2, <2>3 DEF EngramInv, EngramTypes, Removed
<1>9. ASSUME NEW id \in Ids \ unsure' PROVE EngramKept(id)'
  <2>1. EngramKept(id)
    BY <1>7, <1>9 DEF EngramInv
  <2>2. \A v \in Goroutines : Storing(v, id)' => v # w /\ Storing(v, id) /\ storing'[v] = storing[v]
    BY <1>3 DEF Storing
  <2>3. id = e.id => FileIs(id, e) /\ \A v \in Goroutines : ~Storing(v, id)'
    BY <1>1, <1>5, <2>1, <2>2 DEF EngramKept, e
  <2>4. CASE id \notin V /\ id = e.id
    <3>1. engrams'[id] = e /\ \A p \in Places : onDisk'[<<p, id>>] = onDisk[<<p, id>>]
      BY <1>4, <1>7, <2>4 DEF Removed
    <3>2. PICK f \in EngramRecords : f = e
      BY <1>2
    <3>3. f # None /\ FileIs(id, f) /\ engrams'[id] = f
      BY <1>2, <2>3, <2>4, <3>1, <3>2
    <3>4. FileIs(id, f)' /\ IndexIs(id, f)'
      BY <3>1, <3>3 DEF FileIs, IndexIs
    <3> QED
      BY <2>3, <2>4, <3>4 DEF EngramKept
  <2>5. CASE id \notin V /\ id # e.id
    <3>1. /\ engrams'[id] = engrams[id]
          /\ engrams[id] = None => (id \in left' <=> id \in left)
          /\ \A p \in Places : onDisk'[<<p, id>>] = onDisk[<<p, id>>]
      BY <1>4, <1>7, <2>5 DEF Removed
    <3>2. ~Storing(w, id)
      BY <2>5 DEF Storing, e
    <3>3. ~Storing(w, id)'
      BY <2>2
    <3> QED
      BY <1>3, <2>1, <3>1, <3>2, <3>3, OtherEngram
  <2>6. CASE id \in V
    <3>1. \A v \in Goroutines : ~Storing(v, id)'
      BY <1>7, <1>9, <2>2, <2>6
    <3>2. \E f \in EngramRecords : FileIs(id, f) /\ known[id].place = f.place
      <4>1. CASE id = e.id
        BY <1>2, <1>4, <2>3, <4>1
      <4>2. CASE id # e.id
        <5>1. \A v \in Goroutines : ~Storing(v, id)
          BY <1>7, <1>9, <2>6, <4>2 DEF Storing, e
        <5>2. PICK f \in EngramRecords \cup {None} : FileIs(id, f) /\ IndexIs(id, f)
          BY <2>1, <5>1 DEF EngramKept
        <5>3. engrams[id] # None /\ known[id] = engrams[id]
          BY <1>4, <1>7, <2>6, <4>2
        <5> QED
          BY <5>2, <5>3 DEF IndexIs
      <4> QED
        BY <4>1, <4>2
    <3> QED
      BY <1>7, <2>6, <3>1, <3>2, RemovedKept
  <2> QED
    BY <2>4, <2>5, <2>6
<1>10. ClaimsKnown'
  <2>1. ClaimsKnown
    BY DEF EngramInv
  <2>2. \A id \in Ids : \A p \in Places : onDisk'[<<p, id>>] # None =>
          onDisk'[<<p, id>>] = onDisk[<<p, id>>]
    BY <1>7 DEF Removed
  <2>3. \A v \in Goroutines : storing'[v].engram # None => storing'[v].engram = storing[v].engram
    BY <1>3
  <2> QED
    BY <1>7, <2>1, <2>2, <2>3, ClaimsStay
<1> QED
  BY <1>8, <1>9, <1>10 DEF EngramInv

LEMMA DeleteInv ==
  ASSUME EngramInv, NEW id \in Ids, Engram!Delete(id)
  PROVE  EngramInv'
<1>1. /\ engrams[id] # None /\ Engram!Remove(engrams, {id})
      /\ unsure' = IF Engram!BeingStored(id) THEN unsure \cup {id} ELSE unsure
      /\ UNCHANGED <<day, storing>>
  BY DEF Engram!Delete
<1>2. Removed(engrams, {id})
  <2>1. {id} \in SUBSET Ids /\ EngramTypes /\ engrams \in [Ids -> EngramRecords \cup {None}]
    BY DEF EngramInv, EngramTypes
  <2> QED
    BY <1>1, <2>1, RemovedIs
<1>3. EngramTypes'
  <2>1. \A d \in Ids : engrams'[d] # None => engrams'[d].id = d
    BY <1>2 DEF Removed, EngramInv, EngramTypes
  <2>2. \A d \in Ids : \A p \in Places : onDisk'[<<p, d>>] # None => onDisk'[<<p, d>>].id = d
    BY <1>2 DEF Removed, EngramInv, EngramTypes
  <2> QED
    BY <1>1, <1>2, <2>1, <2>2 DEF EngramInv, EngramTypes, Removed
<1>4. ASSUME NEW d \in Ids \ unsure' PROVE EngramKept(d)'
  <2>1. EngramKept(d)
    BY <1>1, <1>4 DEF EngramInv
  <2>2. CASE d # id
    <3>1. /\ engrams'[d] = engrams[d]
          /\ engrams[d] = None => (d \in left' <=> d \in left)
          /\ \A p \in Places : onDisk'[<<p, d>>] = onDisk[<<p, d>>]
      BY <1>2, <2>2 DEF Removed
    <3> QED
      BY <1>1, <2>1, <3>1, OtherEngram
  <2>3. CASE d = id
    <3>1. \A v \in Goroutines : ~Storing(v, id) /\ ~Storing(v, id)'
      BY <1>1, <1>4, <2>3 DEF Engram!BeingStored, Storing
    <3>2. PICK f \in EngramRecords \cup {None} : FileIs(id, f) /\ IndexIs(id, f)
      BY <2>1, <2>3, <3>1 DEF EngramKept
    <3>3. f \in EngramRecords /\ engrams[id].place = f.place
      BY <1>1, <3>2 DEF IndexIs
    <3>4. {id} \in SUBSET Ids /\ id \in {id}
      OBVIOUS
    <3>5. EngramKept(id)'
      BY <1>2, <3>1, <3>2, <3>3, <3>4, RemovedKept
    <3> QED
      BY <2>3, <3>5
  <2> QED
    BY <2>2, <2>3
<1>5. ClaimsKnown'
  <2>1. ClaimsKnown /\ unsure \subseteq unsure'
    BY <1>1 DEF EngramInv
  <2>2. \A d \in Ids : \A p \in Places : onDisk'[<<p, d>>] # None =>
          onDisk'[<<p, d>>] = onDisk[<<p, d>>]
    BY <1>2 DEF Removed
  <2> QED
    BY <1>1, <2>1, <2>2, ClaimsStay
<1> QED
  BY <1>3, <1>4, <1>5 DEF EngramInv

-----------------------------------------------------------------------------
(* Load *)

(* Of an id that is sure only its own file is read.                        *)
LEMMA OwnFileFound ==
  ASSUME EngramInv, NEW id \in Ids \ unsure, NEW e \in EngramRecords \cup {None}, FileIs(id, e),
         NEW found, found = {Engram!Parsed(onDisk[q]) :
           q \in {p \in Places \X Ids : onDisk[p] # None /\ Engram!Parsed(onDisk[p]).id = id}}
  PROVE  /\ e = None => found = {}
         /\ e # None /\ e.place \in Places => found = {Engram!Parsed(e)}
                                              /\ Engram!Parsed(e).place = e.place
<1>1. ASSUME NEW p \in Places, NEW d \in Ids, onDisk[<<p, d>>] # None,
             Engram!Parsed(onDisk[<<p, d>>]).id = id
      PROVE  d = id
  <2>1. onDisk[<<p, d>>].id = d /\ Sure(onDisk[<<p, d>>], unsure)
    BY <1>1 DEF EngramInv, EngramTypes, ClaimsKnown
  <2> QED
    BY <1>1, <2>1 DEF Sure, Engram!PathOf
<1>2. \A q \in Places \X Ids : onDisk[q] # None /\ Engram!Parsed(onDisk[q]).id = id =>
        e # None /\ onDisk[q] = e
  <2> TAKE q \in Places \X Ids
  <2> HAVE onDisk[q] # None /\ Engram!Parsed(onDisk[q]).id = id
  <2>1. PICK p \in Places, d \in Ids : q = <<p, d>>
    OBVIOUS
  <2>2. d = id
    BY <1>1, <2>1
  <2> QED
    BY <2>1, <2>2 DEF FileIs
<1>3. ASSUME e # None, e.place \in Places
      PROVE  <<e.place, id>> \in Places \X Ids /\ onDisk[<<e.place, id>>] = e
             /\ Engram!Parsed(e).id = id /\ Engram!Parsed(e).place = e.place
  <2>1. onDisk[<<e.place, id>>] = e
    BY <1>3 DEF FileIs
  <2>2. e.id = id /\ Sure(e, unsure)
    BY <1>3, <2>1 DEF EngramInv, EngramTypes, ClaimsKnown
  <2> QED
    BY <1>3, <2>1, <2>2 DEF Sure, Engram!PathOf
<1>4. e = None => found = {}
  BY <1>2
<1>5. e # None /\ e.place \in Places =>
        found = {Engram!Parsed(e)} /\ Engram!Parsed(e).place = e.place
  <2> HAVE e # None /\ e.place \in Places
  <2>1. Engram!Parsed(e) \in found
    BY <1>3
  <2>2. \A x \in found : x = Engram!Parsed(e)
    BY <1>2
  <2> QED
    BY <1>3, <2>1, <2>2
<1> QED
  BY <1>4, <1>5

LEMMA LoadInv ==
  ASSUME EngramInv, Engram!Restart
  PROVE  EngramInv'
<1> DEFINE found(id) == {Engram!Parsed(onDisk[q]) : q \in {p \in Places \X Ids :
                           onDisk[p] # None /\ Engram!Parsed(onDisk[p]).id = id}}
<1>1. /\ storing' = [w \in Goroutines |-> [engram |-> None, renamed |-> FALSE]]
      /\ engrams' \in [Ids -> {None} \cup UNION {found(id) : id \in Ids}]
      /\ \A id \in Ids : engrams'[id] \in {None} \cup found(id)
      /\ left' = {id \in Ids : engrams'[id] = None /\ found(id) # {}}
      /\ UNCHANGED <<day, onDisk, unsure>>
  BY DEF Engram!Restart, Engram!NotStoring
<1>2. ASSUME NEW id \in Ids
      PROVE  \A x \in found(id) : x \in EngramRecords /\ x.id = id
  <2> TAKE x \in found(id)
  <2>1. PICK q \in Places \X Ids :
          onDisk[q] # None /\ Engram!Parsed(onDisk[q]).id = id /\ x = Engram!Parsed(onDisk[q])
    OBVIOUS
  <2>2. onDisk[q] \in EngramRecords
    BY <2>1 DEF EngramInv, EngramTypes
  <2> QED
    BY <2>1, <2>2, ParsedIs
<1>3. storing' \in [Goroutines -> [engram : EngramRecords \cup {None}, renamed : BOOLEAN]]
      /\ \A w \in Goroutines : storing'[w].engram = None /\ storing'[w].renamed = FALSE
  BY <1>1
<1>4. ASSUME NEW id \in Ids \ unsure, NEW e \in EngramRecords \cup {None}, FileIs(id, e)
      PROVE  /\ e = None => found(id) = {}
             /\ e # None => found(id) = {Engram!Parsed(e)} /\ Engram!Parsed(e).place = e.place
  <2>1. e # None => e.place \in Places
    BY DEF EngramRecords
  <2> QED
    BY <1>4, <2>1, OwnFileFound
<1>5. \A id \in Ids : id \in left' <=> engrams'[id] = None /\ found(id) # {}
  BY <1>1
<1>6. \A id \in Ids : engrams'[id] = None \/ engrams'[id] \in found(id)
  BY <1>1
<1>7. DOMAIN engrams' = Ids /\ engrams' = [id \in Ids |-> engrams'[id]]
  BY <1>1
<1> HIDE DEF found
<1>8. EngramTypes'
  <2>1. day' \in Nat /\ onDisk' \in [Places \X Ids -> EngramRecords \cup {None}]
    BY <1>1 DEF EngramInv, EngramTypes
  <2>2. \A w \in Goroutines : storing'[w].renamed => storing'[w].engram # None
    BY <1>3
  <2>3. \A id \in Ids : \A p \in Places :
          onDisk'[<<p, id>>] # None => onDisk'[<<p, id>>].id = id
    BY <1>1 DEF EngramInv, EngramTypes
  <2>4. \A id \in Ids : engrams'[id] # None => engrams'[id].id = id
    BY <1>2, <1>6
  <2>5. \A id \in Ids : engrams'[id] \in EngramRecords \cup {None}
    BY <1>2, <1>6
  <2>6. engrams' \in [Ids -> EngramRecords \cup {None}]
    BY <1>7, <2>5
  <2> QED
    BY <1>3, <2>1, <2>2, <2>3, <2>4, <2>6 DEF EngramTypes
<1>9. ASSUME NEW id \in Ids \ unsure' PROVE EngramKept(id)'
  <2>0. id \in Ids \ unsure /\ EngramKept(id)
    BY <1>1, <1>9 DEF EngramInv
  <2>1. \A v \in Goroutines : ~Storing(v, id)'
    BY <1>3 DEF Storing
  <2>2. PICK e \in EngramRecords \cup {None} : FileIs(id, e)
    <3>1. CASE \A w \in Goroutines : Storing(w, id) => ~storing[w].renamed
      BY <2>0, <3>1 DEF EngramKept
    <3>2. ASSUME NEW w \in Goroutines, Storing(w, id), storing[w].renamed
          PROVE  storing[w].engram \in EngramRecords \cup {None}
                 /\ FileIs(id, storing[w].engram)
      BY <2>0, <3>2 DEF EngramKept, EngramInv, EngramTypes
    <3> QED
      BY <3>1, <3>2
  <2>3. /\ e = None => found(id) = {}
        /\ e # None => found(id) = {Engram!Parsed(e)} /\ Engram!Parsed(e).place = e.place
    BY <1>4, <2>0, <2>2
  <2>4. FileIs(id, e)'
    BY <1>1, <2>2 DEF FileIs
  <2>5. IndexIs(id, e)'
    <3>1. CASE engrams'[id] = None
      BY <1>5, <2>0, <2>3, <3>1 DEF IndexIs
    <3>2. CASE engrams'[id] # None
      <4>1. engrams'[id] \in found(id) /\ e # None
        BY <1>6, <2>0, <2>3, <3>2
      <4>2. engrams'[id] = Engram!Parsed(e) /\ Engram!Parsed(e).place = e.place
        BY <2>3, <4>1
      <4> QED
        BY <3>2, <4>1, <4>2 DEF IndexIs
    <3> QED
      BY <3>1, <3>2
  <2> QED
    BY <2>1, <2>4, <2>5 DEF EngramKept
<1>10. ClaimsKnown'
  <2>1. ClaimsKnown
    BY DEF EngramInv
  <2> QED
    BY <1>1, <1>3, <2>1, ClaimsStay
<1> QED
  BY <1>8, <1>9, <1>10 DEF EngramInv

LEMMA EngramInvNext == EngramInv /\ [Engram!Next]_engramVars => EngramInv'
<1> SUFFICES ASSUME EngramInv, [Engram!Next]_engramVars PROVE EngramInv'
  OBVIOUS
<1>1. ASSUME UNCHANGED <<engrams, onDisk, storing, left, unsure>>, day' \in Nat PROVE EngramInv'
  <2>1. EngramTypes' /\ ClaimsKnown'
    BY <1>1 DEF EngramInv, EngramTypes, ClaimsKnown, Sure
  <2>2. \A id \in Ids \ unsure : EngramKept(id)'
    <3> TAKE id \in Ids \ unsure
    <3>1. EngramKept(id)
      BY DEF EngramInv
    <3> QED
      BY <1>1, <3>1, OtherEngram
  <2> QED
    BY <1>1, <2>1, <2>2 DEF EngramInv
<1>2. CASE Engram!NextDay
  BY <1>1, <1>2 DEF Engram!NextDay, EngramInv, EngramTypes
<1>3. CASE UNCHANGED engramVars
  BY <1>1, <1>3 DEF engramVars, EngramInv, EngramTypes
<1>4. ASSUME NEW w \in Goroutines, NEW id \in Ids, NEW p \in Places, NEW i \in Importances,
             NEW c \in Contents,
             Engram!BeginWrite(w, [id |-> id, place |-> p, content |-> c, importance |-> i,
                                   accessed |-> day])
      PROVE  EngramInv'
  <2> DEFINE e == [id |-> id, place |-> p, content |-> c, importance |-> i, accessed |-> day]
  <2>1. e \in EngramRecords
    BY DEF EngramRecords, EngramInv, EngramTypes
  <2> HIDE DEF e
  <2>2. Engram!BeginWrite(w, e)
    BY <1>4 DEF e
  <2> QED
    BY <2>1, <2>2, BeginEngramInv
<1> QED
  BY <1>2, <1>3, <1>4, RenameFileInv, WriteFailsInv, IndexEngramInv, DeleteInv, LoadInv
     DEF Engram!Next

LEMMA EngramMatches == EngramInv => Engram!IndexMatchesFiles
<1> SUFFICES ASSUME EngramInv, NEW id \in Ids \ unsure
             PROVE  LET found == {onDisk[<<p, id>>] : p \in Places} \ {None}
                    IN  \/ engrams[id] = None /\ (found = {} \/ id \in left)
                        \/ \E f \in found : /\ found = {f}
                                            /\ engrams[id] \in {f, Engram!Parsed(f)}
                                            /\ engrams[id].place = f.place
                        \/ \E w \in Goroutines : storing[w].renamed /\ found = {storing[w].engram}
  BY DEF Engram!IndexMatchesFiles
<1> DEFINE found == {onDisk[<<p, id>>] : p \in Places} \ {None}
<1>1. EngramKept(id)
  BY DEF EngramInv
<1>2. ASSUME NEW e \in EngramRecords, FileIs(id, e), e # None PROVE found = {e}
  BY <1>2 DEF FileIs, EngramRecords
<1>3. ASSUME FileIs(id, None) PROVE found = {}
  BY <1>3 DEF FileIs
<1>4. CASE \E w \in Goroutines : Storing(w, id) /\ storing[w].renamed
  <2>1. PICK w \in Goroutines : Storing(w, id) /\ storing[w].renamed
    BY <1>4
  <2>2. storing[w].engram \in EngramRecords /\ storing[w].engram # None
    BY <2>1 DEF Storing, EngramInv, EngramTypes
  <2>3. FileIs(id, storing[w].engram)
    BY <1>1, <2>1 DEF EngramKept
  <2> QED
    BY <1>2, <2>1, <2>2, <2>3
<1>5. CASE ~\E w \in Goroutines : Storing(w, id) /\ storing[w].renamed
  <2>1. PICK e \in EngramRecords \cup {None} : FileIs(id, e) /\ IndexIs(id, e)
    BY <1>1, <1>5 DEF EngramKept
  <2> HIDE DEF found
  <2>2. CASE engrams[id] = None
    <3>1. e = None \/ id \in left
      BY <2>1, <2>2 DEF IndexIs
    <3> QED
      BY <1>3, <2>1, <2>2, <3>1 DEF found
  <2>3. CASE engrams[id] # None
    <3>1. /\ e # None /\ engrams[id] \in {e, Engram!Parsed(e)} /\ engrams[id].place = e.place
          /\ e \in EngramRecords
      BY <2>1, <2>3 DEF IndexIs
    <3>2. found = {e} /\ e \in found
      BY <1>2, <2>1, <3>1
    <3> QED
      BY <3>1, <3>2 DEF found
  <2> QED
    BY <2>2, <2>3
<1> QED
  BY <1>4, <1>5
-----------------------------------------------------------------------------
(* The tokens of a text *)

LEMMA FromTheEnd ==
  ASSUME NEW N \in Nat, NEW S, N + 1 \in S,
         \A i \in 1..N : (\A j \in (i + 1)..(N + 1) : j \in S) => i \in S
  PROVE  \A i \in 1..(N + 1) : i \in S
<1> DEFINE out == {k \in 0..N : N + 1 - k \notin S}
<1>1. SUFFICES ASSUME NEW i \in 1..(N + 1), i \notin S PROVE FALSE
  OBVIOUS
<1>2. out \subseteq Nat /\ N + 1 - i \in out
  BY <1>1
<1> HIDE DEF out
<1>3. PICK k \in out : \A m \in out : k <= m
  BY <1>2, LeastNumber
<1>4. k \in 0..N /\ N + 1 - k \notin S /\ k # 0
  BY <1>3 DEF out
<1>5. ASSUME NEW j \in (N + 2 - k)..(N + 1), j \notin S PROVE FALSE
  <2>1. N + 1 - j \in 0..N /\ N + 1 - (N + 1 - j) = j /\ N + 1 - j < k
    BY <1>4, <1>5
  <2>2. N + 1 - j \in out
    BY <1>5, <2>1 DEF out
  <2> QED
    BY <1>3, <1>4, <2>1, <2>2
<1>6. N + 1 - k \in 1..N /\ \A j \in ((N + 1 - k) + 1)..(N + 1) : j \in S
  BY <1>4, <1>5
<1> QED
  BY <1>4, <1>6

(* What a walk returns: f[i] is the walk from the i-th character on.       *)
Walks(f, tokens, width, i) ==
  f[i] = IF i > Len(tokens) THEN <<>> ELSE tokens[i] \o f[i + width[i]]

LEMMA WalkExists ==
  ASSUME NEW X, NEW tokens \in Seq(Seq(X)), NEW width \in [1..Len(tokens) -> Nat],
         \A i \in 1..Len(tokens) : width[i] \in 1..(Len(tokens) + 1 - i)
  PROVE  \E f \in [1..(Len(tokens) + 1) -> Seq(X)] :
           \A i \in 1..(Len(tokens) + 1) : Walks(f, tokens, width, i)
<1> DEFINE N == Len(tokens)
           fs == [1..(N + 1) -> Seq(X)]
           S == {i \in 1..(N + 1) : \E f \in fs : \A j \in i..(N + 1) : Walks(f, tokens, width, j)}
<1>1. N \in Nat /\ <<>> \in Seq(X)
  OBVIOUS
<1>2. N + 1 \in S
  <2> DEFINE g == [i \in 1..(N + 1) |-> <<>>]
  <2>1. g \in fs
    BY <1>1
  <2>2. \A j \in (N + 1)..(N + 1) : j > N /\ g[j] = <<>>
    BY <1>1
  <2>3. \A j \in (N + 1)..(N + 1) : Walks(g, tokens, width, j)
    BY <2>2 DEF Walks
  <2>4. N + 1 \in 1..(N + 1)
    BY <1>1
  <2> QED
    BY <2>1, <2>3, <2>4
<1>3. ASSUME NEW i \in 1..N, \A j \in (i + 1)..(N + 1) : j \in S PROVE i \in S
  <2>1. i + 1 \in (i + 1)..(N + 1) /\ i \in 1..(N + 1)
    BY <1>1
  <2>2. PICK f \in fs : \A j \in (i + 1)..(N + 1) : Walks(f, tokens, width, j)
    BY <1>3, <2>1
  <2>3. width[i] \in Nat /\ i + width[i] \in (i + 1)..(N + 1)
    BY <1>1
  <2>4. tokens[i] \in Seq(X) /\ f[i + width[i]] \in Seq(X)
    BY <1>1, <2>3
  <2> DEFINE s == tokens[i] \o f[i + width[i]]
             g == [f EXCEPT ![i] = s]
  <2>5. s \in Seq(X)
    BY <2>4
  <2>6. g \in fs /\ g[i] = s /\ \A j \in (i + 1)..(N + 1) : g[j] = f[j]
    <3> HIDE DEF s
    <3> QED
      BY <1>1, <2>1, <2>5
  <2>7. ASSUME NEW j \in i..(N + 1) PROVE Walks(g, tokens, width, j)
    <3> HIDE DEF g
    <3>1. CASE j = i
      <4>1. g[i + width[i]] = f[i + width[i]] /\ ~(i > Len(tokens))
        BY <1>1, <2>3, <2>6
      <4> QED
        BY <2>6, <3>1, <4>1 DEF Walks
    <3>2. CASE j # i
      <4>1. j \in (i + 1)..(N + 1)
        BY <1>1, <3>2
      <4>2. Walks(f, tokens, width, j) /\ g[j] = f[j]
        BY <2>2, <2>6, <4>1
      <4>3. CASE j > Len(tokens)
        BY <4>2, <4>3 DEF Walks
      <4>4. CASE ~(j > Len(tokens))
        <5>1. j + width[j] \in (i + 1)..(N + 1)
          BY <1>1, <4>1, <4>4
        <5> QED
          BY <2>6, <4>2, <5>1 DEF Walks
      <4> QED
        BY <4>3, <4>4
    <3> QED
      BY <3>1, <3>2
  <2> HIDE DEF g
  <2> QED
    BY <2>1, <2>6, <2>7
<1> HIDE DEF S
<1>4. \A i \in 1..(N + 1) : i \in S
  BY <1>1, <1>2, <1>3, FromTheEnd
<1>5. 1 \in S
  BY <1>1, <1>4
<1> QED
  BY <1>5 DEF S

LEMMA WalkIs ==
  ASSUME NEW X, NEW tokens \in Seq(Seq(X)), NEW width \in [1..Len(tokens) -> Nat],
         \A i \in 1..Len(tokens) : width[i] \in 1..(Len(tokens) + 1 - i)
  PROVE  \E f \in [1..(Len(tokens) + 1) -> Seq(X)] :
           /\ \A i \in 1..(Len(tokens) + 1) : Walks(f, tokens, width, i)
           /\ Search!Walk(tokens, width) = f[1]
<1> DEFINE N == Len(tokens)
           is(f) == f = [i \in 1..(Len(tokens) + 1) |->
                           IF i > Len(tokens) THEN <<>> ELSE tokens[i] \o f[i + width[i]]]
           g == CHOOSE f : is(f)
<1>1. PICK f \in [1..(N + 1) -> Seq(X)] : \A i \in 1..(N + 1) : Walks(f, tokens, width, i)
  BY WalkExists
<1>2. is(f)
  BY <1>1 DEF Walks
<1>3. Search!Walk(tokens, width) = g[1]
  BY DEF Search!Walk
<1>4. is(g)
  <2> HIDE DEF is
  <2> QED
    BY <1>2
<1>5. \A i \in 1..(N + 1) : g[i] = IF i > N THEN <<>> ELSE tokens[i] \o g[i + width[i]]
  <2> HIDE DEF g
  <2> QED
    BY <1>4
<1> HIDE DEF g, is
<1> DEFINE S == {i \in 1..(N + 1) : g[i] = f[i]}
<1>6. N \in Nat
  OBVIOUS
<1>7. N + 1 \in S
  <2>1. N + 1 \in 1..(N + 1) /\ N + 1 > N
    BY <1>6
  <2>2. g[N + 1] = <<>>
    BY <1>5, <2>1
  <2>3. f[N + 1] = <<>>
    BY <1>1, <2>1 DEF Walks
  <2> QED
    BY <2>1, <2>2, <2>3
<1>8. ASSUME NEW i \in 1..N, \A j \in (i + 1)..(N + 1) : j \in S PROVE i \in S
  <2>1. i + width[i] \in (i + 1)..(N + 1) /\ i \in 1..(N + 1) /\ ~(i > N)
    BY <1>6
  <2>2. g[i + width[i]] = f[i + width[i]]
    BY <1>8, <2>1
  <2> QED
    BY <1>1, <1>5, <2>1, <2>2 DEF Walks
<1> HIDE DEF S
<1>9. \A i \in 1..(N + 1) : i \in S
  BY <1>6, <1>7, <1>8, FromTheEnd
<1>10. g[1] = f[1]
  BY <1>6, <1>9 DEF S
<1> QED
  BY <1>1, <1>3, <1>10
-----------------------------------------------------------------------------
Elems(s) == {s[i] : i \in DOMAIN s}

LEMMA ElemsOfBoth ==
  ASSUME NEW X, NEW s \in Seq(X), NEW t \in Seq(X)
  PROVE  Elems(s) \subseteq Elems(s \o t) /\ Elems(t) \subseteq Elems(s \o t)
<1>1. Len(s) \in Nat /\ Len(t) \in Nat /\ DOMAIN s = 1..Len(s) /\ DOMAIN t = 1..Len(t)
  OBVIOUS
<1>2. /\ DOMAIN (s \o t) = 1..(Len(s) + Len(t))
      /\ \A i \in 1..Len(s) : (s \o t)[i] = s[i]
      /\ \A i \in 1..Len(t) : (s \o t)[Len(s) + i] = t[i]
  OBVIOUS
<1> DEFINE st == s \o t
<1> HIDE DEF st
<1>3. \A i \in 1..Len(s) : i \in DOMAIN st /\ st[i] = s[i]
  BY <1>1, <1>2 DEF st
<1>4. \A i \in 1..Len(t) : Len(s) + i \in DOMAIN st /\ st[Len(s) + i] = t[i]
  BY <1>1, <1>2 DEF st
<1>5. Elems(s) \subseteq Elems(st) /\ Elems(t) \subseteq Elems(st)
  BY <1>1, <1>3, <1>4 DEF Elems
<1> QED
  BY <1>5 DEF st

(* A walk that goes on to the next character returns all there is.         *)
LEMMA WalkOfAll ==
  ASSUME NEW X, NEW tokens \in Seq(Seq(X)), NEW n \in 1..Len(tokens)
  PROVE  Elems(tokens[n]) \subseteq Elems(Search!Walk(tokens, [i \in 1..Len(tokens) |-> 1]))
<1> DEFINE N == Len(tokens)
           width == [i \in 1..N |-> 1]
<1>1. N \in Nat
  OBVIOUS
<1>2. width \in [1..N -> Nat] /\ \A i \in 1..N : width[i] = 1
  OBVIOUS
<1>3. \A i \in 1..N : width[i] \in 1..(N + 1 - i)
  BY <1>1, <1>2
<1> HIDE DEF width
<1>4. PICK f \in [1..(N + 1) -> Seq(X)] :
        /\ \A i \in 1..(N + 1) : Walks(f, tokens, width, i)
        /\ Search!Walk(tokens, width) = f[1]
  BY <1>2, <1>3, WalkIs
<1> DEFINE S == {i \in 1..(N + 1) : i <= n => Elems(tokens[n]) \subseteq Elems(f[i])}
<1>5. N + 1 \in S
  BY <1>1
<1>6. ASSUME NEW i \in 1..N, \A j \in (i + 1)..(N + 1) : j \in S PROVE i \in S
  <2>1. i \in 1..(N + 1) /\ i + 1 \in 1..(N + 1) /\ i + 1 \in (i + 1)..(N + 1)
    BY <1>1
  <2>2. Walks(f, tokens, width, i)
    BY <1>4, <2>1
  <2>3. f[i] = IF i > N THEN <<>> ELSE tokens[i] \o f[i + width[i]]
    BY <2>2 DEF Walks
  <2>4. f[i] = tokens[i] \o f[i + 1]
    <3>1. ~(i > N) /\ width[i] = 1
      BY <1>1, <1>2
    <3> HIDE DEF N
    <3> QED
      BY <2>3, <3>1
  <2>5. tokens[i] \in Seq(X) /\ f[i + 1] \in Seq(X)
    <3>1. f[i + 1] \in Seq(X)
      BY <1>4, <2>1
    <3>2. tokens[i] \in Seq(X)
      OBVIOUS
    <3> QED
      BY <3>1, <3>2
  <2>6. Elems(tokens[i]) \subseteq Elems(f[i]) /\ Elems(f[i + 1]) \subseteq Elems(f[i])
    BY <2>4, <2>5, ElemsOfBoth
  <2>7. CASE i < n
    <3>1. i + 1 \in S
      BY <1>6, <2>1
    <3>2. i + 1 <= n
      <4>1. i \in Nat /\ n \in Nat
        BY <1>1
      <4> HIDE DEF S, N
      <4> QED
        BY <2>7, <4>1
    <3>3. Elems(tokens[n]) \subseteq Elems(f[i + 1])
      BY <3>1, <3>2
    <3> QED
      BY <2>1, <2>6, <3>3
  <2>8. CASE i = n
    BY <2>1, <2>6, <2>8
  <2>9. CASE i > n
    BY <2>1, <2>9
  <2> QED
    BY <1>1, <2>7, <2>8, <2>9
<1> HIDE DEF S
<1>7. \A i \in 1..(N + 1) : i \in S
  BY <1>1, <1>5, <1>6, FromTheEnd
<1>8. 1 \in S /\ 1 <= n
  BY <1>1, <1>7
<1>9. Elems(tokens[n]) \subseteq Elems(f[1])
  BY <1>8 DEF S
<1> QED
  BY <1>4, <1>9 DEF width

(* Tokenize: the characters that are Chinese or words, and no others.      *)
LEMMA TokenizeIs ==
  ASSUME NEW Y, NEW text \in Seq(Y)
  PROVE  /\ Search!Tokenize(text) \in Seq(Search!Chars)
         /\ Elems(Search!Tokenize(text)) = {text[i] : i \in 1..Len(text)} \cap Search!Chars
<1> DEFINE C == {text[i] : i \in 1..Len(text)} \cap Search!Chars
           tokens == [i \in 1..Len(text) |->
                        IF text[i] \in Han \cup Latin THEN <<text[i]>> ELSE <<>>]
           width == [i \in 1..Len(text) |-> 1]
           walk == Search!Walk(tokens, width)
<1>1. Len(text) \in Nat
  OBVIOUS
<1>2. Search!Tokenize(text) = walk
  BY DEF Search!Tokenize
<1>3. \A i \in 1..Len(text) :
        tokens[i] = IF text[i] \in Search!Chars THEN <<text[i]>> ELSE <<>>
  BY DEF Search!Chars
<1>4. \A i \in 1..Len(text) : tokens[i] \in Seq(C)
  <2> TAKE i \in 1..Len(text)
  <2>1. CASE text[i] \in Search!Chars
    <3>1. tokens[i] = <<text[i]>> /\ text[i] \in C
      BY <1>3, <2>1
    <3> HIDE DEF tokens, C
    <3> QED
      BY <3>1
  <2>2. CASE text[i] \notin Search!Chars
    <3>1. tokens[i] = <<>>
      BY <1>3, <2>2
    <3> HIDE DEF tokens, C
    <3> QED
      BY <3>1
  <2> QED
    BY <2>1, <2>2
<1>5. tokens \in Seq(Seq(C)) /\ Len(tokens) = Len(text)
  <2>1. tokens \in [1..Len(text) -> Seq(C)]
    BY <1>4
  <2> HIDE DEF tokens, C
  <2> QED
    BY <1>1, <2>1
<1>6. width \in [1..Len(tokens) -> Nat]
      /\ \A i \in 1..Len(tokens) : width[i] \in 1..(Len(tokens) + 1 - i)
  <2> HIDE DEF tokens
  <2> QED
    BY <1>1, <1>5
<1>7. walk \in Seq(C)
  <2> HIDE DEF tokens, C, width
  <2>1. PICK f \in [1..(Len(tokens) + 1) -> Seq(C)] : walk = f[1]
    BY <1>5, <1>6, WalkIs
  <2>2. 1 \in 1..(Len(tokens) + 1)
    BY <1>1, <1>5
  <2> QED
    BY <2>1, <2>2
<1>8. Elems(walk) \subseteq C
  <2> HIDE DEF walk, C
  <2> QED
    BY <1>7 DEF Elems
<1>9. ASSUME NEW i \in 1..Len(text), text[i] \in Search!Chars PROVE text[i] \in Elems(walk)
  <2>1. tokens[i] = <<text[i]>>
    BY <1>3, <1>9
  <2>2. text[i] \in Elems(tokens[i])
    <3> HIDE DEF tokens
    <3> QED
      BY <2>1 DEF Elems
  <2>3. width = [j \in 1..Len(tokens) |-> 1]
    BY <1>5
  <2> HIDE DEF tokens, C, width
  <2>4. Elems(tokens[i]) \subseteq Elems(walk)
    BY <1>5, <2>3, WalkOfAll
  <2> QED
    BY <2>2, <2>4
<1>10. walk \in Seq(Search!Chars)
  <2>1. C \subseteq Search!Chars
    OBVIOUS
  <2> HIDE DEF walk, C
  <2> QED
    BY <1>7, <2>1
<1>11. Elems(walk) = C
  <2> HIDE DEF walk
  <2> QED
    BY <1>8, <1>9
<1> QED
  BY <1>2, <1>10, <1>11
-----------------------------------------------------------------------------
LEMMA GreatestNumber ==
  ASSUME NEW b \in Nat, NEW T, T \subseteq 1..b, T # {}
  PROVE  \E n \in T : \A m \in T : m <= n
<1> DEFINE U == {b - n : n \in T}
<1>1. U \subseteq Nat /\ U # {}
  <2>1. \A n \in T : b - n \in Nat
    OBVIOUS
  <2> QED
    BY <2>1
<1> HIDE DEF U
<1>2. PICK k \in U : \A m \in U : k <= m
  BY <1>1, LeastNumber
<1>3. PICK n \in T : k = b - n
  BY <1>2 DEF U
<1>4. ASSUME NEW m \in T PROVE m <= n
  <2>1. b - m \in U
    BY DEF U
  <2>2. b - n <= b - m /\ m \in Nat /\ n \in Nat
    BY <1>2, <1>3, <2>1
  <2> QED
    BY <2>2
<1> QED
  BY <1>3, <1>4

LEMMA MaxLengthNat == Search!MaxLength \in Nat
<1> DEFINE is(n) == \A d \in Dict : n >= Len(d) /\ n >= 4
           lengths == {4} \cup {Len(d) : d \in Dict}
<1>1. \A d \in Dict : Len(d) \in Nat
  BY TextAssumption
<1>2. PICK w \in Dict \cup {<<>>} : \A v \in Dict : Len(v) <= Len(w)
  BY TextAssumption
<1>3. Len(w) \in Nat
  BY <1>1
<1>4. \E n \in lengths : is(n)
  <2>1. CASE Len(w) <= 4
    <3>1. is(4)
      BY <1>1, <1>2, <1>3, <2>1
    <3> QED
      BY <3>1
  <2>2. CASE Len(w) > 4
    <3>1. is(Len(w))
      BY <1>1, <1>2, <1>3, <2>2
    <3>2. w \in Dict
      BY <2>2
    <3> QED
      BY <3>1, <3>2
  <2> QED
    BY <1>3, <2>1, <2>2
<1>5. Search!MaxLength = CHOOSE n \in lengths : is(n)
  BY DEF Search!MaxLength
<1>6. lengths \subseteq Nat
  BY <1>1
<1> HIDE DEF is, lengths
<1> QED
  BY <1>4, <1>5, <1>6

(* A match begins where it is looked for and ends in the text.             *)
LEMMA MatchInText ==
  ASSUME NEW Y, NEW text \in Seq(Y), NEW i \in 1..Len(text)
  PROVE  Search!MatchAt(text, i) \in 1..(Len(text) + 1 - i)
<1> DEFINE room == Len(text) - i + 1
           most == Search!MinLength(Search!MaxLength, room)
           fits == {n \in 1..most : SubSeq(text, i, i + n - 1) \in Dict}
<1>1. Len(text) \in Nat /\ room \in Nat /\ room >= 1 /\ room = Len(text) + 1 - i
  OBVIOUS
<1>2. most \in Nat /\ most <= room
  <2> HIDE DEF room
  <2> QED
    BY <1>1, MaxLengthNat DEF Search!MinLength
<1>3. Search!MatchAt(text, i) = IF fits = {} THEN 1 ELSE CHOOSE n \in fits : \A m \in fits : m <= n
  BY DEF Search!MatchAt
<1>4. fits \subseteq 1..most
  OBVIOUS
<1>5. CASE fits = {}
  <2> HIDE DEF room, fits, most
  <2> QED
    BY <1>1, <1>3, <1>5
<1>6. CASE fits # {}
  <2> HIDE DEF room, fits, most
  <2>1. \E n \in fits : \A m \in fits : m <= n
    BY <1>2, <1>4, <1>6, GreatestNumber
  <2>2. Search!MatchAt(text, i) \in fits
    BY <1>3, <1>6, <2>1
  <2>3. Search!MatchAt(text, i) \in 1..most
    BY <1>4, <2>2
  <2>4. Search!MatchAt(text, i) \in 1..room
    BY <1>1, <1>2, <2>3
  <2> QED
    BY <1>1, <2>4
<1> QED
  BY <1>5, <1>6

(* A token of Segment is the stem of a word, or begins with its character. *)
HeadedBy(token, c) ==
  \/ c \in Han /\ token[1] = c
  \/ c \in Latin /\ token = <<Stem[c]>>

LEMMA SegmentIs ==
  ASSUME NEW Y, NEW text \in Seq(Y)
  PROVE  \E X : /\ Search!Segment(text) \in Seq(X)
                /\ \A token \in X : \E i \in 1..Len(text) : HeadedBy(token, text[i])
<1> DEFINE N == Len(text)
           word(i) == SubSeq(text, i, i + Search!MatchAt(text, i) - 1)
           X == {word(i) : i \in {j \in 1..N : text[j] \in Han}}
                  \cup {<<Stem[text[i]]>> : i \in {j \in 1..N : text[j] \in Latin}}
           tokens == [i \in 1..Len(text) |-> Search!TokensAt(text, i)]
           width == [i \in 1..Len(text) |-> Search!Width(text, i)]
<1>1. N \in Nat
  OBVIOUS
<1>2. Search!Segment(text) = Search!Walk(tokens, width)
  BY DEF Search!Segment
<1>3. ASSUME NEW i \in 1..N, text[i] \in Han PROVE word(i)[1] = text[i]
  <2> DEFINE m == Search!MatchAt(text, i)
  <2>1. m \in 1..(N + 1 - i)
    BY MatchInText
  <2> HIDE DEF m
  <2>2. i \in 1..(N + 1) /\ i + m - 1 \in i..N
    BY <1>1, <2>1
  <2>3. SubSeq(text, i, i + m - 1)[1] = text[i]
    BY <1>1, <2>2
  <2> QED
    BY <2>3 DEF m
<1>4. ASSUME NEW token \in X PROVE \E i \in 1..N : HeadedBy(token, text[i])
  <2>1. CASE \E i \in 1..N : text[i] \in Han /\ token = word(i)
    <3> HIDE DEF word
    <3> QED
      BY <1>3, <2>1 DEF HeadedBy
  <2>2. CASE \E i \in 1..N : text[i] \in Latin /\ token = <<Stem[text[i]]>>
    BY <2>2 DEF HeadedBy
  <2> QED
    BY <1>4, <2>1, <2>2
<1>5. \A i \in 1..N : tokens[i] \in Seq(X)
  <2> TAKE i \in 1..N
  <2>1. tokens[i] = IF text[i] \in Han THEN <<word(i)>>
                    ELSE IF text[i] \in Latin THEN <<<<Stem[text[i]]>>>> ELSE <<>>
    BY DEF Search!TokensAt
  <2>2. text[i] \in Han => word(i) \in X
    <3> HIDE DEF word
    <3> QED
      OBVIOUS
  <2>3. text[i] \in Latin => <<Stem[text[i]]>> \in X
    OBVIOUS
  <2> HIDE DEF X, word, tokens
  <2> QED
    BY <2>1, <2>2, <2>3
<1>6. tokens \in Seq(Seq(X)) /\ Len(tokens) = N
  <2>1. tokens \in [1..N -> Seq(X)]
    BY <1>5
  <2> HIDE DEF tokens, X, N
  <2> QED
    BY <1>1, <2>1
<1>7. \A i \in 1..N : width[i] \in 1..(N + 1 - i)
  <2> TAKE i \in 1..N
  <2>1. width[i] = IF text[i] \in Han THEN Search!MatchAt(text, i) ELSE 1
    BY DEF Search!Width
  <2>2. Search!MatchAt(text, i) \in 1..(N + 1 - i)
    BY MatchInText
  <2> HIDE DEF width
  <2> QED
    BY <1>1, <2>1, <2>2
<1>8. width \in [1..Len(tokens) -> Nat]
      /\ \A i \in 1..Len(tokens) : width[i] \in 1..(Len(tokens) + 1 - i)
  <2>1. width = [i \in 1..N |-> width[i]]
    OBVIOUS
  <2> HIDE DEF tokens, width, N
  <2> QED
    BY <1>1, <1>6, <1>7, <2>1
<1> HIDE DEF X, tokens, width
<1>9. Search!Walk(tokens, width) \in Seq(X)
  <2>1. PICK f \in [1..(Len(tokens) + 1) -> Seq(X)] : Search!Walk(tokens, width) = f[1]
    BY <1>6, <1>8, WalkIs
  <2>2. 1 \in 1..(Len(tokens) + 1)
    BY <1>1, <1>6
  <2> QED
    BY <2>1, <2>2
<1> QED
  BY <1>2, <1>4, <1>9
-----------------------------------------------------------------------------
(* Search: what the indexes count *)

IndexedTexts == [DocIds -> Documents \cup {None}]

SearchTypes ==
  /\ docs \in IndexedTexts /\ docMeta \in IndexedTexts
  /\ files \in [Search!Indexes -> IndexedTexts]
  /\ saving \in [Search!Indexes -> IndexedTexts \cup {None}]
  /\ index \in [Search!Chars -> [DocIds -> Nat]]
  /\ termDocFreq \in [Search!Tokens -> [DocIds -> Nat]]
  /\ docLen \in [DocIds -> Nat \cup {None}]

SearchInv == SearchTypes /\ Search!IndexMatchesDocs

LEMMA SearchCardinality == ASSUME NEW S PROVE Search!Cardinality(S) = Cardinality(S)
BY DEF Cardinality, Search!Cardinality

LEMMA CountIs ==
  ASSUME NEW X, NEW s \in Seq(X), NEW t
  PROVE  Search!Count(s, t) \in Nat /\ (Search!Count(s, t) > 0 <=> t \in Elems(s))
<1> DEFINE at == {i \in DOMAIN s : s[i] = t}
<1>1. Search!Count(s, t) = Cardinality(at)
  BY SearchCardinality DEF Search!Count
<1>2. DOMAIN s = 1..Len(s) /\ Len(s) \in Nat
  OBVIOUS
<1>3. IsFiniteSet(1..Len(s)) /\ at \subseteq 1..Len(s)
  BY <1>2, FS_Interval
<1>4. IsFiniteSet(at) /\ Cardinality(at) \in Nat
  BY <1>3, FS_Subset, FS_CardinalityType
<1>5. Cardinality(at) = 0 <=> at = {}
  BY <1>4, FS_EmptySet
<1>6. t \in Elems(s) <=> at # {}
  BY DEF Elems
<1> HIDE DEF at
<1> QED
  BY <1>1, <1>4, <1>5, <1>6

(* The tokens of a text that is indexed.                                   *)
LEMMA TextTokens ==
  ASSUME NEW t \in Documents \cup Queries
  PROVE  /\ \E X : Search!Segment(t) \in Seq(X)
         /\ \E X : Search!Tokenize(t) \in Seq(X)
         /\ Len(Search!Segment(t)) \in Nat
<1>1. t \in Seq({t[i] : i \in DOMAIN t})
  BY TextAssumption
<1>2. \E X : Search!Segment(t) \in Seq(X)
  BY <1>1, SegmentIs
<1>3. \E X : Search!Tokenize(t) \in Seq(X)
  BY <1>1, TokenizeIs
<1> QED
  BY <1>2, <1>3

LEMMA CountedIndex ==
  ASSUME NEW T, NEW ix \in [T -> [DocIds -> Nat]], NEW d \in DocIds, NEW X, NEW s \in Seq(X),
         \A t \in T : ix[t][d] = 0
  PROVE  /\ Search!CountTokens(ix, d, s) \in [T -> [DocIds -> Nat]]
         /\ \A t \in T : /\ Search!CountTokens(ix, d, s)[t][d] = Search!Count(s, t)
                         /\ \A e \in DocIds \ {d} : Search!CountTokens(ix, d, s)[t][e] = ix[t][e]
<1>1. Search!CountTokens(ix, d, s) =
        [t \in T |-> [ix[t] EXCEPT ![d] = ix[t][d] + Search!Count(s, t)]]
  BY DEF Search!CountTokens
<1>2. \A t \in T : Search!Count(s, t) \in Nat /\ ix[t][d] + Search!Count(s, t) = Search!Count(s, t)
  BY CountIs
<1>3. \A t \in T : [ix[t] EXCEPT ![d] = ix[t][d] + Search!Count(s, t)] \in [DocIds -> Nat]
  BY <1>2
<1> QED
  BY <1>1, <1>2, <1>3

LEMMA ForgottenIndex ==
  ASSUME NEW T, NEW ix \in [T -> [DocIds -> Nat]], NEW d \in DocIds, NEW X, NEW s \in Seq(X),
         \A t \in T : ix[t][d] = Search!Count(s, t)
  PROVE  /\ Search!Forget(ix, d, s) \in [T -> [DocIds -> Nat]]
         /\ \A t \in T : /\ Search!Forget(ix, d, s)[t][d] = 0
                         /\ \A e \in DocIds \ {d} : Search!Forget(ix, d, s)[t][e] = ix[t][e]
<1>1. Search!Forget(ix, d, s) =
        [t \in T |-> IF Search!Count(s, t) > 0 THEN [ix[t] EXCEPT ![d] = 0] ELSE ix[t]]
  BY DEF Search!Forget
<1>2. \A t \in T : Search!Count(s, t) \in Nat
  BY CountIs
<1>3. \A t \in T : [ix[t] EXCEPT ![d] = 0] \in [DocIds -> Nat] /\ ix[t] \in [DocIds -> Nat]
  OBVIOUS
<1>4. \A t \in T : ~(Search!Count(s, t) > 0) => ix[t][d] = 0
  BY <1>2
<1>5. Search!Forget(ix, d, s) \in [T -> [DocIds -> Nat]]
  BY <1>1, <1>3
<1>6. ASSUME NEW t \in T
      PROVE  /\ Search!Forget(ix, d, s)[t][d] = 0
             /\ \A e \in DocIds \ {d} : Search!Forget(ix, d, s)[t][e] = ix[t][e]
  <2>1. CASE Search!Count(s, t) > 0
    BY <1>1, <2>1
  <2>2. CASE ~(Search!Count(s, t) > 0)
    BY <1>1, <1>4, <2>2
  <2> QED
    BY <2>1, <2>2
<1> QED
  BY <1>5, <1>6

LEMMA SearchInvInit == Search!Init => SearchInv
<1> SUFFICES ASSUME Search!Init PROVE SearchInv
  OBVIOUS
<1>1. /\ docs = [d \in DocIds |-> None] /\ docMeta = docs /\ docLen = docs
      /\ index = [t \in Search!Chars |-> [d \in DocIds |-> 0]]
      /\ termDocFreq = [t \in Search!Tokens |-> [d \in DocIds |-> 0]]
      /\ files = [x \in Search!Indexes |-> docs] /\ saving = [x \in Search!Indexes |-> None]
      /\ totalDocs = 0
  BY DEF Search!Init, Search!NoDocs, Search!Zero
<1>2. SearchTypes
  BY <1>1 DEF SearchTypes, IndexedTexts
<1>3. Search!Present(docMeta) = {}
  BY <1>1 DEF Search!Present
<1>4. totalDocs = Search!Cardinality(Search!Present(docMeta))
  BY <1>1, <1>3, SearchCardinality, FS_EmptySet
<1> QED
  BY <1>1, <1>2, <1>4 DEF SearchInv, Search!IndexMatchesDocs

LEMMA IndexDocInv ==
  ASSUME SearchInv, NEW d \in DocIds, NEW text \in Documents, Search!IndexDoc(d, text)
  PROVE  SearchInv'
<1> DEFINE old == docs[d]
           oldMeta == docMeta[d]
           ix == IF old = None THEN index ELSE Search!Forget(index, d, Search!Tokenize(old))
           freq == IF oldMeta = None THEN termDocFreq
                   ELSE Search!Forget(termDocFreq, d, Search!Segment(oldMeta))
<1>1. /\ docs' = [docs EXCEPT ![d] = text] /\ docMeta' = [docMeta EXCEPT ![d] = text]
      /\ index' = Search!CountTokens(ix, d, Search!Tokenize(text))
      /\ termDocFreq' = Search!CountTokens(freq, d, Search!Segment(text))
      /\ docLen' = [docLen EXCEPT ![d] = Len(Search!Segment(text))]
      /\ UNCHANGED <<files, saving>>
  BY DEF Search!IndexDoc
<1>2. totalDocs' = Search!Cardinality(Search!Present(docLen'))
  BY DEF Search!IndexDoc, Search!RecomputeAvgLen
<1>3. old \in Documents \cup {None} /\ oldMeta \in Documents \cup {None}
  BY DEF SearchInv, SearchTypes, IndexedTexts
<1>4. /\ ix \in [Search!Chars -> [DocIds -> Nat]]
      /\ \A t \in Search!Chars : /\ ix[t][d] = 0
                                 /\ \A e \in DocIds \ {d} : ix[t][e] = index[t][e]
  <2>1. CASE old = None
    BY <2>1 DEF SearchInv, SearchTypes, Search!IndexMatchesDocs
  <2>2. CASE old # None
    <3>1. PICK X : Search!Tokenize(old) \in Seq(X)
      BY <1>3, <2>2, TextTokens
    <3>2. \A t \in Search!Chars : index[t][d] = Search!Count(Search!Tokenize(old), t)
      BY <2>2 DEF SearchInv, Search!IndexMatchesDocs
    <3>3. index \in [Search!Chars -> [DocIds -> Nat]]
      BY DEF SearchInv, SearchTypes
    <3> HIDE DEF old
    <3> QED
      BY <2>2, <3>1, <3>2, <3>3, ForgottenIndex
  <2> QED
    BY <2>1, <2>2
<1>5. /\ freq \in [Search!Tokens -> [DocIds -> Nat]]
      /\ \A t \in Search!Tokens : /\ freq[t][d] = 0
                                  /\ \A e \in DocIds \ {d} : freq[t][e] = termDocFreq[t][e]
  <2>1. CASE oldMeta = None
    BY <2>1 DEF SearchInv, SearchTypes, Search!IndexMatchesDocs
  <2>2. CASE oldMeta # None
    <3>1. PICK X : Search!Segment(oldMeta) \in Seq(X)
      BY <1>3, <2>2, TextTokens
    <3>2. \A t \in Search!Tokens : termDocFreq[t][d] = Search!Count(Search!Segment(oldMeta), t)
      BY <2>2 DEF SearchInv, Search!IndexMatchesDocs
    <3>3. termDocFreq \in [Search!Tokens -> [DocIds -> Nat]]
      BY DEF SearchInv, SearchTypes
    <3> HIDE DEF oldMeta
    <3> QED
      BY <2>2, <3>1, <3>2, <3>3, ForgottenIndex
  <2> QED
    BY <2>1, <2>2
<1> HIDE DEF ix, freq
<1>6. PICK X : Search!Tokenize(text) \in Seq(X)
  BY TextTokens
<1>7. PICK Y : Search!Segment(text) \in Seq(Y)
  BY TextTokens
<1>8. /\ index' \in [Search!Chars -> [DocIds -> Nat]]
      /\ \A t \in Search!Chars :
           /\ index'[t][d] = Search!Count(Search!Tokenize(text), t)
           /\ \A e \in DocIds \ {d} : index'[t][e] = index[t][e]
  <2>1. ix \in [Search!Chars -> [DocIds -> Nat]] /\ \A t \in Search!Chars : ix[t][d] = 0
    BY <1>4
  <2>2. /\ index' \in [Search!Chars -> [DocIds -> Nat]]
        /\ \A t \in Search!Chars :
             /\ index'[t][d] = Search!Count(Search!Tokenize(text), t)
             /\ \A e \in DocIds \ {d} : index'[t][e] = ix[t][e]
    BY <1>1, <1>6, <2>1, CountedIndex
  <2> QED
    BY <1>4, <2>2
<1>9. /\ termDocFreq' \in [Search!Tokens -> [DocIds -> Nat]]
      /\ \A t \in Search!Tokens :
           /\ termDocFreq'[t][d] = Search!Count(Search!Segment(text), t)
           /\ \A e \in DocIds \ {d} : termDocFreq'[t][e] = termDocFreq[t][e]
  <2>1. freq \in [Search!Tokens -> [DocIds -> Nat]] /\ \A t \in Search!Tokens : freq[t][d] = 0
    BY <1>5
  <2>2. /\ termDocFreq' \in [Search!Tokens -> [DocIds -> Nat]]
        /\ \A t \in Search!Tokens :
             /\ termDocFreq'[t][d] = Search!Count(Search!Segment(text), t)
             /\ \A e \in DocIds \ {d} : termDocFreq'[t][e] = freq[t][e]
    BY <1>1, <1>7, <2>1, CountedIndex
  <2> QED
    BY <1>5, <2>2
<1>10. Len(Search!Segment(text)) \in Nat /\ text # None
  BY TextTokens, StoresAssumption, TextAssumption
<1>11. /\ docs' \in IndexedTexts /\ docs'[d] = text
       /\ docMeta' \in IndexedTexts /\ docMeta'[d] = text
       /\ docLen' \in [DocIds -> Nat \cup {None}] /\ docLen'[d] = Len(Search!Segment(text))
       /\ \A e \in DocIds \ {d} :
            docs'[e] = docs[e] /\ docMeta'[e] = docMeta[e] /\ docLen'[e] = docLen[e]
  BY <1>1, <1>10 DEF SearchInv, SearchTypes, IndexedTexts
<1>12. SearchTypes'
  BY <1>1, <1>8, <1>9, <1>11 DEF SearchInv, SearchTypes
<1>13. ASSUME NEW e \in DocIds
       PROVE  /\ \A t \in Search!Chars : index'[t][e] =
                   IF docs'[e] = None THEN 0 ELSE Search!Count(Search!Tokenize(docs'[e]), t)
              /\ \A t \in Search!Tokens : termDocFreq'[t][e] =
                   IF docMeta'[e] = None THEN 0 ELSE Search!Count(Search!Segment(docMeta'[e]), t)
              /\ docLen'[e] = IF docMeta'[e] = None THEN None ELSE Len(Search!Segment(docMeta'[e]))
  <2>1. CASE e = d
    BY <1>8, <1>9, <1>10, <1>11, <2>1
  <2>2. CASE e # d
    <3>1. /\ \A t \in Search!Chars : index'[t][e] = index[t][e]
          /\ \A t \in Search!Tokens : termDocFreq'[t][e] = termDocFreq[t][e]
      BY <1>8, <1>9, <2>2
    <3>2. docs'[e] = docs[e] /\ docMeta'[e] = docMeta[e] /\ docLen'[e] = docLen[e]
      BY <1>11, <2>2
    <3>3. /\ \A t \in Search!Chars : index[t][e] =
                IF docs[e] = None THEN 0 ELSE Search!Count(Search!Tokenize(docs[e]), t)
          /\ \A t \in Search!Tokens : termDocFreq[t][e] =
                IF docMeta[e] = None THEN 0 ELSE Search!Count(Search!Segment(docMeta[e]), t)
          /\ docLen[e] = IF docMeta[e] = None THEN None ELSE Len(Search!Segment(docMeta[e]))
      BY DEF SearchInv, Search!IndexMatchesDocs
    <3> QED
      BY <3>1, <3>2, <3>3
  <2> QED
    BY <2>1, <2>2
<1>14. \A e \in DocIds : docMeta'[e] # None => Len(Search!Segment(docMeta'[e])) # None
  BY <1>11, TextTokens, StoresAssumption, TextAssumption DEF IndexedTexts
<1>15. Search!Present(docLen') = Search!Present(docMeta')
  BY <1>13, <1>14 DEF Search!Present
<1>16. Search!IndexMatchesDocs'
  BY <1>2, <1>13, <1>15 DEF Search!IndexMatchesDocs
<1> QED
  BY <1>12, <1>16 DEF SearchInv

(* What is read from a file are lines of it.                               *)
LEMMA LoadsAreTexts ==
  ASSUME NEW file \in IndexedTexts
  PROVE  Search!Loads(file) \subseteq IndexedTexts
BY DEF Search!Loads, IndexedTexts

(* What Load counts of the texts it has read.                              *)
LEMMA LoadedCounts ==
  ASSUME NEW ds \in IndexedTexts, NEW d \in DocIds, ds[d] # None
  PROVE  /\ \A t : Search!Count(Search!Tokenize(ds[d]), t) \in Nat
         /\ \A t : Search!Count(Search!Segment(ds[d]), t) \in Nat
         /\ Len(Search!Segment(ds[d])) \in Nat
<1>1. ds[d] \in Documents
  BY DEF IndexedTexts
<1> QED
  BY <1>1, TextTokens, CountIs

LEMMA LoadIndexInv ==
  ASSUME SearchInv, Search!Restart
  PROVE  SearchInv'
<1>1. /\ docs' \in Search!Loads(files["search"]) /\ docMeta' \in Search!Loads(files["bm25"])
      /\ saving' = [x \in Search!Indexes |-> None] /\ files' = files
      /\ index' = [t \in Search!Chars |-> [d \in DocIds |->
           IF docs'[d] = None THEN 0 ELSE Search!Count(Search!Tokenize(docs'[d]), t)]]
      /\ termDocFreq' = [t \in Search!Tokens |-> [d \in DocIds |->
           IF docMeta'[d] = None THEN 0 ELSE Search!Count(Search!Segment(docMeta'[d]), t)]]
      /\ docLen' = [d \in DocIds |->
           IF docMeta'[d] = None THEN None ELSE Len(Search!Segment(docMeta'[d]))]
  BY DEF Search!Restart
<1>2. totalDocs' = Search!Cardinality(Search!Present(docLen'))
  BY DEF Search!Restart, Search!RecomputeAvgLen
<1>3. docs' \in IndexedTexts /\ docMeta' \in IndexedTexts
  <2>1. files["search"] \in IndexedTexts /\ files["bm25"] \in IndexedTexts
    BY DEF SearchInv, SearchTypes, Search!Indexes
  <2> QED
    BY <1>1, <2>1, LoadsAreTexts
<1>4. PICK ds : ds = docs'
  OBVIOUS
<1>5. PICK ms : ms = docMeta'
  OBVIOUS
<1>6. index' \in [Search!Chars -> [DocIds -> Nat]]
  <2>1. \A d \in DocIds : ds[d] # None =>
          \A t : Search!Count(Search!Tokenize(ds[d]), t) \in Nat
    BY <1>3, <1>4, LoadedCounts
  <2> QED
    BY <1>1, <1>4, <2>1
<1>7. \A d \in DocIds : ms[d] # None =>
        /\ \A t : Search!Count(Search!Segment(ms[d]), t) \in Nat
        /\ Len(Search!Segment(ms[d])) \in Nat
  BY <1>3, <1>5, LoadedCounts
<1>8. termDocFreq' \in [Search!Tokens -> [DocIds -> Nat]]
  BY <1>1, <1>5, <1>7
<1>9. docLen' \in [DocIds -> Nat \cup {None}]
  BY <1>1, <1>5, <1>7
<1>10. /\ saving' \in [Search!Indexes -> IndexedTexts \cup {None}]
       /\ files' \in [Search!Indexes -> IndexedTexts]
  BY <1>1 DEF SearchInv, SearchTypes
<1>11. SearchTypes'
  BY <1>3, <1>6, <1>8, <1>9, <1>10 DEF SearchTypes
<1>12. \A d \in DocIds : docLen'[d] = None <=> docMeta'[d] = None
  BY <1>1, <1>5, <1>7, StoresAssumption
<1>13. Search!Present(docLen') = Search!Present(docMeta')
  BY <1>12 DEF Search!Present
<1>14. Search!IndexMatchesDocs'
  BY <1>1, <1>2, <1>13 DEF Search!IndexMatchesDocs
<1> QED
  BY <1>11, <1>14 DEF SearchInv

LEMMA SearchInvNext == SearchInv /\ [Search!Next]_searchVars => SearchInv'
<1> SUFFICES ASSUME SearchInv, [Search!Next]_searchVars PROVE SearchInv'
  OBVIOUS
<1>1. ASSUME UNCHANGED <<docs, index, docMeta, termDocFreq, docLen, totalDocs>>,
             files' \in [Search!Indexes -> IndexedTexts],
             saving' \in [Search!Indexes -> IndexedTexts \cup {None}]
      PROVE  SearchInv'
  <2>1. Search!IndexMatchesDocs' = Search!IndexMatchesDocs
    BY <1>1 DEF Search!IndexMatchesDocs
  <2> QED
    BY <1>1, <2>1 DEF SearchInv, SearchTypes
<1>2. CASE \E x \in Search!Indexes : Search!CopyLines(x)
  <2>1. PICK x \in Search!Indexes : Search!CopyLines(x)
    BY <1>2
  <2>2. saving' \in [Search!Indexes -> IndexedTexts \cup {None}]
    BY <2>1 DEF Search!CopyLines, SearchInv, SearchTypes
  <2> QED
    BY <1>1, <2>1, <2>2 DEF Search!CopyLines, SearchInv, SearchTypes
<1>3. CASE \E x \in Search!Indexes : Search!RenameLines(x)
  <2>1. PICK x \in Search!Indexes : Search!RenameLines(x)
    BY <1>3
  <2>2. saving[x] \in IndexedTexts
    BY <2>1 DEF Search!RenameLines, SearchInv, SearchTypes
  <2>3. files' \in [Search!Indexes -> IndexedTexts]
    BY <2>1, <2>2 DEF Search!RenameLines, SearchInv, SearchTypes
  <2>4. saving' \in [Search!Indexes -> IndexedTexts \cup {None}]
    BY <2>1 DEF Search!RenameLines, SearchInv, SearchTypes
  <2> QED
    BY <1>1, <2>1, <2>3, <2>4 DEF Search!RenameLines
<1>4. CASE UNCHANGED searchVars
  BY <1>1, <1>4 DEF searchVars, SearchInv, SearchTypes
<1> QED
  BY <1>2, <1>3, <1>4, IndexDocInv, LoadIndexInv DEF Search!Next
-----------------------------------------------------------------------------
(* What a search finds *)

Sharing(q) ==
  {d \in Search!Present(docs) :
     \E i \in DOMAIN Search!Tokenize(q), j \in DOMAIN Search!Tokenize(docs[d]) :
       Search!Tokenize(q)[i] = Search!Tokenize(docs[d])[j]}
SharingStem(q) ==
  {d \in Search!Present(docMeta) :
     \E i \in DOMAIN Search!Tokenize(q), j \in DOMAIN Search!Tokenize(docMeta[d]) :
       LET a == Search!Tokenize(q)[i]  b == Search!Tokenize(docMeta[d])[j]
       IN  a = b \/ (a \in Latin /\ b \in Latin /\ Stem[a] = Stem[b])}

LEMMA PresentText ==
  ASSUME NEW ds \in IndexedTexts, NEW d \in Search!Present(ds)
  PROVE  d \in DocIds /\ ds[d] \in Documents /\ ds[d] # None
BY DEF IndexedTexts, Search!Present

LEMMA SearchFinds ==
  ASSUME SearchInv, NEW q \in Queries
  PROVE  Search!SearchDocs(q) = Sharing(q)
<1> DEFINE ts == Search!Tokenize(q)
<1>1. ts \in Seq(Search!Chars)
  BY TextAssumption, TokenizeIs
<1>2. \A i \in DOMAIN ts : ts[i] \in Search!Chars
  <2> HIDE DEF ts
  <2> QED
    BY <1>1
<1>3. ASSUME NEW d \in DocIds, NEW t \in Search!Chars
      PROVE  index[t][d] > 0 <=>
               d \in Search!Present(docs) /\ t \in Elems(Search!Tokenize(docs[d]))
  <2>1. index[t][d] = IF docs[d] = None THEN 0 ELSE Search!Count(Search!Tokenize(docs[d]), t)
    BY DEF SearchInv, Search!IndexMatchesDocs
  <2>2. CASE docs[d] = None
    BY <2>1, <2>2 DEF Search!Present
  <2>3. CASE docs[d] # None
    <3>1. d \in Search!Present(docs)
      BY <2>3 DEF Search!Present
    <3>2. docs \in IndexedTexts
      BY DEF SearchInv, SearchTypes
    <3>3. docs[d] \in Documents
      BY <3>1, <3>2, PresentText
    <3>4. PICK X : Search!Tokenize(docs[d]) \in Seq(X)
      BY <3>3, TextTokens
    <3>5. Search!Count(Search!Tokenize(docs[d]), t) > 0 <=> t \in Elems(Search!Tokenize(docs[d]))
      BY <3>4, CountIs
    <3> QED
      BY <2>1, <2>3, <3>1, <3>5
  <2> QED
    BY <2>2, <2>3
<1>4. ASSUME NEW d \in DocIds
      PROVE  d \in Search!SearchDocs(q) <=> d \in Sharing(q)
  <2>1. d \in Search!SearchDocs(q) <=> \E i \in DOMAIN ts : index[ts[i]][d] > 0
    BY DEF Search!SearchDocs
  <2>2. d \in Sharing(q) <=>
          /\ d \in Search!Present(docs)
          /\ \E i \in DOMAIN ts : ts[i] \in Elems(Search!Tokenize(docs[d]))
    BY DEF Sharing, Elems
  <2> HIDE DEF ts
  <2> QED
    BY <1>2, <1>3, <2>1, <2>2
<1>5. Search!SearchDocs(q) \subseteq DocIds /\ Sharing(q) \subseteq DocIds
  BY DEF Search!SearchDocs, Sharing, Search!Present
<1> QED
  BY <1>4, <1>5

(* A token of a text comes from one of its characters.                     *)
LEMMA TokenHasHead ==
  ASSUME NEW t \in Documents \cup Queries, NEW token \in Elems(Search!Segment(t))
  PROVE  \E i \in DOMAIN Search!Tokenize(t) : HeadedBy(token, Search!Tokenize(t)[i])
<1>1. t \in Seq({t[i] : i \in DOMAIN t})
  BY TextAssumption
<1>2. PICK X : /\ Search!Segment(t) \in Seq(X)
               /\ \A tk \in X : \E i \in 1..Len(t) : HeadedBy(tk, t[i])
  BY <1>1, SegmentIs
<1>3. token \in X
  <2> DEFINE s == Search!Segment(t)
  <2>1. s \in Seq(X) /\ token \in Elems(s)
    BY <1>2
  <2> HIDE DEF s
  <2> QED
    BY <2>1 DEF Elems
<1>4. PICK i \in 1..Len(t) : HeadedBy(token, t[i])
  BY <1>2, <1>3
<1>5. t[i] \in Search!Chars
  BY <1>4 DEF HeadedBy, Search!Chars
<1>6. t[i] \in Elems(Search!Tokenize(t))
  BY <1>1, <1>5, TokenizeIs
<1> QED
  BY <1>4, <1>6 DEF Elems

LEMMA TermCounts ==
  ASSUME SearchInv, NEW d \in DocIds, NEW token \in Search!Tokens
  PROVE  termDocFreq[token][d] > 0 <=>
           d \in Search!Present(docMeta) /\ token \in Elems(Search!Segment(docMeta[d]))
<1>1. termDocFreq[token][d] =
        IF docMeta[d] = None THEN 0 ELSE Search!Count(Search!Segment(docMeta[d]), token)
  BY DEF SearchInv, Search!IndexMatchesDocs
<1>2. CASE docMeta[d] = None
  BY <1>1, <1>2 DEF Search!Present
<1>3. CASE docMeta[d] # None
  <2>1. d \in Search!Present(docMeta)
    BY <1>3 DEF Search!Present
  <2>2. docMeta \in IndexedTexts
    BY DEF SearchInv, SearchTypes
  <2>3. docMeta[d] \in Documents
    BY <2>1, <2>2, PresentText
  <2>4. PICK X : Search!Segment(docMeta[d]) \in Seq(X)
    BY <2>3, TextTokens
  <2>5. Search!Count(Search!Segment(docMeta[d]), token) > 0 <=>
          token \in Elems(Search!Segment(docMeta[d]))
    BY <2>4, CountIs
  <2> QED
    BY <1>1, <1>3, <2>1, <2>5
<1> QED
  BY <1>2, <1>3

LEMMA TermsFind ==
  ASSUME SearchInv, NEW q \in Queries
  PROVE  /\ Search!Matches(q) \subseteq SharingStem(q)
         /\ \A d \in Search!Present(docMeta) :
              docMeta[d] = q /\ Search!Segment(q) # <<>> => d \in Search!Matches(q)
<1>1. \A i \in DOMAIN Search!Segment(q) :
        Search!Segment(q)[i] \in Search!Tokens /\ Search!Segment(q)[i] \in Elems(Search!Segment(q))
  BY DEF Search!Tokens, Elems
<1>2. ASSUME NEW d \in Search!Matches(q) PROVE d \in SharingStem(q)
  <2>1. PICK i \in DOMAIN Search!Segment(q) :
          d \in DocIds /\ termDocFreq[Search!Segment(q)[i]][d] > 0
    BY DEF Search!Matches
  <2> DEFINE token == Search!Segment(q)[i]
  <2>2. token \in Search!Tokens /\ token \in Elems(Search!Segment(q))
    BY <1>1, <2>1
  <2>3. termDocFreq[token][d] > 0
    BY <2>1
  <2> HIDE DEF token
  <2>4. d \in Search!Present(docMeta) /\ token \in Elems(Search!Segment(docMeta[d]))
    BY <2>1, <2>2, <2>3, TermCounts
  <2>5. docMeta[d] \in Documents
    <3>1. docMeta \in IndexedTexts
      BY DEF SearchInv, SearchTypes
    <3> QED
      BY <2>4, <3>1, PresentText
  <2>6. PICK m \in DOMAIN Search!Tokenize(q) : HeadedBy(token, Search!Tokenize(q)[m])
    BY <2>2, TokenHasHead
  <2>7. PICK n \in DOMAIN Search!Tokenize(docMeta[d]) : HeadedBy(token, Search!Tokenize(docMeta[d])[n])
    BY <2>4, <2>5, TokenHasHead
  <2> DEFINE a == Search!Tokenize(q)[m]
             b == Search!Tokenize(docMeta[d])[n]
  <2>8. a = b \/ (a \in Latin /\ b \in Latin /\ Stem[a] = Stem[b])
    <3>1. HeadedBy(token, a) /\ HeadedBy(token, b)
      BY <2>6, <2>7
    <3> HIDE DEF a, b
    <3>2. \A w \in Latin : <<Stem[w]>>[1] = Stem[w] /\ Stem[w] \notin Han
      BY TextAssumption
    <3> QED
      BY <3>1, <3>2 DEF HeadedBy
  <2> QED
    BY <2>4, <2>8 DEF SharingStem
<1>3. ASSUME NEW d \in Search!Present(docMeta), docMeta[d] = q, Search!Segment(q) # <<>>
      PROVE  d \in Search!Matches(q)
  <2>1. PICK X : Search!Segment(q) \in Seq(X)
    BY TextTokens
  <2> DEFINE s == Search!Segment(q)
  <2>2. 1 \in DOMAIN s
    <3>1. s \in Seq(X) /\ s # <<>>
      BY <1>3, <2>1
    <3> HIDE DEF s
    <3> QED
      BY <3>1
  <2>3. s[1] \in Search!Tokens /\ s[1] \in Elems(s)
    BY <1>1, <2>2
  <2>4. d \in DocIds
    BY DEF Search!Present
  <2>5. termDocFreq[s[1]][d] > 0
    BY <1>3, <2>3, <2>4, TermCounts
  <2> QED
    BY <2>2, <2>4, <2>5 DEF Search!Matches
<1> QED
  BY <1>2, <1>3

(* What is returned are as many of the matches as the limit allows.         *)
LEMMA ResultsFind ==
  ASSUME SearchInv, NEW q \in Queries, NEW R \in Search!SearchBM25(q)
  PROVE  /\ R \subseteq SharingStem(q) /\ Search!Cardinality(R) <= SearchLimit
         /\ Search!Cardinality(SharingStem(q)) <= SearchLimit => R = Search!Matches(q)
<1>1. /\ R \subseteq Search!Matches(q)
      /\ Cardinality(R) = IF Cardinality(Search!Matches(q)) < SearchLimit
                          THEN Cardinality(Search!Matches(q)) ELSE SearchLimit
  BY SearchCardinality DEF Search!SearchBM25
<1>2. Search!Matches(q) \subseteq SharingStem(q) /\ SharingStem(q) \subseteq DocIds
  BY TermsFind DEF SharingStem, Search!Present
<1>3. IsFiniteSet(SharingStem(q)) /\ IsFiniteSet(Search!Matches(q))
  BY <1>2, FS_Subset, StoresAssumption
<1>4. /\ Cardinality(SharingStem(q)) \in Nat /\ Cardinality(Search!Matches(q)) \in Nat
      /\ Cardinality(Search!Matches(q)) <= Cardinality(SharingStem(q))
  BY <1>2, <1>3, FS_Subset, FS_CardinalityType
<1>5. SearchLimit \in Nat
  BY TextAssumption
<1>6. Cardinality(R) <= SearchLimit
  BY <1>1, <1>4, <1>5
<1>7. ASSUME Cardinality(SharingStem(q)) <= SearchLimit PROVE R = Search!Matches(q)
  <2>1. Cardinality(R) = Cardinality(Search!Matches(q))
    BY <1>1, <1>4, <1>5, <1>7
  <2> QED
    BY <1>1, <1>3, <2>1, FS_Subset
<1> QED
  BY <1>1, <1>2, <1>6, <1>7, SearchCardinality

LEMMA SearchContained == SearchInv => Search!SearchFindsContained
<1> SUFFICES ASSUME SearchInv PROVE Search!SearchFindsContained
  OBVIOUS
<1>1. ASSUME NEW q \in Queries
      PROVE  /\ Search!SearchDocs(q) = Sharing(q)
             /\ \A R \in Search!SearchBM25(q) :
                  /\ R \subseteq SharingStem(q) /\ Search!Cardinality(R) <= SearchLimit
                  /\ Search!Cardinality(SharingStem(q)) <= SearchLimit /\ Search!Segment(q) # <<>> =>
                       {d \in Search!Present(docMeta) : docMeta[d] = q} \subseteq R
  <2>1. Search!SearchDocs(q) = Sharing(q)
    BY SearchFinds
  <2>2. ASSUME NEW R \in Search!SearchBM25(q),
               Search!Cardinality(SharingStem(q)) <= SearchLimit, Search!Segment(q) # <<>>
        PROVE  {d \in Search!Present(docMeta) : docMeta[d] = q} \subseteq R
    <3>1. R = Search!Matches(q)
      BY <2>2, ResultsFind
    <3> QED
      BY <2>2, <3>1, TermsFind
  <2> QED
    BY <2>1, <2>2, ResultsFind
<1> QED
  BY <1>1 DEF Search!SearchFindsContained, Sharing, SharingStem
-----------------------------------------------------------------------------
(* Dialogues: what a session was told *)

Said == Requests \cup {Answer, Fallback}
TurnSet == [n : Nat, role : {"user", "assistant"}, content : Said]
Conversations == [turns : Seq(TurnSet), accessed : Nat]
SaidWords == UNION {Keywords[c] : c \in Said}
Memories == [session : Sessions, from : Nat \ {0}, turns : Seq(TurnSet),
             keywords : SUBSET SaidWords, accessed : Nat]

ToldTypes ==
  /\ tick \in Nat
  /\ sessions \in [Sessions -> {None} \cup Conversations]
  /\ memories \in Seq(Memories)
  /\ appended \in [Sessions -> Seq(TurnSet)]
  /\ deleted \in [Sessions -> SUBSET Nat]

(* TurnsKept, place by place.                                              *)
Covers(m, p) == memories[m].from <= p /\ p < memories[m].from + Len(memories[m].turns)

WindowKept(s) ==
  /\ Len(Talk!Turns(s)) <= Len(appended[s]) /\ Len(Talk!Turns(s)) <= WindowSize
  /\ \A i \in 1..Len(Talk!Turns(s)) : Talk!Turns(s)[i] = appended[s][Talk!Gone(s) + i]

SummaryKept(s, m) ==
  /\ memories[m].from + Len(memories[m].turns) - 1 <= Talk!Gone(s)
  /\ \A i \in 1..Len(memories[m].turns) :
       memories[m].turns[i] = appended[s][memories[m].from + i - 1]
  /\ \A p \in deleted[s] : ~Covers(m, p)
  /\ \A k \in 1..Len(memories) : memories[k].session = s /\ m < k =>
       memories[m].from + Len(memories[m].turns) <= memories[k].from

NoneMissing(s) ==
  /\ deleted[s] \subseteq 1..Talk!Gone(s)
  /\ \A p \in 1..Talk!Gone(s) : p \notin deleted[s] =>
       \E m \in 1..Len(memories) : memories[m].session = s /\ Covers(m, p)

ToldKept(s) ==
  /\ WindowKept(s) /\ NoneMissing(s)
  /\ \A m \in 1..Len(memories) : memories[m].session = s => SummaryKept(s, m)

ToldInv == ToldTypes /\ \A s \in Sessions : ToldKept(s)

LEMMA TurnsTyped ==
  ASSUME ToldTypes, NEW s \in Sessions
  PROVE  /\ Talk!Turns(s) \in Seq(TurnSet) /\ Len(Talk!Turns(s)) \in Nat
         /\ Len(appended[s]) \in Nat /\ Talk!Gone(s) \in Int
<1>1. sessions[s] # None => sessions[s].turns \in Seq(TurnSet)
  BY DEF ToldTypes, Conversations
<1>2. Talk!Turns(s) \in Seq(TurnSet)
  BY <1>1 DEF Talk!Turns
<1>3. appended[s] \in Seq(TurnSet)
  BY DEF ToldTypes
<1>4. Len(Talk!Turns(s)) \in Nat /\ Len(appended[s]) \in Nat
  BY <1>2, <1>3
<1> QED
  BY <1>2, <1>4 DEF Talk!Gone

LEMMA MemoryTyped ==
  ASSUME ToldTypes, NEW m \in 1..Len(memories)
  PROVE  /\ memories[m].from \in Nat \ {0} /\ Len(memories[m].turns) \in Nat
         /\ memories[m].turns \in Seq(TurnSet) /\ memories[m].session \in Sessions
<1>1. memories[m] \in Memories
  BY DEF ToldTypes
<1> QED
  BY <1>1 DEF Memories

LEMMA ToldInvInit == Talk!Init => ToldInv
<1> SUFFICES ASSUME Talk!Init PROVE ToldInv
  OBVIOUS
<1>1. /\ tick = 0 /\ memories = <<>>
      /\ sessions = [s \in Sessions |-> None]
      /\ appended = [s \in Sessions |-> <<>>]
      /\ deleted = [s \in Sessions |-> {}]
  BY DEF Talk!Init
<1>2. ToldTypes
  BY <1>1 DEF ToldTypes
<1>3. ASSUME NEW s \in Sessions PROVE ToldKept(s)
  <2>1. Talk!Turns(s) = <<>> /\ Len(appended[s]) = 0 /\ Len(Talk!Turns(s)) = 0
    BY <1>1 DEF Talk!Turns
  <2>2. Talk!Gone(s) = 0 /\ deleted[s] = {} /\ Len(memories) = 0
    BY <1>1, <2>1 DEF Talk!Gone
  <2> QED
    BY <2>1, <2>2, TalkAssumption DEF ToldKept, WindowKept, NoneMissing
<1> QED
  BY <1>2, <1>3 DEF ToldInv

(* What of a session and its memories stays the same keeps its turns.      *)
LEMMA ToldStays ==
  ASSUME NEW s \in Sessions, ToldKept(s), appended'[s] = appended[s], deleted'[s] = deleted[s],
         Talk!Turns(s)' = Talk!Turns(s), Len(memories') = Len(memories),
         \A m \in 1..Len(memories) : /\ memories'[m].session = memories[m].session
                                     /\ memories'[m].from = memories[m].from
                                     /\ memories'[m].turns = memories[m].turns
  PROVE  ToldKept(s)'
<1>1. Talk!Gone(s)' = Talk!Gone(s)
  BY DEF Talk!Gone
<1>2. \A m \in 1..Len(memories) : \A p : Covers(m, p)' = Covers(m, p)
  BY DEF Covers
<1>3. WindowKept(s)'
  BY <1>1 DEF ToldKept, WindowKept
<1>4. NoneMissing(s)'
  BY <1>1, <1>2 DEF ToldKept, NoneMissing
<1>5. ASSUME NEW m \in 1..Len(memories), memories[m].session = s PROVE SummaryKept(s, m)'
  <2>1. SummaryKept(s, m)
    BY <1>5 DEF ToldKept
  <2> QED
    BY <1>1, <1>2, <2>1 DEF SummaryKept
<1> QED
  BY <1>3, <1>4, <1>5 DEF ToldKept
-----------------------------------------------------------------------------
Grown ==
  /\ Len(memories') \in Nat /\ Len(memories) <= Len(memories')
  /\ \A m \in 1..Len(memories) : memories'[m].keywords = memories[m].keywords

(* A summary of another session.                                           *)
LEMMA OtherTold ==
  ASSUME NEW s \in Sessions, ToldKept(s), appended'[s] = appended[s], deleted'[s] = deleted[s],
         Talk!Turns(s)' = Talk!Turns(s), memories \in Seq(Memories),
         NEW x \in Memories, x.session # s, memories' = Append(memories, x)
  PROVE  ToldKept(s)'
<1>1. Talk!Gone(s)' = Talk!Gone(s)
  BY DEF Talk!Gone
<1> DEFINE N == Len(memories)
<1>2. /\ N \in Nat /\ Len(memories') = N + 1 /\ memories'[N + 1] = x
      /\ \A m \in 1..N : memories'[m] = memories[m]
  OBVIOUS
<1>3. \A m \in 1..N : \A p : Covers(m, p)' = Covers(m, p)
  BY <1>2 DEF Covers
<1>4. \A m \in 1..(N + 1) : memories'[m].session = s => m \in 1..N
  BY <1>2
<1>5. WindowKept(s)'
  BY <1>1 DEF ToldKept, WindowKept
<1>6. NoneMissing(s)'
  <2>1. \A m \in 1..N : m \in 1..Len(memories') /\ memories'[m].session = memories[m].session
    BY <1>2
  <2> QED
    BY <1>1, <1>3, <2>1 DEF ToldKept, NoneMissing
<1>7. ASSUME NEW m \in 1..N, memories[m].session = s PROVE SummaryKept(s, m)'
  <2>1. SummaryKept(s, m)
    BY <1>7 DEF ToldKept
  <2>2. memories'[m] = memories[m]
    BY <1>2
  <2>3. \A k \in 1..Len(memories') : memories'[k].session = s =>
          k \in 1..N /\ memories'[k] = memories[k]
    BY <1>2, <1>4
  <2>4. \A p \in deleted'[s] : ~Covers(m, p)'
    BY <1>3, <2>1 DEF SummaryKept
  <2>5. \A k \in 1..Len(memories') : memories'[k].session = s /\ m < k =>
          memories'[m].from + Len(memories'[m].turns) <= memories'[k].from
    BY <2>1, <2>2, <2>3 DEF SummaryKept
  <2>6. /\ memories'[m].from + Len(memories'[m].turns) - 1 <= Talk!Gone(s)'
        /\ \A i \in 1..Len(memories'[m].turns) :
             memories'[m].turns[i] = appended'[s][memories'[m].from + i - 1]
    BY <1>1, <2>1, <2>2 DEF SummaryKept
  <2> QED
    BY <2>4, <2>5, <2>6 DEF SummaryKept
<1> QED
  BY <1>2, <1>4, <1>5, <1>6, <1>7 DEF ToldKept

(* A turn is behind the window as it is behind all that was told.          *)
LEMMA TurnBehind ==
  ASSUME ToldTypes, NEW s \in Sessions, WindowKept(s), NEW turn \in TurnSet
  PROVE  LET w == Talk!Turns(s)
             told == appended[s]
             g == Talk!Gone(s)
         IN  /\ Len(w) \in Nat /\ Len(told) \in Nat /\ g \in Nat /\ Len(told) = g + Len(w)
             /\ Append(w, turn) \in Seq(TurnSet)
             /\ Len(Append(w, turn)) = Len(w) + 1 /\ Len(Append(told, turn)) = Len(told) + 1
             /\ \A i \in 1..Len(told) : Append(told, turn)[i] = told[i]
             /\ \A i \in 1..(Len(w) + 1) : Append(w, turn)[i] = Append(told, turn)[g + i]
<1> DEFINE w == Talk!Turns(s)
           told == appended[s]
           g == Talk!Gone(s)
<1>1. /\ w \in Seq(TurnSet) /\ told \in Seq(TurnSet)
      /\ Len(w) \in Nat /\ Len(told) \in Nat /\ Len(w) <= Len(told)
  BY TurnsTyped DEF ToldTypes, WindowKept
<1>2. /\ Append(w, turn) \in Seq(TurnSet)
      /\ Len(Append(w, turn)) = Len(w) + 1 /\ Len(Append(told, turn)) = Len(told) + 1
      /\ \A i \in 1..Len(w) : Append(w, turn)[i] = w[i]
      /\ \A i \in 1..Len(told) : Append(told, turn)[i] = told[i]
      /\ Append(w, turn)[Len(w) + 1] = turn /\ Append(told, turn)[Len(told) + 1] = turn
  <2> HIDE DEF w, told
  <2> QED
    BY <1>1
<1>3. g = Len(told) - Len(w)
  BY DEF Talk!Gone
<1>4. g \in Nat /\ Len(told) = g + Len(w)
  <2> HIDE DEF w, told, g
  <2> QED
    BY <1>1, <1>3
<1>5. \A i \in 1..Len(w) : w[i] = told[g + i]
  BY DEF WindowKept
<1>6. ASSUME NEW i \in 1..(Len(w) + 1) PROVE Append(w, turn)[i] = Append(told, turn)[g + i]
  <2> HIDE DEF w, told, g
  <2>1. CASE i \in 1..Len(w)
    <3>1. g + i \in 1..Len(told)
      BY <1>1, <1>4, <2>1
    <3> QED
      BY <1>2, <1>5, <2>1, <3>1
  <2>2. CASE i = Len(w) + 1
    <3>1. g + i = Len(told) + 1
      BY <1>1, <1>4, <2>2
    <3> QED
      BY <1>2, <2>2, <3>1
  <2>3. i \in 1..Len(w) \/ i = Len(w) + 1
    BY <1>1
  <2> QED
    BY <2>1, <2>2, <2>3
<1> QED
  BY <1>1, <1>2, <1>4, <1>6

(* A turn that finds room in the window.                                   *)
LEMMA TurnFits ==
  ASSUME ToldTypes, NEW s \in Sessions, ToldKept(s), NEW turn \in TurnSet,
         Talk!Turns(s)' = Append(Talk!Turns(s), turn), Len(Talk!Turns(s)) < WindowSize,
         appended'[s] = Append(appended[s], turn), UNCHANGED <<memories, deleted>>
  PROVE  ToldKept(s)'
<1> DEFINE w == Talk!Turns(s)
           told == appended[s]
           g == Talk!Gone(s)
<1>1. WindowKept(s)
  BY DEF ToldKept
<1>2. /\ Len(w) \in Nat /\ Len(told) \in Nat /\ g \in Nat /\ Len(told) = g + Len(w)
      /\ Len(Append(w, turn)) = Len(w) + 1 /\ Len(Append(told, turn)) = Len(told) + 1
      /\ \A i \in 1..Len(told) : Append(told, turn)[i] = told[i]
      /\ \A i \in 1..(Len(w) + 1) : Append(w, turn)[i] = Append(told, turn)[g + i]
  BY <1>1, TurnBehind
<1>3. Talk!Gone(s)' = g
  <2>1. Talk!Gone(s)' = (Len(told) + 1) - (Len(w) + 1)
    BY <1>2 DEF Talk!Gone
  <2> HIDE DEF w, told, g
  <2> QED
    BY <1>2, <2>1
<1>4. WindowKept(s)'
  <2>1. Len(w) + 1 <= Len(told) + 1 /\ Len(w) + 1 <= WindowSize
    <3>1. Len(w) < WindowSize
      OBVIOUS
    <3> HIDE DEF w, told, g
    <3> QED
      BY <1>2, <3>1, TalkAssumption
  <2> QED
    BY <1>2, <1>3, <2>1 DEF WindowKept
<1>5. \A m \in 1..Len(memories) : \A p : Covers(m, p)' = Covers(m, p)
  BY DEF Covers
<1>6. NoneMissing(s)'
  BY <1>3, <1>5 DEF ToldKept, NoneMissing
<1>7. ASSUME NEW m \in 1..Len(memories), memories[m].session = s PROVE SummaryKept(s, m)'
  <2>1. SummaryKept(s, m)
    BY <1>7 DEF ToldKept
  <2>2. memories[m].from \in Nat \ {0} /\ Len(memories[m].turns) \in Nat
    BY MemoryTyped
  <2>3. \A i \in 1..Len(memories[m].turns) : memories[m].from + i - 1 \in 1..Len(told)
    <3>1. memories[m].from + Len(memories[m].turns) - 1 <= g
      BY <2>1 DEF SummaryKept
    <3> DEFINE f == memories[m].from
               n == Len(memories[m].turns)
    <3>2. f + n - 1 <= g /\ f \in Nat \ {0} /\ n \in Nat
      BY <2>2, <3>1
    <3> HIDE DEF w, told, g, f, n
    <3>3. \A i \in 1..n : f + i - 1 \in 1..Len(told)
      BY <1>2, <3>2
    <3> QED
      BY <3>3 DEF f, n
  <2>4. \A i \in 1..Len(memories[m].turns) :
          memories[m].turns[i] = appended'[s][memories[m].from + i - 1]
    BY <1>2, <2>1, <2>3 DEF SummaryKept
  <2> QED
    BY <1>3, <1>5, <2>1, <2>4 DEF SummaryKept
<1> QED
  BY <1>4, <1>6, <1>7 DEF ToldKept
-----------------------------------------------------------------------------
LEMMA WindowMoves ==
  ASSUME NEW X, NEW W \in Nat, NEW all \in Seq(X), Len(all) = W + 1
  PROVE  /\ Len(SubSeq(all, 2, W + 1)) = W
         /\ \A i \in 1..W : SubSeq(all, 2, W + 1)[i] = all[i + 1]
         /\ Len(SubSeq(all, 1, 1)) = 1 /\ SubSeq(all, 1, 1)[1] = all[1]
<1>1. Len(SubSeq(all, 2, W + 1)) = W
  OBVIOUS
<1>2. \A i \in 1..W : SubSeq(all, 2, W + 1)[i] = all[i + 1]
  OBVIOUS
<1>3. Len(SubSeq(all, 1, 1)) = 1 /\ SubSeq(all, 1, 1)[1] = all[1]
  OBVIOUS
<1> QED
  BY <1>1, <1>2, <1>3

(* A turn that takes the place of the first of a full window, which goes   *)
(* into a summary.                                                         *)
LEMMA TurnPushes ==
  ASSUME ToldTypes, NEW s \in Sessions, ToldKept(s), NEW turn \in TurnSet,
         Len(Talk!Turns(s)) = WindowSize,
         Talk!Turns(s)' = SubSeq(Append(Talk!Turns(s), turn), 2, WindowSize + 1),
         appended'[s] = Append(appended[s], turn), deleted'[s] = deleted[s],
         NEW x \in Memories, x.session = s, x.from = Talk!Gone(s) + 1,
         x.turns = SubSeq(Append(Talk!Turns(s), turn), 1, 1), memories' = Append(memories, x)
  PROVE  ToldKept(s)'
<1> DEFINE W == WindowSize
           w == Talk!Turns(s)
           told == appended[s]
           g == Talk!Gone(s)
           all == Append(w, turn)
<1>1. WindowKept(s) /\ W \in Nat /\ Len(w) = W
  BY TalkAssumption DEF ToldKept
<1>2. /\ Len(told) \in Nat /\ g \in Nat /\ Len(told) = g + W
      /\ all \in Seq(TurnSet) /\ Len(all) = W + 1 /\ Len(Append(told, turn)) = Len(told) + 1
      /\ \A i \in 1..Len(told) : Append(told, turn)[i] = told[i]
      /\ \A i \in 1..(W + 1) : all[i] = Append(told, turn)[g + i]
  BY <1>1, TurnBehind
<1>3. /\ Len(SubSeq(all, 2, W + 1)) = W
      /\ \A i \in 1..W : SubSeq(all, 2, W + 1)[i] = all[i + 1]
      /\ Len(SubSeq(all, 1, 1)) = 1 /\ SubSeq(all, 1, 1)[1] = all[1]
  <2>1. W \in Nat /\ all \in Seq(TurnSet) /\ Len(all) = W + 1
    BY <1>1, <1>2
  <2> HIDE DEF all, W
  <2> QED
    BY <2>1, WindowMoves
<1> PICK N : N = Len(memories)
  OBVIOUS
<1>4. Talk!Gone(s)' = g + 1
  <2>1. Talk!Gone(s)' = (Len(told) + 1) - W
    BY <1>2, <1>3 DEF Talk!Gone
  <2> HIDE DEF W, told, g
  <2> QED
    BY <1>1, <1>2, <2>1
<1>5. WindowKept(s)'
  <2>1. \A i \in 1..W : SubSeq(all, 2, W + 1)[i] = Append(told, turn)[(g + 1) + i]
    <3> TAKE i \in 1..W
    <3>1. i + 1 \in 1..(W + 1) /\ g + (i + 1) = (g + 1) + i
      <4> HIDE DEF W, g
      <4> QED
        BY <1>1, <1>2
    <3> HIDE DEF all, W, told, g
    <3> QED
      BY <1>2, <1>3, <3>1
  <2>2. W <= Len(told) + 1
    <3> HIDE DEF W, told, g
    <3> QED
      BY <1>1, <1>2
  <2>3. Len(Talk!Turns(s)') = W /\ Len(appended'[s]) = Len(told) + 1
    BY <1>2, <1>3
  <2>4. \A i \in 1..W : Talk!Turns(s)'[i] = appended'[s][Talk!Gone(s)' + i]
    BY <1>4, <2>1
  <2>5. W <= W
    BY <1>1
  <2> QED
    BY <2>2, <2>3, <2>4, <2>5 DEF WindowKept
<1>6. /\ N \in Nat /\ Len(memories') = N + 1 /\ memories'[N + 1] = x
      /\ \A m \in 1..N : memories'[m] = memories[m]
  <2>1. memories \in Seq(Memories)
    BY DEF ToldTypes
  <2> QED
    BY <2>1
<1>7. \A m \in 1..N : \A p : Covers(m, p)' = Covers(m, p)
  BY <1>6 DEF Covers
<1>8. \A p \in Nat : Covers(N + 1, p)' <=> p = g + 1
  <2>1. x.from = g + 1 /\ Len(x.turns) = 1
    BY <1>3
  <2>2. \A p \in Nat : g + 1 <= p /\ p < (g + 1) + 1 <=> p = g + 1
    <3>1. g \in Nat
      BY <1>2
    <3> HIDE DEF g
    <3> QED
      BY <3>1
  <2> QED
    BY <1>6, <2>1, <2>2 DEF Covers
<1>9. NoneMissing(s)'
  <2>1. deleted[s] \subseteq 1..g
    BY DEF ToldKept, NoneMissing
  <2>2. 1..g \subseteq 1..(g + 1)
    <3>1. g \in Nat
      BY <1>2
    <3> HIDE DEF g
    <3> QED
      BY <3>1
  <2>3. ASSUME NEW p \in 1..(g + 1), p \notin deleted[s]
        PROVE  \E m \in 1..(N + 1) : memories'[m].session = s /\ Covers(m, p)'
    <3>1. CASE p \in 1..g
      <4>1. PICK m \in 1..N : memories[m].session = s /\ Covers(m, p)
        BY <2>3, <3>1 DEF ToldKept, NoneMissing
      <4>2. m \in 1..(N + 1)
        BY <1>6
      <4> QED
        BY <1>6, <1>7, <4>1, <4>2
    <3>2. CASE p = g + 1
      <4>1. N + 1 \in 1..(N + 1) /\ p \in Nat
        BY <1>6
      <4>2. memories'[N + 1].session = s
        BY <1>6
      <4>3. Covers(N + 1, p)'
        BY <1>8, <3>2, <4>1
      <4> QED
        BY <4>1, <4>2, <4>3
    <3>3. p \in 1..g \/ p = g + 1
      <4>1. g \in Nat /\ p \in 1..(g + 1)
        BY <1>2, <2>3
      <4> HIDE DEF g
      <4> QED
        BY <4>1
    <3> QED
      BY <3>1, <3>2, <3>3
  <2> QED
    BY <1>4, <1>6, <2>1, <2>2, <2>3 DEF NoneMissing
<1>10. \A m \in 1..(N + 1) : m \in 1..N \/ m = N + 1
  BY <1>6
<1>11. ASSUME NEW m \in 1..N, memories[m].session = s PROVE SummaryKept(s, m)'
  <2> DEFINE f == memories[m].from
             n == Len(memories[m].turns)
  <2>1. f + n - 1 <= g
    BY <1>11 DEF ToldKept, SummaryKept
  <2>2. f \in Nat \ {0} /\ n \in Nat
    BY MemoryTyped
  <2>3. /\ f + n - 1 <= g + 1 /\ f + n <= g + 1
        /\ \A i \in 1..n : f + i - 1 \in 1..Len(told)
    <3> HIDE DEF f, n, g, told, W
    <3> QED
      BY <1>1, <1>2, <2>1, <2>2
  <2>4. \A i \in 1..n : memories[m].turns[i] = Append(told, turn)[f + i - 1]
    <3>1. \A i \in 1..n : memories[m].turns[i] = told[f + i - 1]
      BY <1>11 DEF ToldKept, SummaryKept
    <3> HIDE DEF f, n, told
    <3> QED
      BY <1>2, <2>3, <3>1
  <2>5. \A p \in deleted[s] : ~Covers(m, p)
    BY <1>11 DEF ToldKept, SummaryKept
  <2>6. ASSUME NEW k \in 1..(N + 1), memories'[k].session = s, m < k
        PROVE  f + n <= memories'[k].from
    <3>1. CASE k \in 1..N
      BY <1>6, <1>11, <2>6, <3>1 DEF ToldKept, SummaryKept
    <3>2. CASE k = N + 1
      <4>1. memories'[k].from = g + 1
        BY <1>6, <3>2
      <4> QED
        BY <2>3, <4>1
    <3>3. k \in 1..N \/ k = N + 1
      BY <1>10
    <3> QED
      BY <3>1, <3>2, <3>3
  <2>7. memories'[m] = memories[m]
    BY <1>6
  <2> QED
    BY <1>4, <1>6, <1>7, <2>3, <2>4, <2>5, <2>6, <2>7 DEF SummaryKept
<1>12. SummaryKept(s, N + 1)'
  <2>1. g + 1 + 1 - 1 <= g + 1 /\ 1 \in 1..(W + 1) /\ g + 1 + 1 - 1 = g + 1
    <3> HIDE DEF g, W
    <3> QED
      BY <1>1, <1>2
  <2>2. \A i \in 1..1 : x.turns[i] = Append(told, turn)[g + 1 + i - 1]
    <3>1. x.turns[1] = Append(told, turn)[g + 1]
      BY <1>2, <1>3, <2>1
    <3>2. \A i \in 1..1 : i = 1
      OBVIOUS
    <3> HIDE DEF g, told
    <3> QED
      BY <2>1, <3>1, <3>2
  <2>3. \A p \in deleted[s] : ~Covers(N + 1, p)'
    <3>1. \A p \in deleted[s] : p \in 1..g
      BY DEF ToldKept, NoneMissing
    <3>2. \A p \in 1..g : p \in Nat /\ p # g + 1
      <4>1. g \in Nat
        BY <1>2
      <4> HIDE DEF g
      <4> QED
        BY <4>1
    <3> QED
      BY <1>8, <3>1, <3>2
  <2>4. \A k \in 1..(N + 1) : ~(N + 1 < k)
    BY <1>6
  <2>5. Len(x.turns) = 1
    BY <1>3
  <2> QED
    <3>1. memories'[N + 1].from = g + 1 /\ memories'[N + 1].turns = x.turns
      BY <1>6
    <3>2. memories'[N + 1].from + Len(memories'[N + 1].turns) - 1 <= Talk!Gone(s)'
      BY <1>4, <2>1, <2>5, <3>1
    <3>3. \A i \in 1..Len(memories'[N + 1].turns) :
            memories'[N + 1].turns[i] = appended'[s][memories'[N + 1].from + i - 1]
      BY <2>2, <2>5, <3>1
    <3>4. \A k \in 1..Len(memories') : ~(N + 1 < k)
      BY <1>6, <2>4
    <3>5. \A p \in deleted'[s] : ~Covers(N + 1, p)'
      BY <2>3
    <3> QED
      BY <3>2, <3>3, <3>4, <3>5 DEF SummaryKept
<1> QED
  BY <1>5, <1>6, <1>9, <1>11, <1>12, <1>10 DEF ToldKept
-----------------------------------------------------------------------------
(* A session is deleted with what is in its window.                       *)
LEMMA TurnsArchived ==
  ASSUME ToldTypes, NEW s \in Sessions, ToldKept(s),
         Talk!Turns(s)' = <<>>, appended'[s] = appended[s], UNCHANGED memories,
         deleted'[s] = deleted[s] \cup ((Talk!Gone(s) + 1)..Len(appended[s]))
  PROVE  ToldKept(s)'
<1> DEFINE g == Talk!Gone(s)
           T == Len(appended[s])
<1>1. T \in Nat /\ g \in Nat /\ g <= T
  <2> DEFINE W == Len(Talk!Turns(s))
  <2>1. W \in Nat /\ T \in Nat /\ W <= T /\ g = T - W
    BY TurnsTyped DEF ToldKept, WindowKept, Talk!Gone
  <2> HIDE DEF W, T, g
  <2> QED
    BY <2>1
<1>2. Talk!Gone(s)' = T
  <2>1. Len(Talk!Turns(s)') = 0
    OBVIOUS
  <2>2. Talk!Gone(s)' = T - 0
    BY <2>1 DEF Talk!Gone
  <2> HIDE DEF T
  <2> QED
    BY <1>1, <2>2
<1>3. WindowKept(s)'
  <2>1. Len(Talk!Turns(s)') = 0
    OBVIOUS
  <2>2. 0 <= T /\ 0 <= WindowSize /\ 1..0 = {}
    BY <1>1, TalkAssumption
  <2> QED
    BY <2>1, <2>2 DEF WindowKept
<1>4. \A m \in 1..Len(memories) : \A p : Covers(m, p)' = Covers(m, p)
  BY DEF Covers
<1>5. deleted[s] \subseteq 1..g
  BY DEF ToldKept, NoneMissing
<1>6. NoneMissing(s)'
  <2>1. \A p \in 1..T : p \in 1..g \/ p \in (g + 1)..T
    <3> HIDE DEF g, T
    <3> QED
      BY <1>1
  <2>2. 1..g \subseteq 1..T /\ (g + 1)..T \subseteq 1..T
    <3> HIDE DEF g, T
    <3> QED
      BY <1>1
  <2>3. deleted'[s] \subseteq 1..T
    BY <1>5, <2>2
  <2>4. ASSUME NEW p \in 1..T, p \notin deleted'[s]
        PROVE  \E m \in 1..Len(memories) : memories[m].session = s /\ Covers(m, p)
    <3>1. p \in 1..g /\ p \notin deleted[s]
      BY <2>1, <2>4
    <3> QED
      BY <3>1 DEF ToldKept, NoneMissing
  <2> QED
    BY <1>2, <1>4, <2>3, <2>4 DEF NoneMissing
<1>7. ASSUME NEW m \in 1..Len(memories), memories[m].session = s PROVE SummaryKept(s, m)'
  <2> DEFINE f == memories[m].from
             n == Len(memories[m].turns)
  <2>1. f + n - 1 <= g /\ f \in Nat /\ n \in Nat
    BY <1>7, MemoryTyped DEF ToldKept, SummaryKept
  <2>2. f + n - 1 <= T /\ \A p \in (g + 1)..T : ~(p < f + n)
    <3> HIDE DEF f, n, g, T
    <3> QED
      BY <1>1, <2>1
  <2>3. \A p \in deleted'[s] : ~Covers(m, p)
    BY <1>7, <2>2 DEF ToldKept, SummaryKept, Covers
  <2> QED
    BY <1>2, <1>4, <1>7, <2>2, <2>3 DEF ToldKept, SummaryKept
<1> QED
  BY <1>3, <1>6, <1>7 DEF ToldKept

LEMMA ArchiveTold ==
  ASSUME ToldInv, Talk!ArchiveStale
  PROVE  ToldInv'
<1> PICK stale \in SUBSET Sessions :
      /\ sessions' = [s \in Sessions |-> IF s \in stale THEN None ELSE sessions[s]]
      /\ deleted' = [s \in Sessions |-> IF s \in stale
           THEN deleted[s] \cup ((Talk!Gone(s) + 1)..Len(appended[s])) ELSE deleted[s]]
      /\ UNCHANGED <<tick, memories, appended>>
  BY DEF Talk!ArchiveStale
<1>1. ToldTypes
  BY DEF ToldInv
<1>2. ASSUME NEW s \in Sessions
      PROVE  /\ (Talk!Gone(s) + 1)..Len(appended[s]) \in SUBSET Nat
             /\ ToldKept(s)
  <2>1. ToldKept(s)
    BY DEF ToldInv
  <2> DEFINE W == Len(Talk!Turns(s))
             T == Len(appended[s])
             g == Talk!Gone(s)
  <2>2. W \in Nat /\ T \in Nat /\ W <= T /\ g = T - W
    BY <1>1, <2>1, TurnsTyped DEF ToldKept, WindowKept, Talk!Gone
  <2>3. (g + 1)..T \in SUBSET Nat
    <3> HIDE DEF W, T, g
    <3> QED
      BY <2>2
  <2> QED
    BY <2>1, <2>3
<1>3. sessions' \in [Sessions -> {None} \cup Conversations]
  BY <1>1 DEF ToldTypes
<1>4. deleted' \in [Sessions -> SUBSET Nat]
  BY <1>1, <1>2 DEF ToldTypes
<1>5. ToldTypes'
  BY <1>1, <1>3, <1>4 DEF ToldTypes
<1>6. ASSUME NEW s \in Sessions PROVE ToldKept(s)'
  <2>1. CASE s \in stale
    <3>1. Talk!Turns(s)' = <<>>
      BY <2>1 DEF Talk!Turns
    <3>2. deleted'[s] = deleted[s] \cup ((Talk!Gone(s) + 1)..Len(appended[s]))
      BY <2>1
    <3> QED
      BY <1>1, <1>2, <3>1, <3>2, TurnsArchived
  <2>2. CASE s \notin stale
    <3>1. sessions'[s] = sessions[s] /\ deleted'[s] = deleted[s]
      BY <2>2
    <3>2. Talk!Turns(s)' = Talk!Turns(s)
      BY <3>1 DEF Talk!Turns
    <3> QED
      BY <1>2, <3>1, <3>2, ToldStays
  <2> QED
    BY <2>1, <2>2
<1> QED
  BY <1>5, <1>6 DEF ToldInv

(* ContextManager.Append: as a session's window gets a turn, so does what  *)
(* it was told.                                                            *)
LEMMA AppendTold ==
  ASSUME ToldInv, NEW s \in Sessions, NEW turn \in TurnSet, Talk!AppendTurn(s, turn),
         appended' = [appended EXCEPT ![s] = Append(appended[s], turn)],
         UNCHANGED <<tick, deleted>>
  PROVE  ToldInv' /\ Grown
<1> DEFINE w == Talk!Turns(s)
           all == Append(w, turn)
           excess == Len(all) - WindowSize
           remove == IF excess > SummaryThreshold THEN SummaryThreshold ELSE excess
           x == Talk!Summary(s, SubSeq(all, 1, remove))
<1>1. ToldTypes /\ ToldKept(s) /\ WindowKept(s) /\ Len(w) <= WindowSize
  BY DEF ToldInv, ToldKept, WindowKept
<1>2. /\ Len(w) \in Nat /\ Talk!Gone(s) \in Nat /\ all \in Seq(TurnSet) /\ Len(all) = Len(w) + 1
  BY <1>1, TurnBehind
<1>3. \/ /\ excess > 0
         /\ sessions' = [sessions EXCEPT ![s] =
                           [turns |-> SubSeq(all, remove + 1, Len(all)), accessed |-> tick]]
         /\ memories' = Append(memories, x)
      \/ /\ ~(excess > 0)
         /\ sessions' = [sessions EXCEPT ![s] = [turns |-> all, accessed |-> tick]]
         /\ UNCHANGED memories
  BY DEF Talk!AppendTurn
<1>4. /\ appended'[s] = Append(appended[s], turn) /\ appended' \in [Sessions -> Seq(TurnSet)]
      /\ \A q \in Sessions : q # s => appended'[q] = appended[q]
  BY <1>1 DEF ToldTypes
<1>5. ASSUME NEW new \in Seq(TurnSet),
             sessions' = [sessions EXCEPT ![s] = [turns |-> new, accessed |-> tick]]
      PROVE  /\ sessions' \in [Sessions -> {None} \cup Conversations]
             /\ Talk!Turns(s)' = new
             /\ \A q \in Sessions : q # s => Talk!Turns(q)' = Talk!Turns(q)
  <2>1. [turns |-> new, accessed |-> tick] \in Conversations
    BY <1>1 DEF Conversations, ToldTypes
  <2>2. sessions'[s] = [turns |-> new, accessed |-> tick]
    BY <1>1, <1>5 DEF ToldTypes
  <2>3. None \notin Conversations
    BY TalkAssumption DEF Conversations, TurnSet, Said
  <2>4. Talk!Turns(s)' = new
    BY <2>1, <2>2, <2>3 DEF Talk!Turns
  <2>5. \A q \in Sessions : q # s => sessions'[q] = sessions[q]
    BY <1>1, <1>5 DEF ToldTypes
  <2> QED
    BY <1>1, <1>5, <2>1, <2>4, <2>5 DEF ToldTypes, Talk!Turns
<1>6. CASE ~(excess > 0)
  <2>1. sessions' = [sessions EXCEPT ![s] = [turns |-> all, accessed |-> tick]]
        /\ UNCHANGED memories
    BY <1>3, <1>6
  <2>2. Len(w) < WindowSize
    <3>1. ~(Len(all) - WindowSize > 0)
      BY <1>6
    <3> HIDE DEF w, all
    <3> QED
      BY <1>2, <3>1, TalkAssumption
  <2>3. /\ sessions' \in [Sessions -> {None} \cup Conversations] /\ Talk!Turns(s)' = all
        /\ \A q \in Sessions : q # s => Talk!Turns(q)' = Talk!Turns(q)
    BY <1>2, <1>5, <2>1
  <2>4. ToldTypes'
    BY <1>1, <1>4, <2>1, <2>3 DEF ToldTypes
  <2>5. ASSUME NEW q \in Sessions PROVE ToldKept(q)'
    <3>1. CASE q = s
      BY <1>1, <1>4, <2>1, <2>2, <2>3, <3>1, TurnFits
    <3>2. CASE q # s
      <4>1. ToldKept(q)
        BY DEF ToldInv
      <4>2. appended'[q] = appended[q] /\ Talk!Turns(q)' = Talk!Turns(q)
        BY <1>4, <2>3, <3>2
      <4> QED
        BY <2>1, <4>1, <4>2, ToldStays
    <3> QED
      BY <3>1, <3>2
  <2>6. Grown
    <3>1. memories \in Seq(Memories)
      BY <1>1 DEF ToldTypes
    <3> QED
      BY <2>1, <3>1 DEF Grown
  <2> QED
    BY <2>4, <2>5, <2>6 DEF ToldInv
<1>7. CASE excess > 0
  <2>1. Len(w) = WindowSize /\ remove = 1 /\ Len(all) = WindowSize + 1
    <3>1. Len(all) - WindowSize > 0
      BY <1>7
    <3>2. Len(w) = WindowSize /\ Len(all) = WindowSize + 1 /\ Len(all) - WindowSize = 1
      <4> HIDE DEF w, all
      <4> QED
        BY <1>1, <1>2, <3>1, TalkAssumption
    <3>3. remove = IF 1 > SummaryThreshold THEN SummaryThreshold ELSE 1
      BY <3>2
    <3> HIDE DEF remove
    <3> QED
      BY <3>2, <3>3, TalkAssumption
  <2> DEFINE rest == SubSeq(all, 2, WindowSize + 1)
             one == SubSeq(all, 1, 1)
  <2>2. rest \in Seq(TurnSet) /\ one \in Seq(TurnSet)
    <3> HIDE DEF all
    <3> QED
      BY <1>2, <2>1, TalkAssumption
  <2>3. x = Talk!Summary(s, one) /\ remove + 1 = 2
    BY <2>1
  <2>4. sessions' = [sessions EXCEPT ![s] = [turns |-> rest, accessed |-> tick]]
        /\ memories' = Append(memories, Talk!Summary(s, one))
    BY <1>3, <1>7, <2>1, <2>3
  <2>5. /\ sessions' \in [Sessions -> {None} \cup Conversations] /\ Talk!Turns(s)' = rest
        /\ \A q \in Sessions : q # s => Talk!Turns(q)' = Talk!Turns(q)
    BY <1>5, <2>2, <2>4
  <2> DEFINE y == Talk!Summary(s, one)
  <2>6. y.session = s /\ y.from = Talk!Gone(s) + 1 /\ y.turns = one /\ y \in Memories
    <3>1. \A i \in DOMAIN one : one[i].content \in Said
      <4> HIDE DEF one
      <4>1. \A i \in DOMAIN one : one[i] \in TurnSet
        BY <2>2
      <4> QED
        BY <4>1 DEF TurnSet
    <3>2. UNION {Keywords[one[i].content] : i \in DOMAIN one} \in SUBSET SaidWords
      BY <3>1 DEF SaidWords
    <3>3. Talk!Gone(s) + 1 \in Nat \ {0} /\ tick \in Nat
      BY <1>1, <1>2 DEF ToldTypes
    <3> HIDE DEF one
    <3> QED
      BY <2>2, <3>2, <3>3 DEF Talk!Summary, Memories
  <2>7. memories \in Seq(Memories) /\ memories' \in Seq(Memories)
    <3>1. memories \in Seq(Memories)
      BY <1>1 DEF ToldTypes
    <3> HIDE DEF y
    <3> QED
      BY <2>4, <2>6, <3>1 DEF y
  <2> HIDE DEF rest, one, y
  <2>8. ToldTypes'
    BY <1>1, <1>4, <2>5, <2>7 DEF ToldTypes
  <2>9. ASSUME NEW q \in Sessions PROVE ToldKept(q)'
    <3>1. CASE q = s
      BY <1>1, <1>4, <2>1, <2>4, <2>5, <2>6, <3>1, TurnPushes DEF y, rest, one
    <3>2. CASE q # s
      <4>1. ToldKept(q)
        BY DEF ToldInv
      <4>2. appended'[q] = appended[q] /\ Talk!Turns(q)' = Talk!Turns(q) /\ y.session # q
        BY <1>4, <2>5, <2>6, <3>2
      <4> QED
        BY <2>4, <2>6, <2>7, <4>1, <4>2, OtherTold DEF y
    <3> QED
      BY <3>1, <3>2
  <2>10. Grown
    <3>1. memories' = Append(memories, y)
      BY <2>4 DEF y
    <3> QED
      BY <2>7, <3>1 DEF Grown
  <2> QED
    BY <2>8, <2>9, <2>10 DEF ToldInv
<1> QED
  BY <1>6, <1>7
-----------------------------------------------------------------------------
(* Dialogues: the memories that are found *)

LEMMA FromTheStart ==
  ASSUME NEW N \in Nat, NEW S, 0 \in S, \A n \in 1..N : n - 1 \in S => n \in S
  PROVE  \A n \in 0..N : n \in S
<1> DEFINE out == {n \in 0..N : n \notin S}
<1>1. SUFFICES ASSUME out # {} PROVE FALSE
  OBVIOUS
<1>2. out \subseteq Nat
  OBVIOUS
<1> HIDE DEF out
<1>3. PICK n \in out : \A m \in out : n <= m
  BY <1>1, <1>2, LeastNumber
<1>4. n \in 0..N /\ n \notin S /\ n # 0
  BY <1>3 DEF out
<1>5. n \in 1..N /\ n - 1 \in 0..N /\ ~(n <= n - 1)
  BY <1>4
<1>6. n - 1 \in S
  BY <1>3, <1>5 DEF out
<1> QED
  BY <1>4, <1>5, <1>6

LEMMA SimilarBothWays ==
  ASSUME NEW a, NEW b
  PROVE  Talk!Similar(a, b) <=> Talk!Similar(b, a)
<1> DEFINE x == memories[a].keywords
           y == memories[b].keywords
<1>1. x \cap y = y \cap x /\ x \cup y = y \cup x
  OBVIOUS
<1> QED
  BY <1>1 DEF Talk!Similar

(* kept[n] is what is left of the first n.                                 *)
Merges(kept, ranked, n) ==
  kept[n] = IF n = 0 THEN <<>>
            ELSE IF \E i \in DOMAIN kept[n - 1] : Talk!Similar(ranked[n], kept[n - 1][i])
                 THEN kept[n - 1] ELSE Append(kept[n - 1], ranked[n])

LEMMA MergeExists ==
  ASSUME NEW M, NEW ranked \in Seq(M)
  PROVE  \E f \in [0..Len(ranked) -> Seq(M)] : \A n \in 0..Len(ranked) : Merges(f, ranked, n)
<1> DEFINE N == Len(ranked)
           fs == [0..N -> Seq(M)]
           S == {n \in 0..N : \E f \in fs : \A m \in 0..n : Merges(f, ranked, m)}
<1>1. N \in Nat /\ <<>> \in Seq(M)
  OBVIOUS
<1>2. 0 \in S
  <2> DEFINE f == [n \in 0..N |-> <<>>]
  <2>1. f \in fs /\ f[0] = <<>>
    BY <1>1
  <2>2. \A m \in 0..0 : m = 0
    OBVIOUS
  <2> HIDE DEF f
  <2>3. \A m \in 0..0 : Merges(f, ranked, m)
    BY <2>1, <2>2 DEF Merges
  <2>4. 0 \in 0..N
    BY <1>1
  <2> QED
    BY <2>1, <2>3, <2>4
<1>3. ASSUME NEW n \in 1..N, n - 1 \in S PROVE n \in S
  <2>1. PICK f \in fs : \A m \in 0..(n - 1) : Merges(f, ranked, m)
    BY <1>3
  <2>2. n - 1 \in 0..N /\ n \in 0..N /\ n # 0
    BY <1>1
  <2>3. f[n - 1] \in Seq(M) /\ ranked[n] \in M
    BY <2>2
  <2> DEFINE next == IF \E i \in DOMAIN f[n - 1] : Talk!Similar(ranked[n], f[n - 1][i])
                     THEN f[n - 1] ELSE Append(f[n - 1], ranked[n])
             g == [f EXCEPT ![n] = next]
  <2>4. next \in Seq(M)
    BY <2>3
  <2>5. g \in fs /\ g[n] = next /\ \A m \in 0..(n - 1) : g[m] = f[m]
    <3> HIDE DEF next
    <3> QED
      BY <1>1, <2>2, <2>4
  <2>6. g[n - 1] = f[n - 1]
    BY <1>1, <2>5
  <2> HIDE DEF g
  <2>7. Merges(g, ranked, n)
    BY <2>2, <2>5, <2>6 DEF Merges
  <2>8. ASSUME NEW m \in 0..(n - 1) PROVE Merges(g, ranked, m)
    <3>1. Merges(f, ranked, m) /\ g[m] = f[m]
      BY <2>1, <2>5
    <3>2. m # 0 => g[m - 1] = f[m - 1]
      BY <1>1, <2>5
    <3> QED
      BY <3>1, <3>2 DEF Merges
  <2>9. \A m \in 0..n : m = n \/ m \in 0..(n - 1)
    BY <1>1
  <2> QED
    BY <2>2, <2>5, <2>7, <2>8, <2>9
<1> HIDE DEF S
<1>4. \A n \in 0..N : n \in S
  BY <1>1, <1>2, <1>3, FromTheStart
<1>5. N \in 0..N
  BY <1>1
<1> QED
  BY <1>4, <1>5 DEF S

LEMMA MergedDistinct ==
  ASSUME NEW M, NEW ranked \in Seq(M)
  PROVE  LET f == Talk!MergeSimilar(ranked)
         IN  f \in Seq(M) /\ \A i, j \in DOMAIN f : i < j => ~Talk!Similar(f[i], f[j])
<1> DEFINE N == Len(ranked)
           is(f) == f = [n \in 0..Len(ranked) |->
                           IF n = 0 THEN <<>>
                           ELSE IF \E i \in DOMAIN f[n - 1] : Talk!Similar(ranked[n], f[n - 1][i])
                                THEN f[n - 1] ELSE Append(f[n - 1], ranked[n])]
           kept == CHOOSE f : is(f)
<1>1. N \in Nat
  OBVIOUS
<1>2. Talk!MergeSimilar(ranked) = kept[N]
  BY DEF Talk!MergeSimilar
<1>3. PICK f \in [0..N -> Seq(M)] : \A n \in 0..N : Merges(f, ranked, n)
  BY MergeExists
<1>4. is(f)
  BY <1>3 DEF Merges
<1>5. is(kept)
  <2> HIDE DEF is
  <2> QED
    BY <1>4
<1>6. \A n \in 0..N : Merges(kept, ranked, n)
  <2> HIDE DEF kept
  <2> QED
    BY <1>5 DEF Merges
<1> HIDE DEF is, kept
<1> DEFINE S == {n \in 0..N : /\ kept[n] \in Seq(M)
                              /\ \A i, j \in DOMAIN kept[n] : i < j =>
                                   ~Talk!Similar(kept[n][i], kept[n][j])}
<1>7. 0 \in S
  <2>1. 0 \in 0..N /\ kept[0] = <<>>
    BY <1>1, <1>6 DEF Merges
  <2>2. kept[0] \in Seq(M)
    BY <2>1
  <2>3. \A i \in DOMAIN kept[0] : FALSE
    BY <2>1
  <2> QED
    BY <2>1, <2>2, <2>3
<1>8. ASSUME NEW n \in 1..N, n - 1 \in S PROVE n \in S
  <2> DEFINE old == kept[n - 1]
             m == ranked[n]
  <2>1. n \in 0..N /\ n # 0 /\ m \in M
    BY <1>1
  <2>2. old \in Seq(M) /\ \A i, j \in DOMAIN old : i < j => ~Talk!Similar(old[i], old[j])
    BY <1>8
  <2>3. kept[n] = IF \E i \in DOMAIN old : Talk!Similar(m, old[i]) THEN old ELSE Append(old, m)
    BY <1>6, <2>1 DEF Merges
  <2> HIDE DEF old, m
  <2>4. CASE \E i \in DOMAIN old : Talk!Similar(m, old[i])
    BY <2>1, <2>2, <2>3, <2>4
  <2>5. CASE ~\E i \in DOMAIN old : Talk!Similar(m, old[i])
    <3>1. kept[n] = Append(old, m)
      BY <2>3, <2>5
    <3> DEFINE new == Append(old, m)
               L == Len(old)
    <3>2. /\ new \in Seq(M) /\ L \in Nat /\ DOMAIN new = 1..(L + 1) /\ DOMAIN old = 1..L
          /\ new[L + 1] = m /\ \A i \in 1..L : new[i] = old[i]
      BY <2>1, <2>2
    <3> HIDE DEF new, L
    <3>3. ASSUME NEW i \in DOMAIN new, NEW j \in DOMAIN new, i < j
          PROVE  ~Talk!Similar(new[i], new[j])
      <4>1. i \in 1..L /\ (j \in 1..L \/ j = L + 1)
        BY <3>2, <3>3
      <4>2. CASE j \in 1..L
        BY <2>2, <3>2, <3>3, <4>1, <4>2
      <4>3. CASE j = L + 1
        <5>1. ~Talk!Similar(m, old[i])
          BY <2>5, <3>2, <4>1
        <5>2. ~Talk!Similar(old[i], m)
          BY <5>1, SimilarBothWays
        <5> QED
          BY <3>2, <4>1, <4>3, <5>2
      <4> QED
        BY <4>1, <4>2, <4>3
    <3>4. kept[n] = new
      BY <3>1 DEF new
    <3> QED
      BY <2>1, <3>2, <3>3, <3>4
  <2> QED
    BY <2>4, <2>5
<1> HIDE DEF S
<1>9. \A n \in 0..N : n \in S
  BY <1>1, <1>7, <1>8, FromTheStart
<1>10. N \in 0..N
  BY <1>1
<1> QED
  BY <1>2, <1>9, <1>10 DEF S

FoundOK(r) ==
  /\ run[r].found \in Seq(1..Len(memories)) /\ Len(run[r].found) <= MemoryLimit
  /\ \A i, j \in DOMAIN run[r].found : i < j =>
       ~Talk!Similar(run[r].found[i], run[r].found[j])

(* Memories are only added, and keep their keywords.                       *)
LEMMA FoundStays ==
  ASSUME Grown, memories \in Seq(Memories), NEW r, NEW f, run'[r].found = f,
         f \in Seq(1..Len(memories)), Len(f) <= MemoryLimit,
         \A i, j \in DOMAIN f : i < j => ~Talk!Similar(f[i], f[j])
  PROVE  FoundOK(r)'
<1>1. 1..Len(memories) \subseteq 1..Len(memories')
  BY DEF Grown
<1>2. f \in Seq(1..Len(memories'))
  BY <1>1, SeqMonotonic
<1>3. \A i \in DOMAIN f : f[i] \in 1..Len(memories)
  OBVIOUS
<1>4. ASSUME NEW a \in 1..Len(memories), NEW b \in 1..Len(memories)
      PROVE  Talk!Similar(a, b)' <=> Talk!Similar(a, b)
  <2>1. memories'[a].keywords = memories[a].keywords /\ memories'[b].keywords = memories[b].keywords
    BY DEF Grown
  <2> QED
    BY <2>1 DEF Talk!Similar
<1>5. \A i, j \in DOMAIN f : i < j => ~Talk!Similar(f[i], f[j])'
  BY <1>3, <1>4
<1> QED
  BY <1>2, <1>5 DEF FoundOK

LEMMA TalkCardinality == ASSUME NEW S PROVE Talk!Cardinality(S) = Cardinality(S)
BY DEF Cardinality, Talk!Cardinality

LEMMA RankedMemories ==
  ASSUME memories \in Seq(Memories), NEW text, NEW S \in Talk!Found(text),
         NEW ranked \in Talk!Ranked(S)
  PROVE  ranked \in Seq(1..Len(memories))
<1>1. S \subseteq DOMAIN memories /\ DOMAIN memories = 1..Len(memories)
  BY DEF Talk!Found
<1>2. IsFiniteSet(1..Len(memories))
  BY FS_Interval
<1>3. Cardinality(S) \in Nat
  BY <1>1, <1>2, FS_Subset, FS_CardinalityType
<1>4. ranked \in [1..Cardinality(S) -> S]
  BY TalkCardinality DEF Talk!Ranked
<1>5. ranked \in [1..Cardinality(S) -> 1..Len(memories)]
  BY <1>1, <1>4
<1> QED
  BY <1>3, <1>5, SeqDef

LEMMA CutShort ==
  ASSUME NEW M, NEW q \in Seq(M), NEW n \in Nat
  PROVE  /\ Talk!Cut(q, n) \in Seq(M) /\ Len(Talk!Cut(q, n)) <= n
         /\ \A i \in DOMAIN Talk!Cut(q, n) : i \in DOMAIN q /\ Talk!Cut(q, n)[i] = q[i]
<1> DEFINE k == IF Len(q) < n THEN Len(q) ELSE n
<1>1. Len(q) \in Nat /\ DOMAIN q = 1..Len(q)
  OBVIOUS
<1>2. k \in Nat /\ k <= Len(q) /\ k <= n
  BY <1>1
<1>3. Talk!Cut(q, n) = SubSeq(q, 1, k)
  BY DEF Talk!Cut
<1> HIDE DEF k
<1>4. /\ SubSeq(q, 1, k) \in Seq(M) /\ Len(SubSeq(q, 1, k)) = k
      /\ \A i \in 1..k : SubSeq(q, 1, k)[i] = q[i]
  BY <1>1, <1>2
<1>5. \A i \in 1..k : i \in DOMAIN q
  BY <1>1, <1>2
<1>6. DOMAIN SubSeq(q, 1, k) = 1..k
  BY <1>2, <1>4
<1> QED
  BY <1>2, <1>3, <1>4, <1>5, <1>6

(* The memories are read, and their access is noted.                       *)
LEMMA ContextTold ==
  ASSUME ToldInv, NEW r, Talk!GetContext(r)
  PROVE  /\ ToldInv' /\ Grown
         /\ \E f \in Seq(1..Len(memories)) :
              /\ \E p : run' = [run EXCEPT ![r].at = "llm", ![r].found = f, ![r].prompt = p]
              /\ Len(f) <= MemoryLimit
              /\ \A i, j \in DOMAIN f : i < j => ~Talk!Similar(f[i], f[j])
<1> PICK s : s = run[r].session
  OBVIOUS
<1>1. PICK S \in Talk!Found(run[r].text) : \E ranked \in Talk!Ranked(S) :
        LET found == Talk!Cut(Talk!MergeSimilar(ranked), MemoryLimit)
        IN  /\ memories' = [m \in DOMAIN memories |->
                              IF Talk!Contains(found, m)
                              THEN [memories[m] EXCEPT !.accessed = tick] ELSE memories[m]]
            /\ run' = [run EXCEPT ![r].at = "llm", ![r].found = found,
                                  ![r].prompt = Talk!LastOf(Talk!Turns(s), InjectRounds)]
            /\ sessions' = IF sessions[s] = None THEN sessions
                           ELSE [sessions EXCEPT ![s].accessed = tick]
  BY DEF Talk!GetContext
<1>2. PICK ranked \in Talk!Ranked(S) :
        LET found == Talk!Cut(Talk!MergeSimilar(ranked), MemoryLimit)
        IN  /\ memories' = [m \in DOMAIN memories |->
                              IF Talk!Contains(found, m)
                              THEN [memories[m] EXCEPT !.accessed = tick] ELSE memories[m]]
            /\ run' = [run EXCEPT ![r].at = "llm", ![r].found = found,
                                  ![r].prompt = Talk!LastOf(Talk!Turns(s), InjectRounds)]
            /\ sessions' = IF sessions[s] = None THEN sessions
                           ELSE [sessions EXCEPT ![s].accessed = tick]
  BY <1>1
<1> DEFINE found == Talk!Cut(Talk!MergeSimilar(ranked), MemoryLimit)
           heard == {m \in DOMAIN memories : Talk!Contains(found, m)}
           N == Len(memories)
<1>3. ToldTypes /\ UNCHANGED <<tick, appended, deleted>>
  BY DEF ToldInv, Talk!GetContext
<1>4. memories \in Seq(Memories) /\ N \in Nat /\ DOMAIN memories = 1..N
  BY <1>3 DEF ToldTypes
<1>5. memories' = [m \in 1..N |-> IF m \in heard THEN [memories[m] EXCEPT !.accessed = tick]
                                                 ELSE memories[m]]
  BY <1>2, <1>4
<1>6. sessions' = IF sessions[s] = None THEN sessions
                  ELSE [sessions EXCEPT ![s].accessed = tick]
  BY <1>2
<1>7. /\ run' = [run EXCEPT ![r].at = "llm", ![r].found = found,
                            ![r].prompt = Talk!LastOf(Talk!Turns(s), InjectRounds)]
      /\ found \in Seq(1..N) /\ Len(found) <= MemoryLimit
      /\ \A i, j \in DOMAIN found : i < j => ~Talk!Similar(found[i], found[j])
  <2> DEFINE merged == Talk!MergeSimilar(ranked)
  <2>1. ranked \in Seq(1..N)
    BY <1>4, RankedMemories
  <2>2. merged \in Seq(1..N)
        /\ \A i, j \in DOMAIN merged : i < j => ~Talk!Similar(merged[i], merged[j])
    BY <2>1, MergedDistinct
  <2>3. MemoryLimit \in Nat /\ found = Talk!Cut(merged, MemoryLimit)
    BY TalkAssumption
  <2>4. run' = [run EXCEPT ![r].at = "llm", ![r].found = found,
                           ![r].prompt = Talk!LastOf(Talk!Turns(s), InjectRounds)]
    BY <1>2
  <2> HIDE DEF merged, found
  <2>5. /\ found \in Seq(1..N) /\ Len(found) <= MemoryLimit
        /\ \A i \in DOMAIN found : i \in DOMAIN merged /\ found[i] = merged[i]
    BY <2>2, <2>3, CutShort
  <2> QED
    BY <2>2, <2>4, <2>5
<1> HIDE DEF found, heard
<1>8. /\ Len(memories') = N
      /\ \A m \in 1..N : /\ memories'[m].session = memories[m].session
                          /\ memories'[m].from = memories[m].from
                          /\ memories'[m].turns = memories[m].turns
                          /\ memories'[m].keywords = memories[m].keywords
                          /\ memories'[m] \in Memories
  <2>1. tick \in Nat /\ \A m \in 1..N : memories[m] \in Memories
    BY <1>3, <1>4 DEF ToldTypes
  <2>2. ASSUME NEW m \in 1..N
        PROVE  /\ memories'[m].session = memories[m].session
               /\ memories'[m].from = memories[m].from
               /\ memories'[m].turns = memories[m].turns
               /\ memories'[m].keywords = memories[m].keywords
               /\ memories'[m] \in Memories
    <3>1. \/ memories'[m] = [memories[m] EXCEPT !.accessed = tick]
          \/ memories'[m] = memories[m]
      BY <1>5
    <3> QED
      BY <2>1, <3>1 DEF Memories
  <2>3. Len(memories') = N
    <3> HIDE DEF N
    <3> QED
      BY <1>4, <1>5
  <2> QED
    BY <2>2, <2>3
<1>9. memories' \in Seq(Memories)
  <2>1. memories' \in [1..N -> Memories]
    BY <1>5, <1>8
  <2> QED
    BY <1>4, <2>1, SeqDef
<1>10. /\ sessions' \in [Sessions -> {None} \cup Conversations]
       /\ \A q \in Sessions : Talk!Turns(q)' = Talk!Turns(q)
  <2>1. CASE ~(s \in Sessions /\ sessions[s] # None)
    <3>1. sessions' = sessions
      BY <1>3, <1>6, <2>1 DEF ToldTypes
    <3> QED
      BY <1>3, <3>1 DEF ToldTypes, Talk!Turns
  <2>2. CASE s \in Sessions /\ sessions[s] # None
    <3>1. sessions' = [sessions EXCEPT ![s].accessed = tick] /\ sessions[s] \in Conversations
      BY <1>3, <1>6, <2>2 DEF ToldTypes
    <3>2. /\ sessions'[s].turns = sessions[s].turns /\ sessions'[s] \in Conversations
          /\ \A q \in Sessions : q # s => sessions'[q] = sessions[q]
      BY <1>3, <2>2, <3>1 DEF ToldTypes, Conversations
    <3>3. None \notin Conversations
      BY TalkAssumption DEF Conversations, TurnSet, Said
    <3>4. Talk!Turns(s)' = Talk!Turns(s)
      BY <2>2, <3>2, <3>3 DEF Talk!Turns
    <3>5. sessions' \in [Sessions -> {None} \cup Conversations]
      BY <1>3, <2>2, <3>1, <3>2 DEF ToldTypes
    <3> QED
      BY <3>2, <3>4, <3>5 DEF Talk!Turns
  <2> QED
    BY <2>1, <2>2
<1>11. ToldTypes'
  BY <1>3, <1>9, <1>10 DEF ToldTypes
<1>12. ASSUME NEW q \in Sessions PROVE ToldKept(q)'
  <2>1. ToldKept(q) /\ Talk!Turns(q)' = Talk!Turns(q)
    BY <1>10 DEF ToldInv
  <2> QED
    BY <1>3, <1>8, <2>1, ToldStays
<1>13. Grown
  BY <1>4, <1>8 DEF Grown
<1>14. ToldInv'
  BY <1>11, <1>12 DEF ToldInv
<1> QED
  BY <1>7, <1>13, <1>14
-----------------------------------------------------------------------------
(* Dialogues: requests and what they leave *)

TalkPlaces == {"idle", "recognize", "append", "skill", "context", "llm", "streamed", "done"}

IsRun(x) ==
  x = [at |-> x.at, n |-> x.n, session |-> x.session, text |-> x.text, last |-> x.last,
       intent |-> x.intent, ids |-> x.ids, out |-> x.out, prompt |-> x.prompt, found |-> x.found]

Running(x) ==
  /\ IsRun(x) /\ x.at \in TalkPlaces
  /\ x.at # "idle" => /\ x.n \in Nat /\ x.session \in Sessions /\ x.text \in Requests
                      /\ x.out \in {Answer, None}

Own(x, told) == {p \in 1..Len(told) : told[p].n = x.n}

(* AnswerBehindQuestion, and what a request has left before it is done.    *)
LeftOwn(x, told) ==
  /\ x.at \in {"recognize", "append"} => Own(x, told) = {}
  /\ x.at \in {"skill", "context", "llm"} =>
       x.intent # "system" /\ \E p \in Own(x, told) : told[p].role = "user" /\ Own(x, told) = {p}
  /\ x.at = "done" =>
       \E p \in Own(x, told) :
         /\ told[p].role = "user"
         /\ IF x.intent = "system" THEN Own(x, told) = {p}
            ELSE \E q \in Own(x, told) :
                   told[q].role = "assistant" /\ p < q /\ Own(x, told) = {p, q}

TalkRuns ==
  /\ runs \in Nat
  /\ run = [r \in Goroutines |-> run[r]]
  /\ \A r \in Goroutines : Running(run[r])
  /\ \A r \in Goroutines : run[r].at # "idle" =>
       run[r].n <= runs /\ LeftOwn(run[r], appended[run[r].session])
  /\ \A r, q \in Goroutines :
       r # q /\ run[r].at # "idle" /\ run[q].at # "idle" => run[r].n # run[q].n
  /\ \A s \in Sessions : \A p \in 1..Len(appended[s]) : appended[s][p].n <= runs

TalkInv == ToldInv /\ TalkRuns /\ \A r \in Goroutines : FoundOK(r)

LEMMA OwnOrNot ==
  ASSUME NEW told \in Seq(TurnSet), NEW turn \in TurnSet, NEW x
  PROVE  /\ Len(told) \in Nat /\ Len(Append(told, turn)) = Len(told) + 1
         /\ Append(told, turn)[Len(told) + 1] = turn
         /\ \A p \in 1..Len(told) : Append(told, turn)[p] = told[p]
         /\ turn.n # x.n => Own(x, Append(told, turn)) = Own(x, told)
         /\ turn.n = x.n => Own(x, Append(told, turn)) = Own(x, told) \cup {Len(told) + 1}
<1> DEFINE N == Len(told)
           new == Append(told, turn)
<1>1. /\ N \in Nat /\ Len(new) = N + 1 /\ new[N + 1] = turn
      /\ \A p \in 1..N : new[p] = told[p]
  OBVIOUS
<1> HIDE DEF new
<1>2. \A p \in 1..(N + 1) : p \in 1..N \/ p = N + 1
  BY <1>1
<1>3. N + 1 \in 1..(N + 1) /\ \A p \in 1..N : p \in 1..(N + 1)
  BY <1>1
<1> HIDE DEF N
<1>4. /\ Own(x, told) = {p \in 1..N : told[p].n = x.n}
      /\ Own(x, new) = {p \in 1..(N + 1) : new[p].n = x.n}
  BY <1>1 DEF Own, N
<1>5. ASSUME turn.n # x.n PROVE Own(x, new) = Own(x, told)
  BY <1>1, <1>2, <1>3, <1>4, <1>5
<1>6. ASSUME turn.n = x.n PROVE Own(x, new) = Own(x, told) \cup {N + 1}
  BY <1>1, <1>2, <1>3, <1>4, <1>6
<1> QED
  BY <1>1, <1>5, <1>6 DEF new, N

(* A turn of another request leaves what a request has left.               *)
LEMMA OtherOwn ==
  ASSUME NEW told \in Seq(TurnSet), NEW turn \in TurnSet, NEW x, turn.n # x.n, LeftOwn(x, told)
  PROVE  LeftOwn(x, Append(told, turn))
<1> DEFINE new == Append(told, turn)
<1>1. Own(x, new) = Own(x, told) /\ \A p \in 1..Len(told) : new[p] = told[p]
  BY OwnOrNot
<1>2. \A p \in Own(x, told) : new[p] = told[p]
  BY <1>1 DEF Own
<1> HIDE DEF new
<1>3. LeftOwn(x, new)
  BY <1>1, <1>2 DEF LeftOwn
<1> QED
  BY <1>3 DEF new

(* A step of one request that says nothing.                                *)
LEMMA QuietRun ==
  ASSUME TalkRuns, NEW r \in Goroutines, NEW x, run' = [run EXCEPT ![r] = x], Running(x),
         UNCHANGED <<appended, runs>>,
         x.at # "idle" => /\ run[r].at # "idle" /\ x.n = run[r].n
                          /\ LeftOwn(x, appended[x.session])
  PROVE  TalkRuns'
<1>1. /\ run'[r] = x /\ \A q \in Goroutines : q # r => run'[q] = run[q]
      /\ run' = [q \in Goroutines |-> run'[q]]
  BY DEF TalkRuns
<1>2. \A q \in Goroutines : Running(run'[q])
  BY <1>1 DEF TalkRuns
<1>3. ASSUME NEW q \in Goroutines, run'[q].at # "idle"
      PROVE  /\ run'[q].n <= runs' /\ LeftOwn(run'[q], appended'[run'[q].session])
             /\ run[q].at # "idle" /\ run'[q].n = run[q].n
  BY <1>1, <1>3 DEF TalkRuns
<1>4. \A p, q \in Goroutines :
        p # q /\ run'[p].at # "idle" /\ run'[q].at # "idle" => run'[p].n # run'[q].n
  BY <1>3 DEF TalkRuns
<1>5. /\ runs' \in Nat
      /\ \A s \in Sessions : \A p \in 1..Len(appended'[s]) : appended'[s][p].n <= runs'
  BY DEF TalkRuns
<1>6. \A q \in Goroutines : Running(run[q])'
  BY <1>2 DEF Running, IsRun
<1>7. \A q \in Goroutines : run'[q].at # "idle" =>
        LeftOwn(run[q], appended[run[q].session])'
  BY <1>3 DEF LeftOwn, Own
<1> QED
  BY <1>1, <1>3, <1>4, <1>5, <1>6, <1>7 DEF TalkRuns

(* A step of one request that tells its session a turn of its own.         *)
LEMMA TellingRun ==
  ASSUME TalkRuns, ToldTypes, NEW r \in Goroutines, NEW x, run' = [run EXCEPT ![r] = x], Running(x),
         run[r].at # "idle", x.n = run[r].n, x.session = run[r].session,
         NEW turn \in TurnSet, turn.n = x.n, UNCHANGED runs,
         appended' = [appended EXCEPT ![x.session] = Append(appended[x.session], turn)],
         LeftOwn(x, Append(appended[x.session], turn))
  PROVE  TalkRuns'
<1> DEFINE s == x.session
<1>1. /\ run'[r] = x /\ \A q \in Goroutines : q # r => run'[q] = run[q]
      /\ run' = [q \in Goroutines |-> run'[q]]
  BY DEF TalkRuns
<1>2. s \in Sessions
  BY DEF TalkRuns, Running
<1>3. /\ appended'[s] = Append(appended[s], turn) /\ appended[s] \in Seq(TurnSet)
      /\ \A t \in Sessions : t # s => appended'[t] = appended[t]
  BY <1>2 DEF ToldTypes
<1>4. \A q \in Goroutines : Running(run'[q])
  BY <1>1 DEF TalkRuns
<1>5. ASSUME NEW q \in Goroutines, run'[q].at # "idle"
      PROVE  /\ run'[q].n <= runs' /\ run[q].at # "idle" /\ run'[q].n = run[q].n
             /\ LeftOwn(run'[q], appended'[run'[q].session])
  <2>1. run'[q].n <= runs' /\ run[q].at # "idle" /\ run'[q].n = run[q].n
    BY <1>1, <1>5 DEF TalkRuns
  <2>2. CASE q = r
    BY <1>1, <1>3, <2>1, <2>2
  <2>3. CASE q # r
    <3>1. run'[q] = run[q] /\ LeftOwn(run[q], appended[run[q].session]) /\ run[q].n # turn.n
      BY <1>1, <2>1, <2>3 DEF TalkRuns
    <3>2. run[q].session \in Sessions
      BY <2>1 DEF TalkRuns, Running
    <3>3. CASE run[q].session = s
      <4>1. LeftOwn(run[q], Append(appended[s], turn))
        BY <1>3, <3>1, <3>3, OtherOwn
      <4> QED
        BY <1>3, <2>1, <3>1, <3>3, <4>1
    <3>4. CASE run[q].session # s
      BY <1>3, <2>1, <3>1, <3>2, <3>4
    <3> QED
      BY <3>3, <3>4
  <2> QED
    BY <2>2, <2>3
<1>6. \A p, q \in Goroutines :
        p # q /\ run'[p].at # "idle" /\ run'[q].at # "idle" => run'[p].n # run'[q].n
  BY <1>5 DEF TalkRuns
<1>7. ASSUME NEW t \in Sessions, NEW p \in 1..Len(appended'[t]) PROVE appended'[t][p].n <= runs'
  <2>1. CASE t # s
    BY <1>3, <2>1 DEF TalkRuns
  <2>2. CASE t = s
    <3>1. turn.n <= runs
      BY DEF TalkRuns
    <3>2. /\ Len(appended[s]) \in Nat /\ Len(appended'[s]) = Len(appended[s]) + 1
          /\ appended'[s][Len(appended[s]) + 1] = turn
          /\ \A i \in 1..Len(appended[s]) : appended'[s][i] = appended[s][i]
      BY <1>3
    <3>3. p \in 1..Len(appended[s]) \/ p = Len(appended[s]) + 1
      BY <2>2, <3>2
    <3> QED
      BY <1>2, <2>2, <3>1, <3>2, <3>3 DEF TalkRuns
  <2> QED
    BY <2>1, <2>2
<1>8. runs' \in Nat
  BY DEF TalkRuns
<1>9. \A q \in Goroutines : Running(run[q])'
  BY <1>4 DEF Running, IsRun
<1>10. \A q \in Goroutines : run'[q].at # "idle" =>
         LeftOwn(run[q], appended[run[q].session])'
  BY <1>5 DEF LeftOwn, Own
<1> QED
  BY <1>1, <1>5, <1>6, <1>7, <1>8, <1>9, <1>10 DEF TalkRuns
-----------------------------------------------------------------------------
(* Dialogues: the steps of a request *)

LEMMA SessionsStay ==
  ASSUME ToldInv, tick' \in Nat, UNCHANGED <<sessions, memories, appended, deleted>>
  PROVE  ToldInv' /\ Grown
<1>1. ToldTypes' /\ memories \in Seq(Memories)
  BY DEF ToldInv, ToldTypes
<1>2. ASSUME NEW s \in Sessions PROVE ToldKept(s)'
  <2>1. ToldKept(s) /\ Talk!Turns(s)' = Talk!Turns(s)
    BY DEF ToldInv, Talk!Turns
  <2> QED
    BY <2>1, ToldStays
<1>3. Grown
  BY <1>1 DEF Grown
<1> QED
  BY <1>1, <1>2, <1>3 DEF ToldInv

LEMMA FoundsStay ==
  ASSUME TalkInv, Grown,
         \A r \in Goroutines : run'[r].found = run[r].found \/ run'[r].found = <<>>
  PROVE  \A r \in Goroutines : FoundOK(r)'
<1>1. memories \in Seq(Memories)
  BY DEF TalkInv, ToldInv, ToldTypes
<1>2. ASSUME NEW r \in Goroutines PROVE FoundOK(r)'
  <2>1. CASE run'[r].found = run[r].found
    <3>1. FoundOK(r)
      BY DEF TalkInv
    <3> QED
      BY <1>1, <2>1, <3>1, FoundStays DEF FoundOK
  <2>2. CASE run'[r].found = <<>>
    <3> PICK f : f = <<>>
      OBVIOUS
    <3>1. f \in Seq(1..Len(memories)) /\ Len(f) <= MemoryLimit
      BY TalkAssumption
    <3>2. \A i, j \in DOMAIN f : i < j => ~Talk!Similar(f[i], f[j])
      OBVIOUS
    <3>3. run'[r].found = f
      BY <2>2
    <3> QED
      BY <1>1, <3>1, <3>2, <3>3, FoundStays
  <2> QED
    BY <1>2, <2>1, <2>2
<1> QED
  BY <1>2

LEMMA StepOfRun ==
  ASSUME TalkInv, ToldInv', Grown, TalkRuns', NEW r, NEW x, run' = [run EXCEPT ![r] = x],
         x.found = run[r].found \/ x.found = <<>>
  PROVE  TalkInv'
<1>1. \A q \in Goroutines : run'[q].found = run[q].found \/ run'[q].found = <<>>
  BY DEF TalkInv, TalkRuns
<1>2. \A q \in Goroutines : FoundOK(q)'
  BY <1>1, FoundsStay
<1> QED
  BY <1>2 DEF TalkInv

LEMMA BeginTold ==
  ASSUME TalkInv, NEW r \in Goroutines, NEW s \in Sessions, NEW text \in Requests,
         Talk!Begin(r, s, text)
  PROVE  TalkInv'
<1> PICK x : x = [Talk!NotRunning EXCEPT !.at = "recognize", !.n = runs', !.session = s,
                                         !.text = text, !.last = lastIntent[s]]
  OBVIOUS
<1>1. /\ run[r].at = "idle" /\ runs' = runs + 1 /\ run' = [run EXCEPT ![r] = x]
      /\ UNCHANGED <<tick, sessions, memories, appended, deleted>>
  BY DEF Talk!Begin
<1>2. TalkRuns /\ ToldInv /\ tick \in Nat /\ runs \in Nat
  BY DEF TalkInv, TalkRuns, ToldInv, ToldTypes
<1>3. /\ x.at = "recognize" /\ x.n = runs + 1 /\ x.session = s /\ x.found = <<>>
      /\ x.text = text /\ x.out = None /\ IsRun(x)
  BY <1>1 DEF Talk!NotRunning, IsRun
<1>4. ToldInv' /\ Grown
  BY <1>1, <1>2, SessionsStay
<1>5. Running(x) /\ LeftOwn(x, appended[s])
  <2>1. Own(x, appended[s]) = {}
    BY <1>2, <1>3 DEF TalkRuns, Own
  <2>2. LeftOwn(x, appended[s])
    BY <1>3, <2>1 DEF LeftOwn
  <2>3. Running(x)
    BY <1>2, <1>3 DEF Running, TalkPlaces
  <2> QED
    BY <2>2, <2>3
<1>6. /\ run'[r] = x /\ \A q \in Goroutines : q # r => run'[q] = run[q]
      /\ run' = [q \in Goroutines |-> run'[q]]
  BY <1>1, <1>2 DEF TalkRuns
<1>7. TalkRuns'
  <2>1. ASSUME NEW q \in Goroutines
        PROVE  /\ Running(run'[q])
               /\ run'[q].at # "idle" => /\ run'[q].n \in Nat /\ run'[q].n <= runs'
                                         /\ LeftOwn(run'[q], appended'[run'[q].session])
               /\ run'[q].at # "idle" /\ q # r => run'[q].n # runs + 1
    <3>1. CASE q = r
      BY <1>1, <1>2, <1>3, <1>5, <1>6, <3>1
    <3>2. CASE q # r
      <4>1. run'[q] = run[q] /\ Running(run[q])
        BY <1>2, <1>6, <3>2 DEF TalkRuns
      <4>2. run[q].at # "idle" => run[q].n \in Nat /\ run[q].n <= runs
        BY <1>2, <4>1 DEF TalkRuns, Running
      <4>3. run[q].at # "idle" => LeftOwn(run[q], appended[run[q].session])
        BY <1>2 DEF TalkRuns
      <4>4. run[q].at # "idle" => run[q].n <= runs + 1 /\ run[q].n # runs + 1
        BY <1>2, <4>2
      <4> QED
        BY <1>1, <4>1, <4>2, <4>3, <4>4
    <3> QED
      BY <3>1, <3>2
  <2>2. \A p, q \in Goroutines :
          p # q /\ run'[p].at # "idle" /\ run'[q].at # "idle" => run'[p].n # run'[q].n
    <3> TAKE p, q \in Goroutines
    <3> HAVE p # q /\ run'[p].at # "idle" /\ run'[q].at # "idle"
    <3>1. CASE p = r
      <4>1. run'[p].n = runs + 1 /\ q # r
        BY <1>3, <1>6, <3>1
      <4>2. run'[q].n # runs + 1
        BY <2>1, <4>1
      <4> QED
        BY <4>1, <4>2
    <3>2. CASE q = r
      <4>1. run'[q].n = runs + 1 /\ p # r
        BY <1>3, <1>6, <3>2
      <4>2. run'[p].n # runs + 1
        BY <2>1, <4>1
      <4> QED
        BY <4>1, <4>2
    <3>3. CASE p # r /\ q # r
      <4>1. run'[p] = run[p] /\ run'[q] = run[q]
        BY <1>6, <3>3
      <4> QED
        BY <1>2, <4>1 DEF TalkRuns
    <3> QED
      BY <3>1, <3>2, <3>3
  <2>3. \A t \in Sessions : \A p \in 1..Len(appended'[t]) : appended'[t][p].n <= runs'
    <3> TAKE t \in Sessions
    <3> TAKE p \in 1..Len(appended'[t])
    <3>1. appended[t] \in Seq(TurnSet) /\ p \in 1..Len(appended[t])
      BY <1>1, <1>2 DEF ToldInv, ToldTypes
    <3>2. appended[t][p] \in TurnSet
      BY <3>1
    <3>3. appended[t][p].n \in Nat
      BY <3>2 DEF TurnSet
    <3>4. appended[t][p].n <= runs
      BY <1>2, <3>1 DEF TalkRuns
    <3> QED
      BY <1>1, <1>2, <3>3, <3>4
  <2>4. runs' \in Nat
    BY <1>1, <1>2
  <2>5. \A q \in Goroutines : Running(run[q])'
    BY <2>1 DEF Running, IsRun
  <2>6. \A q \in Goroutines : run'[q].at # "idle" =>
          LeftOwn(run[q], appended[run[q].session])'
    BY <2>1 DEF LeftOwn, Own
  <2> QED
    BY <1>6, <2>1, <2>2, <2>3, <2>4, <2>5, <2>6 DEF TalkRuns
<1> QED
  BY <1>1, <1>3, <1>4, <1>7, StepOfRun

(* A step of a request that leaves the sessions alone.                     *)
LEMMA QuietTold ==
  ASSUME TalkInv, NEW r \in Goroutines, run[r].at # "idle", NEW x, run' = [run EXCEPT ![r] = x],
         UNCHANGED <<tick, sessions, memories, appended, deleted, runs>>,
         Running(x), x.found = run[r].found \/ x.found = <<>>,
         x.at # "idle" => x.n = run[r].n /\ LeftOwn(x, appended[x.session])
  PROVE  TalkInv'
<1>1. TalkRuns /\ ToldInv /\ tick \in Nat
  BY DEF TalkInv, ToldInv, ToldTypes
<1>2. ToldInv' /\ Grown
  BY <1>1, SessionsStay
<1>3. TalkRuns'
  BY <1>1, QuietRun
<1> QED
  BY <1>2, <1>3, StepOfRun

(* A step of a request that tells its session a turn.                      *)
LEMMA TellingStep ==
  ASSUME TalkInv, NEW r \in Goroutines, run[r].at # "idle", NEW x, run' = [run EXCEPT ![r] = x],
         NEW role \in {"user", "assistant"}, NEW content \in Said,
         Talk!AppendOf(r, role, content), UNCHANGED <<tick, deleted, runs>>,
         Running(x), x.found = run[r].found, x.n = run[r].n, x.session = run[r].session,
         LeftOwn(x, Append(appended[x.session], [n |-> x.n, role |-> role, content |-> content]))
  PROVE  TalkInv'
<1> PICK turn : turn = [n |-> run[r].n, role |-> role, content |-> content]
  OBVIOUS
<1> PICK s : s = run[r].session
  OBVIOUS
<1>1. TalkRuns /\ ToldInv /\ ToldTypes
  BY DEF TalkInv, ToldInv
<1>2. s \in Sessions /\ turn \in TurnSet /\ turn.n = x.n
  BY <1>1 DEF TalkRuns, Running, TurnSet
<1>3. Talk!AppendTurn(s, turn) /\ appended' = [appended EXCEPT ![s] = Append(appended[s], turn)]
  BY <1>1, <1>2 DEF Talk!AppendOf, ToldTypes
<1>4. ToldInv' /\ Grown
  BY <1>1, <1>2, <1>3, AppendTold
<1>5. TalkRuns'
  <2>1. x.session = s /\ LeftOwn(x, Append(appended[x.session], turn))
    OBVIOUS
  <2> QED
    BY <1>1, <1>2, <1>3, <2>1, TellingRun
<1> QED
  BY <1>4, <1>5, StepOfRun
-----------------------------------------------------------------------------
(* Dialogues: every step *)

LEMMA QuestionLeft ==
  ASSUME NEW told \in Seq(TurnSet), NEW turn \in TurnSet, NEW x, turn.n = x.n, turn.role = "user",
         Own(x, told) = {},
         \/ x.at \in {"skill", "context"} /\ x.intent # "system"
         \/ x.at = "done" /\ x.intent = "system"
  PROVE  LeftOwn(x, Append(told, turn))
<1> DEFINE new == Append(told, turn)
           p == Len(told) + 1
<1>1. Own(x, new) = {p} /\ new[p] = turn
  BY OwnOrNot
<1> HIDE DEF new, p
<1>2. LeftOwn(x, new)
  BY <1>1 DEF LeftOwn
<1> QED
  BY <1>2 DEF new

LEMMA AnswerLeft ==
  ASSUME NEW told \in Seq(TurnSet), NEW turn \in TurnSet, NEW y, NEW x,
         LeftOwn(y, told), y.at \in {"skill", "context", "llm"},
         x.at = "done", x.n = y.n, x.intent = y.intent, turn.n = x.n, turn.role = "assistant"
  PROVE  LeftOwn(x, Append(told, turn))
<1> DEFINE new == Append(told, turn)
           q == Len(told) + 1
<1>1. PICK p \in Own(y, told) : told[p].role = "user" /\ Own(y, told) = {p}
  BY DEF LeftOwn
<1>2. Own(x, told) = Own(y, told) /\ p \in 1..Len(told) /\ Len(told) \in Nat
  BY DEF Own
<1>3. Own(x, new) = Own(x, told) \cup {q} /\ new[q] = turn /\ new[p] = told[p]
  BY <1>2, OwnOrNot
<1>4. p < q
  BY <1>2
<1> HIDE DEF new, q
<1>5. Own(x, new) = {p, q} /\ p \in Own(x, new) /\ q \in Own(x, new)
  BY <1>1, <1>2, <1>3
<1>6. x.intent # "system"
  BY DEF LeftOwn
<1>7. LeftOwn(x, new)
  BY <1>1, <1>3, <1>4, <1>5, <1>6 DEF LeftOwn
<1> QED
  BY <1>7 DEF new

LEMMA RequestOf ==
  ASSUME TalkInv, NEW r \in Goroutines, run[r].at # "idle"
  PROVE  /\ IsRun(run[r]) /\ run[r].n \in Nat /\ run[r].session \in Sessions
         /\ run[r].text \in Requests /\ run[r].out \in {Answer, None}
         /\ appended[run[r].session] \in Seq(TurnSet)
         /\ LeftOwn(run[r], appended[run[r].session])
<1>1. Running(run[r]) /\ LeftOwn(run[r], appended[run[r].session])
  BY DEF TalkInv, TalkRuns
<1>2. run[r].session \in Sessions
  BY <1>1 DEF Running
<1>3. appended[run[r].session] \in Seq(TurnSet)
  BY <1>2 DEF TalkInv, ToldInv, ToldTypes
<1> QED
  BY <1>1, <1>2, <1>3 DEF Running

LEMMA RecognizeTold ==
  ASSUME TalkInv, NEW r \in Goroutines, Talk!Recognize(r)
  PROVE  TalkInv'
<1> PICK intent : intent = Talk!Intent(run[r].text, run[r].last)
  OBVIOUS
<1> PICK x : x = [run[r] EXCEPT !.at = "append", !.intent = intent]
  OBVIOUS
<1>1. /\ run[r].at = "recognize" /\ run' = [run EXCEPT ![r].at = "append", ![r].intent = intent]
      /\ UNCHANGED <<tick, sessions, memories, appended, deleted, runs>>
  BY DEF Talk!Recognize
<1>2. run' = [run EXCEPT ![r] = x]
  BY <1>1 DEF TalkInv, TalkRuns
<1>3. /\ IsRun(run[r]) /\ run[r].n \in Nat /\ run[r].session \in Sessions
      /\ run[r].text \in Requests /\ run[r].out \in {Answer, None}
      /\ LeftOwn(run[r], appended[run[r].session])
  BY <1>1, RequestOf
<1>4. /\ x.at = "append" /\ x.n = run[r].n /\ x.session = run[r].session /\ x.text = run[r].text
      /\ x.out = run[r].out /\ x.found = run[r].found /\ IsRun(x)
  BY <1>3 DEF IsRun
<1>5. Running(x)
  BY <1>3, <1>4 DEF Running, TalkPlaces
<1>6. LeftOwn(x, appended[x.session])
  BY <1>1, <1>3, <1>4 DEF LeftOwn, Own
<1> QED
  BY <1>1, <1>2, <1>4, <1>5, <1>6, QuietTold

LEMMA AppendUserTold ==
  ASSUME TalkInv, NEW r \in Goroutines, Talk!AppendUser(r)
  PROVE  TalkInv'
<1> PICK at, ids : /\ run' = [run EXCEPT ![r].at = at, ![r].ids = ids]
                   /\ \/ at \in {"skill", "context"} /\ run[r].intent # "system"
                      \/ at = "done" /\ run[r].intent = "system"
  <2> DEFINE ids == Talk!Route(run[r].text)
             at == IF run[r].intent = "skill" /\ ids # <<>> THEN "skill"
                   ELSE IF run[r].intent = "system" THEN "done" ELSE "context"
             those == IF run[r].intent = "skill" THEN ids ELSE <<>>
  <2>1. run' = [run EXCEPT ![r].at = at, ![r].ids = those]
    BY DEF Talk!AppendUser
  <2>2. \/ at \in {"skill", "context"} /\ run[r].intent # "system"
        \/ at = "done" /\ run[r].intent = "system"
    <3> HIDE DEF ids
    <3>1. "skill" # "system"
      OBVIOUS
    <3>2. CASE run[r].intent = "system"
      BY <3>1, <3>2
    <3>3. CASE run[r].intent # "system"
      BY <3>3
    <3> QED
      BY <3>2, <3>3
  <2> HIDE DEF at, those
  <2> WITNESS at, those
  <2> QED
    BY <2>1, <2>2
<1> PICK x : x = [run[r] EXCEPT !.at = at, !.ids = ids]
  OBVIOUS
<1>1. /\ run[r].at = "append" /\ Talk!AppendOf(r, "user", run[r].text)
      /\ UNCHANGED <<tick, deleted, runs>>
  BY DEF Talk!AppendUser
<1>2. run' = [run EXCEPT ![r] = x]
  BY DEF TalkInv, TalkRuns
<1>3. /\ IsRun(run[r]) /\ run[r].n \in Nat /\ run[r].session \in Sessions
      /\ run[r].text \in Requests /\ run[r].out \in {Answer, None}
      /\ appended[run[r].session] \in Seq(TurnSet)
      /\ LeftOwn(run[r], appended[run[r].session])
  BY <1>1, RequestOf
<1>4. /\ x.at = at /\ x.n = run[r].n /\ x.session = run[r].session /\ x.text = run[r].text
      /\ x.out = run[r].out /\ x.found = run[r].found /\ x.intent = run[r].intent /\ IsRun(x)
  BY <1>3 DEF IsRun
<1>5. \/ at \in {"skill", "context"} /\ x.intent # "system"
      \/ at = "done" /\ x.intent = "system"
  BY <1>4
<1>6. Running(x)
  BY <1>3, <1>4, <1>5 DEF Running, TalkPlaces
<1>7. Own(x, appended[x.session]) = {}
  BY <1>1, <1>3, <1>4 DEF LeftOwn, Own
<1> PICK turn : turn = [n |-> x.n, role |-> "user", content |-> run[r].text]
  OBVIOUS
<1>8. turn \in TurnSet /\ turn.n = x.n /\ turn.role = "user" /\ run[r].text \in Said
  BY <1>3, <1>4 DEF TurnSet, Said
<1>9. LeftOwn(x, Append(appended[x.session], turn))
  BY <1>3, <1>4, <1>5, <1>7, <1>8, QuestionLeft
<1> QED
  BY <1>1, <1>2, <1>4, <1>6, <1>8, <1>9, TellingStep

LEMMA ExecuteTold ==
  ASSUME TalkInv, NEW r \in Goroutines, Talk!ExecuteSkill(r)
  PROVE  TalkInv'
<1> PICK out \in {Answer, None, run[r].out} :
      run' = [run EXCEPT ![r].ids = Tail(run[r].ids), ![r].out = out]
  BY DEF Talk!ExecuteSkill
<1> PICK x : x = [run[r] EXCEPT !.ids = Tail(run[r].ids), !.out = out]
  OBVIOUS
<1>1. /\ run[r].at = "skill"
      /\ UNCHANGED <<tick, sessions, memories, appended, deleted, runs>>
  BY DEF Talk!ExecuteSkill
<1>2. run' = [run EXCEPT ![r] = x]
  BY DEF TalkInv, TalkRuns
<1>3. /\ IsRun(run[r]) /\ run[r].n \in Nat /\ run[r].session \in Sessions
      /\ run[r].text \in Requests /\ run[r].out \in {Answer, None}
      /\ LeftOwn(run[r], appended[run[r].session])
  BY <1>1, RequestOf
<1>4. /\ x.at = "skill" /\ x.n = run[r].n /\ x.session = run[r].session /\ x.text = run[r].text
      /\ x.out = out /\ x.found = run[r].found /\ x.intent = run[r].intent /\ IsRun(x)
  BY <1>1, <1>3 DEF IsRun
<1>5. Running(x)
  BY <1>3, <1>4 DEF Running, TalkPlaces
<1>6. LeftOwn(x, appended[x.session])
  <2>1. Own(x, appended[x.session]) = Own(run[r], appended[x.session])
    BY <1>4 DEF Own
  <2> QED
    BY <1>1, <1>3, <1>4, <2>1 DEF LeftOwn
<1> QED
  BY <1>1, <1>2, <1>4, <1>5, <1>6, QuietTold

(* RecordAnswer: the answer of a request behind its question.              *)
LEMMA AnswerTold ==
  ASSUME TalkInv, NEW r \in Goroutines, run[r].at \in {"skill", "llm"},
         NEW content \in {Answer, Fallback}, Talk!RecordAnswer(r, content),
         UNCHANGED <<tick, deleted, runs>>
  PROVE  TalkInv'
<1> PICK x : x = [run[r] EXCEPT !.at = "done"]
  OBVIOUS
<1>1. Talk!AppendOf(r, "assistant", content) /\ run[r].at # "idle"
  BY DEF Talk!RecordAnswer
<1>2. run' = [run EXCEPT ![r] = x]
  BY DEF Talk!RecordAnswer, Talk!Goto, TalkInv, TalkRuns
<1>3. /\ IsRun(run[r]) /\ run[r].n \in Nat /\ run[r].session \in Sessions
      /\ run[r].text \in Requests /\ run[r].out \in {Answer, None}
      /\ appended[run[r].session] \in Seq(TurnSet)
      /\ LeftOwn(run[r], appended[run[r].session])
  BY <1>1, RequestOf
<1>4. /\ x.at = "done" /\ x.n = run[r].n /\ x.session = run[r].session /\ x.text = run[r].text
      /\ x.out = run[r].out /\ x.found = run[r].found /\ x.intent = run[r].intent /\ IsRun(x)
  BY <1>3 DEF IsRun
<1>5. Running(x)
  BY <1>3, <1>4 DEF Running, TalkPlaces
<1> PICK turn : turn = [n |-> x.n, role |-> "assistant", content |-> content]
  OBVIOUS
<1>6. turn \in TurnSet /\ turn.n = x.n /\ turn.role = "assistant" /\ content \in Said
  BY <1>3, <1>4 DEF TurnSet, Said
<1>7. LeftOwn(x, Append(appended[x.session], turn))
  BY <1>3, <1>4, <1>6, AnswerLeft
<1> QED
  BY <1>1, <1>2, <1>4, <1>5, <1>6, <1>7, TellingStep

LEMMA EndSkillsTold ==
  ASSUME TalkInv, NEW r \in Goroutines, Talk!EndSkills(r)
  PROVE  TalkInv'
<1> PICK content : content = IF run[r].out = None THEN Fallback ELSE run[r].out
  OBVIOUS
<1>1. /\ run[r].at = "skill" /\ Talk!RecordAnswer(r, content)
      /\ UNCHANGED <<tick, deleted, runs>>
  BY DEF Talk!EndSkills
<1>2. run[r].out \in {Answer, None}
  BY <1>1, RequestOf
<1> QED
  BY <1>1, <1>2, AnswerTold

LEMMA GetContextTold ==
  ASSUME TalkInv, NEW r \in Goroutines, Talk!GetContext(r)
  PROVE  TalkInv'
<1>1. ToldInv /\ TalkRuns /\ memories \in Seq(Memories)
  BY DEF TalkInv, ToldInv, ToldTypes
<1>2. PICK f \in Seq(1..Len(memories)) :
        /\ \E p : run' = [run EXCEPT ![r].at = "llm", ![r].found = f, ![r].prompt = p]
        /\ Len(f) <= MemoryLimit
        /\ \A i, j \in DOMAIN f : i < j => ~Talk!Similar(f[i], f[j])
  BY <1>1, ContextTold
<1>3. ToldInv' /\ Grown
  BY <1>1, ContextTold
<1> PICK p : run' = [run EXCEPT ![r].at = "llm", ![r].found = f, ![r].prompt = p]
  BY <1>2
<1> PICK x : x = [run[r] EXCEPT !.at = "llm", !.found = f, !.prompt = p]
  OBVIOUS
<1>4. run[r].at = "context" /\ UNCHANGED <<appended, runs>>
  BY DEF Talk!GetContext
<1>5. run' = [run EXCEPT ![r] = x]
  BY <1>1, <1>2 DEF TalkRuns
<1>6. /\ IsRun(run[r]) /\ run[r].n \in Nat /\ run[r].session \in Sessions
      /\ run[r].text \in Requests /\ run[r].out \in {Answer, None}
      /\ LeftOwn(run[r], appended[run[r].session])
  BY <1>4, RequestOf
<1>7. /\ x.at = "llm" /\ x.n = run[r].n /\ x.session = run[r].session /\ x.text = run[r].text
      /\ x.out = run[r].out /\ x.found = f /\ x.intent = run[r].intent /\ IsRun(x)
  BY <1>6 DEF IsRun
<1>8. Running(x)
  BY <1>6, <1>7 DEF Running, TalkPlaces
<1>9. LeftOwn(x, appended[x.session])
  BY <1>4, <1>6, <1>7 DEF LeftOwn, Own
<1>10. TalkRuns'
  BY <1>1, <1>4, <1>5, <1>7, <1>8, <1>9, QuietRun
<1>11. ASSUME NEW q \in Goroutines PROVE FoundOK(q)'
  <2>1. CASE q = r
    <3>1. run'[q].found = f
      BY <1>1, <1>5, <1>7, <2>1 DEF TalkRuns
    <3> QED
      BY <1>1, <1>2, <1>3, <3>1, FoundStays
  <2>2. CASE q # r
    <3>1. run'[q].found = run[q].found /\ FoundOK(q)
      BY <1>1, <1>5, <2>2 DEF TalkRuns, TalkInv
    <3> QED
      BY <1>1, <1>3, <3>1, FoundStays DEF FoundOK
  <2> QED
    BY <2>1, <2>2
<1> QED
  BY <1>3, <1>10, <1>11 DEF TalkInv

LEMMA CallLLMTold ==
  ASSUME TalkInv, NEW r \in Goroutines, Talk!CallLLM(r)
  PROVE  TalkInv'
<1>1. run[r].at = "llm" /\ UNCHANGED <<tick, deleted, runs>>
  BY DEF Talk!CallLLM
<1>2. CASE \E content \in {Answer, Fallback} : Talk!RecordAnswer(r, content)
  BY <1>1, <1>2, AnswerTold
<1>3. CASE Talk!Goto(r, "streamed") /\ UNCHANGED <<sessions, memories, appended>>
  <2> PICK x : x = [run[r] EXCEPT !.at = "streamed"]
    OBVIOUS
  <2>1. run' = [run EXCEPT ![r] = x]
    BY <1>3 DEF Talk!Goto, TalkInv, TalkRuns
  <2>2. /\ IsRun(run[r]) /\ run[r].n \in Nat /\ run[r].session \in Sessions
        /\ run[r].text \in Requests /\ run[r].out \in {Answer, None}
    BY <1>1, RequestOf
  <2>3. /\ x.at = "streamed" /\ x.n = run[r].n /\ x.session = run[r].session
        /\ x.text = run[r].text /\ x.out = run[r].out /\ x.found = run[r].found /\ IsRun(x)
    BY <2>2 DEF IsRun
  <2>4. Running(x)
    BY <2>2, <2>3 DEF Running, TalkPlaces
  <2>5. LeftOwn(x, appended[x.session])
    BY <2>3 DEF LeftOwn
  <2> QED
    BY <1>1, <1>3, <2>1, <2>3, <2>4, <2>5, QuietTold
<1> QED
  BY <1>2, <1>3 DEF Talk!CallLLM

LEMMA IdleRun ==
  Running(Talk!NotRunning) /\ Talk!NotRunning.at = "idle" /\ Talk!NotRunning.found = <<>>
BY DEF Running, IsRun, TalkPlaces, Talk!NotRunning

LEMMA ReturnTold ==
  ASSUME TalkInv, NEW r \in Goroutines, Talk!Return(r)
  PROVE  TalkInv'
<1> PICK x : x = Talk!NotRunning
  OBVIOUS
<1>1. /\ run[r].at # "idle" /\ run' = [run EXCEPT ![r] = x]
      /\ UNCHANGED <<tick, sessions, memories, appended, deleted, runs>>
  BY DEF Talk!Return
<1>2. Running(x) /\ x.at = "idle" /\ x.found = <<>>
  BY IdleRun
<1> QED
  BY <1>1, <1>2, QuietTold

(* A step of no request.                                                   *)
LEMMA OtherStep ==
  ASSUME TalkInv, ToldInv', Grown, UNCHANGED <<run, appended, runs>>
  PROVE  TalkInv'
<1>1. TalkRuns
  BY DEF TalkInv
<1>2. /\ runs' \in Nat
      /\ run' = [r \in Goroutines |-> run'[r]]
      /\ \A r \in Goroutines : Running(run'[r])
      /\ \A r \in Goroutines : run'[r].at # "idle" =>
           run'[r].n <= runs' /\ LeftOwn(run'[r], appended'[run'[r].session])
      /\ \A r, q \in Goroutines :
           r # q /\ run'[r].at # "idle" /\ run'[q].at # "idle" => run'[r].n # run'[q].n
      /\ \A s \in Sessions : \A p \in 1..Len(appended'[s]) : appended'[s][p].n <= runs'
  BY <1>1 DEF TalkRuns
<1>3. \A q \in Goroutines : Running(run[q])'
  BY <1>2 DEF Running, IsRun
<1>4. \A q \in Goroutines : run'[q].at # "idle" =>
        LeftOwn(run[q], appended[run[q].session])'
  BY <1>2 DEF LeftOwn, Own
<1>5. TalkRuns'
  BY <1>2, <1>3, <1>4 DEF TalkRuns
<1>6. \A q \in Goroutines : FoundOK(q)'
  BY FoundsStay
<1> QED
  BY <1>5, <1>6 DEF TalkInv

LEMMA TalkInvInit == Talk!Init => TalkInv
<1> SUFFICES ASSUME Talk!Init PROVE TalkInv
  OBVIOUS
<1>1. ToldInv
  BY ToldInvInit
<1>2. /\ run = [r \in Goroutines |-> Talk!NotRunning] /\ runs = 0
      /\ appended = [s \in Sessions |-> <<>>]
  BY DEF Talk!Init
<1>3. \A r \in Goroutines : Running(run[r]) /\ run[r].at = "idle" /\ run[r].found = <<>>
  BY <1>2, IdleRun
<1>4. TalkRuns
  BY <1>2, <1>3 DEF TalkRuns
<1>5. ASSUME NEW r \in Goroutines PROVE FoundOK(r)
  <2>1. run[r].found = <<>>
    BY <1>3
  <2>2. <<>> \in Seq(1..Len(memories)) /\ Len(<<>>) <= MemoryLimit
    BY TalkAssumption
  <2> QED
    BY <2>1, <2>2 DEF FoundOK
<1> QED
  BY <1>1, <1>4, <1>5 DEF TalkInv

LEMMA TalkInvNext == TalkInv /\ [Talk!Next]_talkVars => TalkInv'
<1> SUFFICES ASSUME TalkInv, [Talk!Next]_talkVars PROVE TalkInv'
  OBVIOUS
<1>1. ToldInv /\ tick \in Nat
  BY DEF TalkInv, ToldInv, ToldTypes
<1>2. ASSUME NEW r \in Goroutines,
             \/ \E s \in Sessions, t \in Requests : Talk!Begin(r, s, t)
             \/ Talk!Recognize(r) \/ Talk!AppendUser(r) \/ Talk!ExecuteSkill(r)
             \/ Talk!EndSkills(r) \/ Talk!GetContext(r) \/ Talk!CallLLM(r) \/ Talk!Return(r)
      PROVE  TalkInv'
  BY <1>2, BeginTold, RecognizeTold, AppendUserTold, ExecuteTold, EndSkillsTold,
     GetContextTold, CallLLMTold, ReturnTold
<1>3. CASE Talk!ArchiveStale
  <2>1. ToldInv' /\ UNCHANGED <<memories, run, appended, runs>>
    BY <1>1, <1>3, ArchiveTold DEF Talk!ArchiveStale
  <2>2. Grown
    <3>1. memories \in Seq(Memories)
      BY <1>1 DEF ToldInv, ToldTypes
    <3> QED
      BY <2>1, <3>1 DEF Grown
  <2> QED
    BY <2>1, <2>2, OtherStep
<1>4. CASE Talk!Tick
  <2>1. tick' \in Nat /\ UNCHANGED <<sessions, memories, run, appended, deleted, runs>>
    BY <1>1, <1>4 DEF Talk!Tick
  <2>2. ToldInv' /\ Grown
    BY <1>1, <2>1, SessionsStay
  <2> QED
    BY <2>1, <2>2, OtherStep
<1>5. CASE UNCHANGED talkVars
  <2>1. tick' \in Nat /\ UNCHANGED <<sessions, memories, run, appended, deleted, runs>>
    BY <1>1, <1>5 DEF talkVars
  <2>2. ToldInv' /\ Grown
    BY <1>1, <2>1, SessionsStay
  <2> QED
    BY <2>1, <2>2, OtherStep
<1> QED
  BY <1>2, <1>3, <1>4, <1>5 DEF Talk!Next
-----------------------------------------------------------------------------
(* Dialogues: what the modules state of them *)

LEMMA PlacesOf ==
  ASSUME ToldTypes, NEW m \in 1..Len(memories)
  PROVE  \A p : p \in Talk!TurnPlaces(m) <=> p \in Nat \ {0} /\ Covers(m, p)
<1> DEFINE f == memories[m].from
           n == Len(memories[m].turns)
<1>1. f \in Nat \ {0} /\ n \in Nat
  BY MemoryTyped
<1>2. Talk!TurnPlaces(m) = f..(f + n - 1)
  BY DEF Talk!TurnPlaces
<1>3. \A p : Covers(m, p) <=> f <= p /\ p < f + n
  BY DEF Covers
<1> HIDE DEF f, n
<1>4. \A p : p \in f..(f + n - 1) <=> p \in Nat \ {0} /\ f <= p /\ p < f + n
  BY <1>1
<1> QED
  BY <1>2, <1>3, <1>4

LEMMA ToldTurnsKept == ToldInv => Talk!TurnsKept
<1> SUFFICES ASSUME ToldInv, NEW s \in Sessions
             PROVE  LET mine == {m \in DOMAIN memories : memories[m].session = s}
                    IN  /\ Len(Talk!Turns(s)) <= WindowSize
                        /\ \A i \in DOMAIN Talk!Turns(s) :
                             Talk!Turns(s)[i] = appended[s][Talk!Gone(s) + i]
                        /\ \A m \in mine : \A i \in DOMAIN memories[m].turns :
                             memories[m].turns[i] = appended[s][memories[m].from + i - 1]
                        /\ deleted[s] \cup UNION {Talk!TurnPlaces(m) : m \in mine} =
                             1..Talk!Gone(s)
                        /\ \A m \in mine : Talk!TurnPlaces(m) \cap deleted[s] = {}
                        /\ \A m, k \in mine : m < k =>
                             \A p \in Talk!TurnPlaces(m), q \in Talk!TurnPlaces(k) : p < q
  BY DEF Talk!TurnsKept
<1> DEFINE mine == {m \in DOMAIN memories : memories[m].session = s}
           g == Talk!Gone(s)
<1>1. ToldTypes /\ WindowKept(s) /\ NoneMissing(s)
      /\ \A m \in 1..Len(memories) : memories[m].session = s => SummaryKept(s, m)
  BY DEF ToldInv, ToldKept
<1>2. \A m \in mine : m \in 1..Len(memories) /\ SummaryKept(s, m)
  BY <1>1 DEF ToldTypes
<1>3. Len(Talk!Turns(s)) <= WindowSize
  BY <1>1 DEF WindowKept
<1>4. \A i \in DOMAIN Talk!Turns(s) : Talk!Turns(s)[i] = appended[s][g + i]
  <2>1. DOMAIN Talk!Turns(s) = 1..Len(Talk!Turns(s))
    BY <1>1, TurnsTyped
  <2> QED
    BY <1>1, <2>1 DEF WindowKept
<1>5. ASSUME NEW m \in mine, NEW i \in DOMAIN memories[m].turns
      PROVE  memories[m].turns[i] = appended[s][memories[m].from + i - 1]
  <2>1. DOMAIN memories[m].turns = 1..Len(memories[m].turns)
    BY <1>1, <1>2, MemoryTyped
  <2> QED
    BY <1>2, <2>1 DEF SummaryKept
<1>6. g \in Int
  BY <1>1, TurnsTyped
<1>7. \A m \in mine : \A p : p \in Talk!TurnPlaces(m) <=> p \in Nat \ {0} /\ Covers(m, p)
  BY <1>1, <1>2, PlacesOf
<1>8. ASSUME NEW m \in mine, NEW p \in Talk!TurnPlaces(m) PROVE p \in 1..g /\ p \notin deleted[s]
  <2>1. p \in Nat \ {0} /\ Covers(m, p) /\ SummaryKept(s, m)
    BY <1>2, <1>7
  <2> DEFINE f == memories[m].from
             n == Len(memories[m].turns)
  <2>2. f \in Nat \ {0} /\ n \in Nat
    BY <1>1, <1>2, MemoryTyped
  <2>3. f <= p /\ p < f + n /\ f + n - 1 <= g
    BY <2>1 DEF Covers, SummaryKept
  <2>4. p \in 1..g
    <3>1. p \in Nat \ {0}
      BY <2>1
    <3> HIDE DEF f, n, g
    <3> QED
      BY <1>6, <2>2, <2>3, <3>1
  <2>5. p \notin deleted[s]
    BY <2>1 DEF SummaryKept
  <2> QED
    BY <2>4, <2>5
<1>9. ASSUME NEW p \in 1..g, p \notin deleted[s] PROVE \E m \in mine : p \in Talk!TurnPlaces(m)
  <2>1. PICK m \in 1..Len(memories) : memories[m].session = s /\ Covers(m, p)
    BY <1>1, <1>9 DEF NoneMissing
  <2>2. m \in mine
    BY <1>1, <2>1 DEF ToldTypes
  <2>3. p \in Nat \ {0}
    <3> HIDE DEF g
    <3> QED
      BY <1>6
  <2> QED
    BY <1>7, <2>1, <2>2, <2>3
<1>10. deleted[s] \subseteq 1..g
  BY <1>1 DEF NoneMissing
<1>11. ASSUME NEW m \in mine, NEW k \in mine, m < k,
              NEW p \in Talk!TurnPlaces(m), NEW q \in Talk!TurnPlaces(k)
       PROVE  p < q
  <2>1. p \in Nat /\ q \in Nat /\ Covers(m, p) /\ Covers(k, q)
    BY <1>7
  <2> DEFINE f == memories[m].from
             n == Len(memories[m].turns)
             h == memories[k].from
  <2>2. f \in Nat /\ n \in Nat /\ h \in Nat
    BY <1>1, <1>2, MemoryTyped
  <2>3. f + n <= h
    BY <1>2, <1>11 DEF SummaryKept
  <2>4. p < f + n /\ h <= q
    BY <2>1 DEF Covers
  <2> HIDE DEF f, n, h
  <2> QED
    BY <2>1, <2>2, <2>3, <2>4
<1> HIDE DEF mine, g
<1>12. deleted[s] \cup UNION {Talk!TurnPlaces(m) : m \in mine} = 1..g
  BY <1>8, <1>9, <1>10
<1>13. \A m \in mine : Talk!TurnPlaces(m) \cap deleted[s] = {}
  BY <1>8
<1> QED
  BY <1>3, <1>4, <1>5, <1>11, <1>12, <1>13 DEF mine, g

LEMMA RunsAnswered == TalkInv => Talk!AnswerBehindQuestion
<1> SUFFICES ASSUME TalkInv, NEW r \in Goroutines, run[r].at = "done"
             PROVE  LET told == appended[run[r].session]
                        own == {p \in DOMAIN told : told[p].n = run[r].n}
                    IN  \E p \in own :
                          /\ told[p].role = "user"
                          /\ IF run[r].intent = "system" THEN own = {p}
                             ELSE \E q \in own : told[q].role = "assistant" /\ p < q /\ own = {p, q}
  BY DEF Talk!AnswerBehindQuestion
<1> PICK told : told = appended[run[r].session]
  OBVIOUS
<1>1. told \in Seq(TurnSet) /\ LeftOwn(run[r], told)
  BY RequestOf
<1>2. Own(run[r], told) = {p \in DOMAIN told : told[p].n = run[r].n}
  BY <1>1 DEF Own
<1> QED
  BY <1>1, <1>2 DEF LeftOwn

LEMMA FoundsDistinct == TalkInv => Talk!MemoriesDistinct
BY DEF TalkInv, FoundOK, Talk!MemoriesDistinct

LEMMA TalkKept ==
  TalkInv => Talk!TurnsKept /\ Talk!AnswerBehindQuestion /\ Talk!MemoriesDistinct
BY ToldTurnsKept, RunsAnswered, FoundsDistinct DEF TalkInv
-----------------------------------------------------------------------------
(* All of them *)

LEMMA StoreInvInit == Store!Init => StoreInv
<1> SUFFICES ASSUME Store!Init PROVE StoreInv
  OBVIOUS
<1>1. /\ kvClock = 1 /\ got = None /\ listed = {}
      /\ items = [k \in Keys |-> None] /\ last = [k \in Keys |-> None]
  BY DEF Store!Init
<1>2. Store!LastValueSeen
  BY <1>1 DEF Store!LastValueSeen
<1> QED
  BY <1>1, <1>2 DEF StoreInv

LEMMA SnapInvInit == Snap!Init => SnapInv
<1> SUFFICES ASSUME Snap!Init PROVE SnapInv
  OBVIOUS
<1>1. /\ second = 1 /\ versions = <<>> /\ archives = {} /\ taking = 0 /\ newest = 0
      /\ named = FALSE /\ taken = FALSE /\ complete = {}
  BY DEF Snap!Init
<1>2. versions \in Seq(Nat) /\ Len(versions) = 0
  BY <1>1
<1>3. SnapTypes
  <2>1. second \in Nat \ {0} /\ taking \in Nat /\ newest \in Nat
    BY <1>1
  <2>2. archives \in SUBSET Nat /\ complete \in SUBSET Nat
    BY <1>1
  <2>3. named \in BOOLEAN /\ taken \in BOOLEAN
    BY <1>1
  <2> QED
    BY <1>2, <2>1, <2>2, <2>3 DEF SnapTypes
<1>4. Descending(versions) /\ Snap!Elements(versions) = {}
  BY <1>1, <1>2 DEF Descending, Snap!Elements
<1>5. Snap!NewestKept
  BY <1>1, <1>4, NewestIs
<1>6. Len(versions) <= MaxKeep
  BY <1>2, StoresAssumption
<1>7. /\ newest <= second /\ \A x \in archives : x <= newest
      /\ taking # 0 => taken /\ newest <= taking /\ taking <= second
  BY <1>1
<1>8. named => taking # 0 /\ taking \in archives
  BY <1>1
<1> QED
  BY <1>3, <1>4, <1>5, <1>6, <1>7, <1>8 DEF SnapInv

LEMMA SlotInvInit == Slots!Init => SlotInv
<1> SUFFICES ASSUME Slots!Init PROVE SlotInv
  OBVIOUS
<1>1. /\ made = [k \in Slots!Kinds |-> 0] /\ slots = [k \in Slots!Kinds |-> 0]
      /\ job = [j \in Jobs |-> [at |-> "idle", tries |-> 0]]
      /\ cacheClock = 0
  BY DEF Slots!Init
<1>2. IsFiniteSet({}) /\ Cardinality({}) = 0
  BY FS_EmptySet
<1>3. SlotTypes /\ ChannelMade
  BY <1>1 DEF SlotTypes, ChannelMade, SlotPlaces
<1>4. ASSUME NEW k PROVE Slots!InFlight(k) = {}
  BY <1>1 DEF Slots!InFlight
<1>5. Slots!SlotsAreRequests
  BY <1>1, <1>2, <1>4, SlotCardinality, StoresAssumption DEF Slots!SlotsAreRequests
<1> QED
  BY <1>3, <1>5 DEF SlotInv

LEMMA CacheInvInit == Slots!Init => CacheInv
<1> SUFFICES ASSUME Slots!Init PROVE CacheInv
  OBVIOUS
<1>1. /\ job = [j \in Jobs |-> [at |-> "idle", tries |-> 0]]
      /\ caches = [k \in Slots!Kinds |-> 0] /\ cache = [k \in Slots!Kinds |-> {}]
      /\ latest = [k \in Slots!Kinds |-> {}] /\ cacheClock = 0
  BY DEF Slots!Init
<1>2. IsFiniteSet({}) /\ Cardinality({}) = 0
  BY FS_EmptySet
<1>3. CacheTypes
  BY <1>1 DEF CacheTypes
<1>4. CacheMade
  BY <1>1 DEF CacheMade
<1>5. Slots!CacheKeepsLatest
  BY <1>1, <1>2, SlotCardinality, StoresAssumption DEF Slots!CacheKeepsLatest
<1>6. \A k \in Slots!Kinds : IsFiniteSet(cache[k])
  BY <1>1, <1>2
<1> QED
  BY <1>3, <1>4, <1>5, <1>6 DEF CacheInv

StoresInv ==
  /\ WriteInv /\ StoreInv /\ SnapInv /\ UpdateInv
  /\ SlotInv /\ CacheInv
  /\ EngramInv /\ SearchInv /\ TalkInv

LEMMA StoresInvInit == Init => StoresInv
BY WriteInvInit, StoreInvInit, SnapInvInit, UpdateInvInit, SlotInvInit, CacheInvInit,
   EngramInvInit, SearchInvInit, TalkInvInit DEF Init, StoresInv

(* A step is one of a module, and of the others their variables stay.      *)
LEMMA StepsOfParts ==
  ASSUME [Next]_vars
  PROVE  /\ [Write!Next]_writeVars /\ [Store!Next]_kvVars /\ [Snap!Next]_snapVars
         /\ [Update!Next]_updateVars /\ [Slots!Next]_slotVars
         /\ [Engram!Next]_engramVars /\ [Search!Next]_searchVars /\ [Talk!Next]_talkVars
<1>1. CASE WriteStep
  BY <1>1 DEF WriteStep
<1>2. CASE StoreStep
  BY <1>2 DEF StoreStep
<1>3. CASE SnapStep
  BY <1>3 DEF SnapStep
<1>4. CASE EngramStep
  BY <1>4 DEF EngramStep
<1>5. CASE SearchStep
  BY <1>5 DEF SearchStep
<1>6. CASE UpdateStep
  BY <1>6 DEF UpdateStep
<1>7. CASE TalkStep
  BY <1>7 DEF TalkStep
<1>8. CASE SlotStep
  BY <1>8 DEF SlotStep
<1>9. CASE UNCHANGED vars
  BY <1>9 DEF vars
<1> QED
  BY <1>1, <1>2, <1>3, <1>4, <1>5, <1>6, <1>7, <1>8, <1>9 DEF Next

LEMMA StoresInvNext == StoresInv /\ [Next]_vars => StoresInv'
BY StepsOfParts, WriteInvNext, StoreInvNext, SnapInvNext, UpdateInvNext, SlotInvNext,
   CacheInvNext, EngramInvNext, SearchInvNext, TalkInvNext DEF StoresInv

LEMMA StoresInvariant == Spec => []StoresInv
BY StoresInvInit, StoresInvNext, PTL DEF Spec

(* SafeWrite (viking/write.go), AppendAuditRoot (viking/merkle.go) and     *)
(* ReplaceBinary (updater/updater.go): whatever number of goroutines write *)
(* whatever paths, whichever system calls fail and wherever the process    *)
(* stops, a file that no two of them write at once is all of the last      *)
(* write that succeeded, and there is a whole program to run; and unless   *)
(* two appends at once have lost some, the audit root has, in order, every *)
(* root since the last append that could not read it.                      *)
THEOREM StoresFilesKept == Spec => []FilesKept
<1>1. StoresInv => FilesKept
  BY RootsBehindHeaders DEF StoresInv, WriteInv, UpdateInv, FilesKept
<1> QED
  BY <1>1, StoresInvariant, PTL

(* Store.Set, Get, GetWithLevel and List (viking/store.go): a reader sees  *)
(* what was set last until it expires, with or without the sweep, for any  *)
(* number of keys, levels and lifetimes.                                   *)
THEOREM StoresNewestSeen == Spec => []NewestSeen
<1>1. StoresInv => NewestSeen
  BY DEF StoresInv, StoreInv, NewestSeen
<1> QED
  BY <1>1, StoresInvariant, PTL

(* SnapshotManager (viking/snapshot.go) and GC.Run (viking/gc.go): however *)
(* many snapshots are kept and whichever archives are cut off, a complete  *)
(* one is removed only behind all but one of that many newer ones, and a   *)
(* manager that keeps more than one never removes the newest, though it    *)
(* lists the directory before a trim or has a name twice.                  *)
THEOREM StoresSnapshotsKept == Spec => []SnapshotsKept
<1>1. StoresInv => SnapshotsKept
  BY DEF StoresInv, SnapInv, SnapshotsKept
<1> QED
  BY <1>1, StoresInvariant, PTL

(* Execute of the skills with slots, and their cache (skills): however     *)
(* many executions overlap, as many slots are taken as requests are under  *)
(* way unless two executions made the channel, and a cache of any size     *)
(* makes room without losing what was stored last unless two first calls   *)
(* made it.                                                                *)
THEOREM StoresSlotsKept == Spec => []SlotsKept
<1>1. StoresInv => SlotsKept
  BY DEF StoresInv, SlotInv, CacheInv, SlotsKept
<1> QED
  BY <1>1, StoresInvariant, PTL

(* EngramStore.Write, Delete, gc and Load (viking/engram.go), and Index,   *)
(* Persist and Load of SearchIndex and BM25Index (viking/search.go,        *)
(* viking/bm25.go): for any ids, places, writers and size of the index,    *)
(* what is indexed of an engram is what its file gives when it is parsed,  *)
(* unless a file of it could not be removed, another says it is this       *)
(* engram, or it moves; and for any texts and any dictionary both search   *)
(* indexes count the tokens of the documents they hold, however often      *)
(* these are indexed again, the process starts anew between a copy of the  *)
(* lines and their renaming, and whichever lines it can load.              *)
THEOREM StoresIndexesMatch == Spec => []IndexesMatch
<1>1. StoresInv => IndexesMatch
  BY EngramMatches DEF StoresInv, SearchInv, IndexesMatch
<1> QED
  BY <1>1, StoresInvariant, PTL

(* SearchIndex.Search and BM25Index.Search over Segment and tokenize       *)
(* (viking/segment.go): whatever the dictionary, the texts, the queries    *)
(* and the limit, the first finds, of the documents it holds, those that   *)
(* have a character or word of the query and no others; the second no more *)
(* than the limit and none without such a character or stem, and every     *)
(* document by its own text when there are no more than the limit.         *)
THEOREM StoresSearchFinds == Spec => []SearchFindsContained
<1>1. StoresInv => SearchFindsContained
  BY SearchContained DEF StoresInv, SearchFindsContained
<1> QED
  BY <1>1, StoresInvariant, PTL

(* ContextManager.Append, GetContextForLLM and ArchiveStale, Search of the *)
(* MemoryEngine, and ResponsePipeline.Run (internal/engine): for any       *)
(* number of requests at once over any sessions, texts, rules, skills and  *)
(* limits, every turn is once in the window, in a summary or deleted with  *)
(* a session that was idle, a request that was answered has left its       *)
(* question and then its answer, and the memories a request is given are   *)
(* few and none like another.                                              *)
THEOREM StoresDialogueKept == Spec => []DialogueKept
<1>1. StoresInv => DialogueKept
  BY TalkKept DEF StoresInv, DialogueKept
<1> QED
  BY <1>1, StoresInvariant, PTL
=============================================================================
