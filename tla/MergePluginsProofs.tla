-------------------------- MODULE MergePluginsProofs --------------------------
(***************************************************************************)
(* What is proved of MergePlugins, for every set of plugins and images.    *)
(*                                                                         *)
(* The entries of a merged list are described first (AddedUp), then the    *)
(* plugin a group merges into, then the two loops: MergeInv holds when the *)
(* call begins and every step of a loop preserves it.  These lemmas do not *)
(* name Spec, so that the broker that makes the call can cite them too.    *)
(***************************************************************************)
EXTENDS MergePlugins, ListLemmas

-----------------------------------------------------------------------------
(* Adding one entry *)

(* The three ways entries are compared, by the name of the list.           *)
Clashes(way, e, f) ==
  CASE way = "named" -> SameName(e, f)
    [] way = "mounted" -> Overlap(e, f)
    [] way = "equal" -> Equal(e, f)

Agrees(way, e, f) ==
  CASE way = "named" -> Equal(e, f)
    [] way = "mounted" -> SameMount(e, f)
    [] way = "equal" -> Equal(e, f)

Ways == {"named", "mounted", "equal"}

(* What adding an entry to a list may result in.                           *)
Adds(way, list, entry, result) ==
  \/ /\ result = Conflict
     /\ \E i \in DOMAIN list : Clashes(way, list[i], entry) /\ ~Agrees(way, list[i], entry)
  \/ /\ result = list
     /\ \E i \in DOMAIN list : Agrees(way, list[i], entry)
  \/ /\ result = Append(list, entry)
     /\ \A i \in DOMAIN list : ~Clashes(way, list[i], entry)

LEMMA WaysCompare ==
  ASSUME NEW way \in Ways
  PROVE  /\ \A e : Agrees(way, e, e) /\ Clashes(way, e, e)
         /\ \A e, f : Clashes(way, e, f) => Clashes(way, f, e)
BY DEF Ways, Clashes, Agrees, SameName, Overlap, SameMount, Equal

LEMMA FirstOf ==
  ASSUME NEW n \in Nat, NEW s \in SUBSET (1 .. n), s # {}
  PROVE  (CHOOSE i \in s : \A j \in s : i <= j) \in s
<1> DEFINE T == {m \in Nat : \A i \in s : ~(i <= m)}
<1>1. PICK k \in s : TRUE
  OBVIOUS
<1>2. 0 \in T
  OBVIOUS
<1>3. k \notin T /\ k \in Nat
  BY <1>1
<1>4. ~(\A m \in Nat : m \in T => m + 1 \in T)
  BY <1>2, <1>3, NatSetInduction
<1>5. PICK m \in Nat : m \in T /\ m + 1 \notin T
  BY <1>4
<1>6. PICK i \in s : i <= m + 1
  BY <1>5
<1>7. \A j \in s : i <= j
  BY <1>5, <1>6
<1> QED
  BY <1>6, <1>7

LEMMA AddNamedAdds ==
  ASSUME NEW S, NEW list \in Seq(S), NEW entry, Conflict \notin Seq(S)
  PROVE  Adds("named", list, entry, Add(SameName, Equal, list, entry))
<1> DEFINE clashing == {i \in DOMAIN list : SameName(list[i], entry)}
           first == CHOOSE i \in clashing : \A j \in clashing : i <= j
<1>1. clashing # {} => first \in clashing
  <2>1. Len(list) \in Nat /\ DOMAIN list = 1 .. Len(list)
    OBVIOUS
  <2>2. clashing \in SUBSET (1 .. Len(list))
    BY <2>1
  <2> HIDE DEF clashing
  <2> QED
    BY <2>1, <2>2, FirstOf
<1>2. Add(SameName, Equal, list, entry) =
        IF clashing = {} THEN Append(list, entry)
        ELSE IF Equal(list[first], entry) THEN list ELSE Conflict
  <2>1. list # Conflict
    OBVIOUS
  <2> QED
    BY <2>1, Zenon DEF Add
<1> HIDE DEF first
<1>3. CASE clashing = {}
  BY <1>2, <1>3 DEF Adds, Clashes, Agrees
<1>4. CASE clashing # {}
  BY <1>1, <1>2, <1>4 DEF Adds, Clashes, Agrees
<1> QED
  BY <1>3, <1>4

LEMMA AddMountedAdds ==
  ASSUME NEW S, NEW list \in Seq(S), NEW entry, Conflict \notin Seq(S)
  PROVE  Adds("mounted", list, entry, Add(Overlap, SameMount, list, entry))
<1> DEFINE clashing == {i \in DOMAIN list : Overlap(list[i], entry)}
           first == CHOOSE i \in clashing : \A j \in clashing : i <= j
<1>1. clashing # {} => first \in clashing
  <2>1. Len(list) \in Nat /\ DOMAIN list = 1 .. Len(list)
    OBVIOUS
  <2>2. clashing \in SUBSET (1 .. Len(list))
    BY <2>1
  <2> HIDE DEF clashing
  <2> QED
    BY <2>1, <2>2, FirstOf
<1>2. Add(Overlap, SameMount, list, entry) =
        IF clashing = {} THEN Append(list, entry)
        ELSE IF SameMount(list[first], entry) THEN list ELSE Conflict
  <2>1. list # Conflict
    OBVIOUS
  <2> QED
    BY <2>1, Zenon DEF Add
<1> HIDE DEF first
<1>3. CASE clashing = {}
  BY <1>2, <1>3 DEF Adds, Clashes, Agrees
<1>4. CASE clashing # {}
  BY <1>1, <1>2, <1>4 DEF Adds, Clashes, Agrees
<1> QED
  BY <1>3, <1>4

LEMMA AddEqualAdds ==
  ASSUME NEW S, NEW list \in Seq(S), NEW entry, Conflict \notin Seq(S)
  PROVE  Adds("equal", list, entry, Add(Equal, Equal, list, entry))
<1> DEFINE clashing == {i \in DOMAIN list : Equal(list[i], entry)}
           first == CHOOSE i \in clashing : \A j \in clashing : i <= j
<1>1. clashing # {} => first \in clashing
  <2>1. Len(list) \in Nat /\ DOMAIN list = 1 .. Len(list)
    OBVIOUS
  <2>2. clashing \in SUBSET (1 .. Len(list))
    BY <2>1
  <2> HIDE DEF clashing
  <2> QED
    BY <2>1, <2>2, FirstOf
<1>2. Add(Equal, Equal, list, entry) =
        IF clashing = {} THEN Append(list, entry)
        ELSE IF Equal(list[first], entry) THEN list ELSE Conflict
  <2>1. list # Conflict
    OBVIOUS
  <2> QED
    BY <2>1, Zenon DEF Add
<1> HIDE DEF first
<1>3. CASE clashing = {}
  BY <1>2, <1>3 DEF Adds, Clashes, Agrees
<1>4. CASE clashing # {}
  BY <1>1, <1>2, <1>4 DEF Adds, Clashes, Agrees
<1> QED
  BY <1>3, <1>4

-----------------------------------------------------------------------------
(* Adding many *)

AddNamed(x, list, entry) == Add(SameName, Equal, list, entry)
AddMounted(x, list, entry) == Add(Overlap, SameMount, list, entry)
AddEqual(x, list, entry) == Add(Equal, Equal, list, entry)

AddingNamed == INSTANCE FoldLemmas WITH Op <- AddNamed, Base <- <<>>
AddingMounted == INSTANCE FoldLemmas WITH Op <- AddMounted, Base <- <<>>
AddingEqual == INSTANCE FoldLemmas WITH Op <- AddEqual, Base <- <<>>

(* What is said of the list the entries have been added to: an error is    *)
(* due to two of them, and otherwise they are all in it, nothing else is,  *)
(* and no two entries of it clash.                                         *)
AddedUp(way, S, entries, result) ==
  \/ /\ result = Conflict
     /\ \E i, j \in DOMAIN entries :
          Clashes(way, entries[i], entries[j]) /\ ~Agrees(way, entries[i], entries[j])
  \/ /\ result \in Seq(S)
     /\ \A k \in DOMAIN result : Has(entries, result[k])
     /\ \A i \in DOMAIN entries : \E k \in DOMAIN result : Agrees(way, result[k], entries[i])
     /\ \A k, l \in DOMAIN result : Clashes(way, result[k], result[l]) => k = l

LEMMA AddedUpNone ==
  ASSUME NEW way, NEW S
  PROVE  AddedUp(way, S, <<>>, <<>>)
BY DEF AddedUp

LEMMA AddedUpMore ==
  ASSUME NEW way \in Ways, NEW S, Conflict \notin Seq(S),
         NEW entries \in Seq(S), NEW entry \in S, NEW some, NEW more,
         AddedUp(way, S, entries, some),
         some = Conflict => more = Conflict,
         some \in Seq(S) => Adds(way, some, entry, more)
  PROVE  AddedUp(way, S, Append(entries, entry), more)
<1> DEFINE all == Append(entries, entry)
           n == Len(entries)
<1>1. /\ all \in Seq(S) /\ DOMAIN all = 1 .. n + 1 /\ all[n + 1] = entry /\ n \in Nat
      /\ DOMAIN entries = 1 .. n /\ \A i \in 1 .. n : all[i] = entries[i] /\ i \in 1 .. n + 1
  BY AppendProperties
<1>2. n + 1 \in 1 .. n + 1
  BY <1>1
<1> HIDE DEF all, n
<1>3. \A e : Has(entries, e) => Has(all, e)
  BY <1>1 DEF Has
<1>4. CASE some = Conflict
  <2>1. PICK i, j \in DOMAIN entries :
          Clashes(way, entries[i], entries[j]) /\ ~Agrees(way, entries[i], entries[j])
    BY <1>4 DEF AddedUp
  <2>2. /\ i \in DOMAIN all /\ j \in DOMAIN all
        /\ Clashes(way, all[i], all[j]) /\ ~Agrees(way, all[i], all[j])
    BY <1>1, <2>1
  <2>3. more = Conflict
    BY <1>4
  <2> QED
    BY <2>2, <2>3 DEF AddedUp, all
<1>5. CASE some # Conflict
  <2>1. /\ some \in Seq(S) /\ Adds(way, some, entry, more)
        /\ \A k \in DOMAIN some : Has(entries, some[k])
        /\ \A i \in DOMAIN entries : \E k \in DOMAIN some : Agrees(way, some[k], entries[i])
        /\ \A k, l \in DOMAIN some : Clashes(way, some[k], some[l]) => k = l
    BY <1>5 DEF AddedUp
  <2>2. CASE /\ more = Conflict
             /\ \E i \in DOMAIN some : Clashes(way, some[i], entry) /\ ~Agrees(way, some[i], entry)
    <3>1. PICK k \in DOMAIN some : Clashes(way, some[k], entry) /\ ~Agrees(way, some[k], entry)
      BY <2>2
    <3>2. PICK i \in DOMAIN entries : entries[i] = some[k]
      BY <2>1 DEF Has
    <3>3. /\ i \in DOMAIN all /\ n + 1 \in DOMAIN all
          /\ Clashes(way, all[i], all[n + 1]) /\ ~Agrees(way, all[i], all[n + 1])
      BY <1>1, <1>2, <3>1, <3>2
    <3> QED
      BY <2>2, <3>3 DEF AddedUp, all
  <2>3. CASE more = some /\ \E i \in DOMAIN some : Agrees(way, some[i], entry)
    <3>1. ASSUME NEW i \in DOMAIN all PROVE \E k \in DOMAIN some : Agrees(way, some[k], all[i])
      <4>1. CASE i = n + 1
        BY <1>1, <2>3, <4>1
      <4>2. CASE i # n + 1
        <5>1. i \in DOMAIN entries /\ all[i] = entries[i]
          BY <1>1, <4>2
        <5> QED
          BY <2>1, <5>1
      <4> QED
        BY <4>1, <4>2
    <3>2. \A k \in DOMAIN some : Has(all, some[k])
      BY <1>3, <2>1
    <3> QED
      BY <2>1, <2>3, <3>1, <3>2, Zenon DEF AddedUp, all
  <2>4. CASE more = Append(some, entry) /\ \A i \in DOMAIN some : ~Clashes(way, some[i], entry)
    <3> DEFINE m == Len(some)
    <3>1. /\ more \in Seq(S) /\ DOMAIN more = 1 .. m + 1 /\ more[m + 1] = entry /\ m \in Nat
          /\ DOMAIN some = 1 .. m /\ \A k \in 1 .. m : more[k] = some[k] /\ k \in 1 .. m + 1
      BY <2>1, <2>4, AppendProperties
    <3> HIDE DEF m
    <3>2. \A k \in DOMAIN more : k = m + 1 \/ k \in DOMAIN some
      BY <3>1
    <3>3. m + 1 \in DOMAIN more
      BY <3>1
    <3>4. ASSUME NEW k \in DOMAIN more PROVE Has(all, more[k])
      <4>1. CASE k = m + 1
        BY <1>1, <1>2, <3>1, <4>1 DEF Has
      <4>2. CASE k \in DOMAIN some
        BY <1>3, <2>1, <3>1, <4>2
      <4> QED
        BY <3>2, <4>1, <4>2
    <3>5. ASSUME NEW i \in DOMAIN all PROVE \E k \in DOMAIN more : Agrees(way, more[k], all[i])
      <4>1. CASE i = n + 1
        <5>1. Agrees(way, more[m + 1], all[i])
          BY <1>1, <3>1, <4>1, WaysCompare
        <5> QED
          BY <3>3, <5>1
      <4>2. CASE i # n + 1
        <5>1. i \in DOMAIN entries /\ all[i] = entries[i]
          BY <1>1, <4>2
        <5>2. PICK k \in DOMAIN some : Agrees(way, some[k], entries[i])
          BY <2>1, <5>1
        <5>3. k \in DOMAIN more /\ more[k] = some[k]
          BY <3>1
        <5> QED
          BY <5>1, <5>2, <5>3
      <4> QED
        BY <4>1, <4>2
    <3>6. ASSUME NEW k \in DOMAIN more, NEW l \in DOMAIN more, Clashes(way, more[k], more[l])
          PROVE  k = l
      <4>1. CASE k \in DOMAIN some /\ l \in DOMAIN some
        <5>1. more[k] = some[k] /\ more[l] = some[l]
          BY <3>1, <4>1
        <5> QED
          BY <2>1, <3>6, <4>1, <5>1
      <4>2. CASE k = m + 1 /\ l \in DOMAIN some
        <5>1. more[k] = entry /\ more[l] = some[l]
          BY <3>1, <4>2
        <5>2. Clashes(way, some[l], entry)
          BY <3>6, <5>1, WaysCompare
        <5> QED
          BY <2>4, <4>2, <5>2
      <4>3. CASE k \in DOMAIN some /\ l = m + 1
        <5>1. more[l] = entry /\ more[k] = some[k]
          BY <3>1, <4>3
        <5> QED
          BY <2>4, <3>6, <4>3, <5>1
      <4> QED
        BY <3>2, <4>1, <4>2, <4>3
    <3> QED
      BY <3>1, <3>4, <3>5, <3>6, Zenon DEF AddedUp, all
  <2> QED
    BY <2>1, <2>2, <2>3, <2>4 DEF Adds
<1> QED
  BY <1>4, <1>5

LEMMA AddAllNamed ==
  ASSUME NEW S, Conflict \notin Seq(S), NEW entries \in Seq(S)
  PROVE  AddedUp("named", S, entries, AddAll(SameName, Equal, entries))
<1> DEFINE fold(s) == AddingNamed!Fold(0, s)
           T == {s \in Seq(S) : AddedUp("named", S, s, fold(s))}
<1>1. AddAll(SameName, Equal, entries) = fold(entries)
  BY Zenon DEF AddAll, Add, AddingNamed!Fold, AddNamed, FoldLeft, AddingNamed!FoldLeft,
       MapThenFoldSet, AddingNamed!MapThenFoldSet, Max, AddingNamed!Max
<1>2. fold(<<>>) = <<>>
  BY AddingNamed!FoldEmpty
<1>3. \A s \in Seq(S), e \in S : fold(Append(s, e)) = Add(SameName, Equal, fold(s), e)
  BY AddingNamed!FoldAppend DEF AddNamed
<1> HIDE DEF fold
<1>4. <<>> \in T
  BY <1>2, AddedUpNone
<1>5. ASSUME NEW s \in Seq(S), NEW e \in S, s \in T PROVE Append(s, e) \in T
  <2>1. AddedUp("named", S, s, fold(s))
    BY <1>5
  <2>2. fold(s) = Conflict => fold(Append(s, e)) = Conflict
    BY <1>3 DEF Add
  <2>3. fold(s) \in Seq(S) => Adds("named", fold(s), e, fold(Append(s, e)))
    BY <1>3, AddNamedAdds
  <2>4. "named" \in Ways /\ Append(s, e) \in Seq(S)
    BY DEF Ways
  <2>5. AddedUp("named", S, Append(s, e), fold(Append(s, e)))
    BY <2>1, <2>2, <2>3, <2>4, AddedUpMore
  <2> QED
    BY <2>4, <2>5
<1> HIDE DEF T
<1>6. Seq(S) \subseteq T
  BY <1>4, <1>5, SeqSetInduction
<1> QED
  BY <1>1, <1>6 DEF T

LEMMA AddAllMounted ==
  ASSUME NEW S, Conflict \notin Seq(S), NEW entries \in Seq(S)
  PROVE  AddedUp("mounted", S, entries, AddAll(Overlap, SameMount, entries))
<1> DEFINE fold(s) == AddingMounted!Fold(0, s)
           T == {s \in Seq(S) : AddedUp("mounted", S, s, fold(s))}
<1>1. AddAll(Overlap, SameMount, entries) = fold(entries)
  BY Zenon DEF AddAll, Add, AddingMounted!Fold, AddMounted, FoldLeft, AddingMounted!FoldLeft,
       MapThenFoldSet, AddingMounted!MapThenFoldSet, Max, AddingMounted!Max
<1>2. fold(<<>>) = <<>>
  BY AddingMounted!FoldEmpty
<1>3. \A s \in Seq(S), e \in S : fold(Append(s, e)) = Add(Overlap, SameMount, fold(s), e)
  BY AddingMounted!FoldAppend DEF AddMounted
<1> HIDE DEF fold
<1>4. <<>> \in T
  BY <1>2, AddedUpNone
<1>5. ASSUME NEW s \in Seq(S), NEW e \in S, s \in T PROVE Append(s, e) \in T
  <2>1. AddedUp("mounted", S, s, fold(s))
    BY <1>5
  <2>2. fold(s) = Conflict => fold(Append(s, e)) = Conflict
    BY <1>3 DEF Add
  <2>3. fold(s) \in Seq(S) => Adds("mounted", fold(s), e, fold(Append(s, e)))
    BY <1>3, AddMountedAdds
  <2>4. "mounted" \in Ways /\ Append(s, e) \in Seq(S)
    BY DEF Ways
  <2>5. AddedUp("mounted", S, Append(s, e), fold(Append(s, e)))
    BY <2>1, <2>2, <2>3, <2>4, AddedUpMore
  <2> QED
    BY <2>4, <2>5
<1> HIDE DEF T
<1>6. Seq(S) \subseteq T
  BY <1>4, <1>5, SeqSetInduction
<1> QED
  BY <1>1, <1>6 DEF T

LEMMA AddAllEqual ==
  ASSUME NEW S, Conflict \notin Seq(S), NEW entries \in Seq(S)
  PROVE  AddedUp("equal", S, entries, AddAll(Equal, Equal, entries))
<1> DEFINE fold(s) == AddingEqual!Fold(0, s)
           T == {s \in Seq(S) : AddedUp("equal", S, s, fold(s))}
<1>1. AddAll(Equal, Equal, entries) = fold(entries)
  BY Zenon DEF AddAll, Add, AddingEqual!Fold, AddEqual, FoldLeft, AddingEqual!FoldLeft,
       MapThenFoldSet, AddingEqual!MapThenFoldSet, Max, AddingEqual!Max
<1>2. fold(<<>>) = <<>>
  BY AddingEqual!FoldEmpty
<1>3. \A s \in Seq(S), e \in S : fold(Append(s, e)) = Add(Equal, Equal, fold(s), e)
  BY AddingEqual!FoldAppend DEF AddEqual
<1> HIDE DEF fold
<1>4. <<>> \in T
  BY <1>2, AddedUpNone
<1>5. ASSUME NEW s \in Seq(S), NEW e \in S, s \in T PROVE Append(s, e) \in T
  <2>1. AddedUp("equal", S, s, fold(s))
    BY <1>5
  <2>2. fold(s) = Conflict => fold(Append(s, e)) = Conflict
    BY <1>3 DEF Add
  <2>3. fold(s) \in Seq(S) => Adds("equal", fold(s), e, fold(Append(s, e)))
    BY <1>3, AddEqualAdds
  <2>4. "equal" \in Ways /\ Append(s, e) \in Seq(S)
    BY DEF Ways
  <2>5. AddedUp("equal", S, Append(s, e), fold(Append(s, e)))
    BY <2>1, <2>2, <2>3, <2>4, AddedUpMore
  <2> QED
    BY <2>4, <2>5
<1> HIDE DEF T
<1>6. Seq(S) \subseteq T
  BY <1>4, <1>5, SeqSetInduction
<1> QED
  BY <1>1, <1>6 DEF T

-----------------------------------------------------------------------------
(* Filters *)

Known(quantities) == Filter(quantities, LAMBDA q : q # Unset)
Others(list) == Filter(list, LAMBDA p : ~pluginMergable(p))

KeepKnown(x, kept, q) == IF q # Unset THEN Append(kept, q) ELSE kept
KeepOther(x, kept, p) == IF ~pluginMergable(p) THEN Append(kept, p) ELSE kept
KeepOfImage(image, kept, p) ==
  IF pluginMergable(p) /\ Sidecar(p).Image = image THEN Append(kept, p) ELSE kept

KeepingKnown == INSTANCE FoldLemmas WITH Op <- KeepKnown, Base <- <<>>
KeepingOther == INSTANCE FoldLemmas WITH Op <- KeepOther, Base <- <<>>
KeepingOfImage == INSTANCE FoldLemmas WITH Op <- KeepOfImage, Base <- <<>>

LEMMA KnownAppend ==
  /\ Known(<<>>) = <<>>
  /\ \A S : \A list \in Seq(S) : \A q \in S :
       Known(Append(list, q)) = IF q # Unset THEN Append(Known(list), q) ELSE Known(list)
<1>1. \A list : Known(list) = KeepingKnown!Run(0, list)
  BY Zenon DEF Known, Filter, KeepingKnown!Run, KeepKnown
<1> QED
  BY <1>1, KeepingKnown!RunEmpty, KeepingKnown!RunAppend DEF KeepKnown

LEMMA OthersAppend ==
  /\ Others(<<>>) = <<>>
  /\ \A S : \A list \in Seq(S) : \A p \in S :
       Others(Append(list, p)) = IF ~pluginMergable(p) THEN Append(Others(list), p) ELSE Others(list)
<1>1. \A list : Others(list) = KeepingOther!Run(0, list)
  BY Zenon DEF Others, Filter, KeepingOther!Run, KeepOther
<1> QED
  BY <1>1, KeepingOther!RunEmpty, KeepingOther!RunAppend DEF KeepOther

LEMMA GroupOfRun ==
  ASSUME NEW image, NEW list
  PROVE  GroupOf(image, list) = KeepingOfImage!Run(image, list)
BY Zenon DEF GroupOf, Filter, KeepingOfImage!Run, KeepOfImage

LEMMA GroupOfNone ==
  ASSUME NEW image
  PROVE  GroupOf(image, <<>>) = <<>>
BY GroupOfRun, KeepingOfImage!RunEmpty

LEMMA GroupOfAppend ==
  ASSUME NEW image, NEW S, NEW list \in Seq(S), NEW p \in S
  PROVE  GroupOf(image, Append(list, p)) =
           IF pluginMergable(p) /\ Sidecar(p).Image = image
           THEN Append(GroupOf(image, list), p) ELSE GroupOf(image, list)
<1>1. KeepingOfImage!Run(image, Append(list, p)) =
        KeepOfImage(image, KeepingOfImage!Run(image, list), p)
  BY KeepingOfImage!RunAppend
<1> QED
  BY <1>1, GroupOfRun, Zenon DEF KeepOfImage

LEMMA HasAppend ==
  ASSUME NEW S, NEW list \in Seq(S), NEW e \in S, NEW f
  PROVE  /\ Append(list, e) \in Seq(S)
         /\ Has(Append(list, e), f) <=> Has(list, f) \/ f = e
<1> DEFINE all == Append(list, e)
           n == Len(list)
<1>1. /\ all \in Seq(S) /\ DOMAIN all = 1 .. n + 1 /\ all[n + 1] = e /\ n \in Nat
      /\ DOMAIN list = 1 .. n /\ \A i \in 1 .. n : all[i] = list[i] /\ i \in 1 .. n + 1
  BY AppendProperties
<1>2. n + 1 \in 1 .. n + 1 /\ \A i \in 1 .. n + 1 : i = n + 1 \/ i \in 1 .. n
  BY <1>1
<1> HIDE DEF all, n
<1>3. Has(all, f) <=> Has(list, f) \/ f = e
  BY <1>1, <1>2 DEF Has
<1> QED
  BY <1>1, <1>3 DEF all

(* A filter keeps elements of the list, those that pass its test.          *)
LEMMA KnownKeeps ==
  ASSUME NEW S, NEW list \in Seq(S)
  PROVE  /\ Known(list) \in Seq(S)
         /\ \A q : Has(Known(list), q) <=> Has(list, q) /\ q # Unset
<1> DEFINE T == {s \in Seq(S) : /\ Known(s) \in Seq(S)
                                /\ \A q : Has(Known(s), q) <=> Has(s, q) /\ q # Unset}
<1>1. <<>> \in T
  <2>1. <<>> \in Seq(S) /\ \A q : ~Has(<<>>, q)
    BY DEF Has
  <2> QED
    BY <2>1, KnownAppend
<1>2. ASSUME NEW s \in Seq(S), NEW e \in S, s \in T PROVE Append(s, e) \in T
  <2>1. /\ Known(s) \in Seq(S)
        /\ \A q : Has(Known(s), q) <=> Has(s, q) /\ q # Unset
    BY <1>2
  <2>2. Known(Append(s, e)) = IF e # Unset THEN Append(Known(s), e) ELSE Known(s)
    BY KnownAppend
  <2>3. Append(s, e) \in Seq(S) /\ \A q : Has(Append(s, e), q) <=> Has(s, q) \/ q = e
    BY HasAppend
  <2>4. Append(Known(s), e) \in Seq(S)
        /\ \A q : Has(Append(Known(s), e), q) <=> Has(Known(s), q) \/ q = e
    BY <2>1, HasAppend
  <2>5. CASE e # Unset
    BY <2>1, <2>2, <2>3, <2>4, <2>5
  <2>6. CASE e = Unset
    BY <2>1, <2>2, <2>3, <2>6
  <2> QED
    BY <2>5, <2>6
<1> HIDE DEF T
<1>3. Seq(S) \subseteq T
  BY <1>1, <1>2, SeqSetInduction
<1> QED
  BY <1>3 DEF T

LEMMA OthersKeeps ==
  ASSUME NEW S, NEW list \in Seq(S)
  PROVE  /\ Others(list) \in Seq(S)
         /\ \A p : Has(Others(list), p) <=> Has(list, p) /\ ~pluginMergable(p)
<1> DEFINE T == {s \in Seq(S) : /\ Others(s) \in Seq(S)
                                /\ \A p : Has(Others(s), p) <=> Has(s, p) /\ ~pluginMergable(p)}
<1>1. <<>> \in T
  <2>1. <<>> \in Seq(S) /\ \A p : ~Has(<<>>, p)
    BY DEF Has
  <2> QED
    BY <2>1, OthersAppend
<1>2. ASSUME NEW s \in Seq(S), NEW e \in S, s \in T PROVE Append(s, e) \in T
  <2>1. /\ Others(s) \in Seq(S)
        /\ \A p : Has(Others(s), p) <=> Has(s, p) /\ ~pluginMergable(p)
    BY <1>2
  <2>2. Others(Append(s, e)) = IF ~pluginMergable(e) THEN Append(Others(s), e) ELSE Others(s)
    BY OthersAppend
  <2>3. Append(s, e) \in Seq(S) /\ \A p : Has(Append(s, e), p) <=> Has(s, p) \/ p = e
    BY HasAppend
  <2>4. Append(Others(s), e) \in Seq(S)
        /\ \A p : Has(Append(Others(s), e), p) <=> Has(Others(s), p) \/ p = e
    BY <2>1, HasAppend
  <2>5. CASE ~pluginMergable(e)
    BY <2>1, <2>2, <2>3, <2>4, <2>5
  <2>6. CASE pluginMergable(e)
    BY <2>1, <2>2, <2>3, <2>6
  <2> QED
    BY <2>5, <2>6
<1> HIDE DEF T
<1>3. Seq(S) \subseteq T
  BY <1>1, <1>2, SeqSetInduction
<1> QED
  BY <1>3 DEF T

LEMMA GroupOfKeeps ==
  ASSUME NEW S, NEW list \in Seq(S), NEW image
  PROVE  /\ GroupOf(image, list) \in Seq(S)
         /\ \A p : Has(GroupOf(image, list), p)
                     <=> Has(list, p) /\ pluginMergable(p) /\ Sidecar(p).Image = image
<1> DEFINE In(p) == pluginMergable(p) /\ Sidecar(p).Image = image
           T == {s \in Seq(S) : /\ GroupOf(image, s) \in Seq(S)
                                /\ \A p : Has(GroupOf(image, s), p) <=> Has(s, p) /\ In(p)}
<1>1. <<>> \in T
  <2>1. <<>> \in Seq(S) /\ \A p : ~Has(<<>>, p)
    BY DEF Has
  <2> QED
    BY <2>1, GroupOfNone
<1>2. ASSUME NEW s \in Seq(S), NEW e \in S, s \in T PROVE Append(s, e) \in T
  <2>1. /\ GroupOf(image, s) \in Seq(S)
        /\ \A p : Has(GroupOf(image, s), p) <=> Has(s, p) /\ In(p)
    BY <1>2
  <2>2. GroupOf(image, Append(s, e)) =
          IF In(e) THEN Append(GroupOf(image, s), e) ELSE GroupOf(image, s)
    BY GroupOfAppend
  <2>3. Append(s, e) \in Seq(S) /\ \A p : Has(Append(s, e), p) <=> Has(s, p) \/ p = e
    BY HasAppend
  <2>4. Append(GroupOf(image, s), e) \in Seq(S)
        /\ \A p : Has(Append(GroupOf(image, s), e), p) <=> Has(GroupOf(image, s), p) \/ p = e
    BY <2>1, HasAppend
  <2> HIDE DEF In
  <2>5. CASE In(e)
    BY <2>1, <2>2, <2>3, <2>4, <2>5
  <2>6. CASE ~In(e)
    BY <2>1, <2>2, <2>3, <2>6
  <2> QED
    BY <2>5, <2>6
<1> HIDE DEF T
<1>3. Seq(S) \subseteq T
  BY <1>1, <1>2, SeqSetInduction
<1> QED
  BY <1>3 DEF T

-----------------------------------------------------------------------------
(* Counting *)

LEMMA CountNone ==
  ASSUME NEW S, NEW list \in Seq(S), NEW p
  PROVE  Count(p, list) \in Nat /\ (~Has(list, p) => Count(p, list) = 0)
<1>1. IsFiniteSet(DOMAIN list)
  <2>1. DOMAIN list = 1 .. Len(list) /\ Len(list) \in Int
    OBVIOUS
  <2> QED
    BY <2>1, FS_Interval
<1>2. {i \in DOMAIN list : list[i] = p} \subseteq DOMAIN list
  OBVIOUS
<1>3. IsFiniteSet({i \in DOMAIN list : list[i] = p})
  BY <1>1, <1>2, FS_Subset
<1>4. ~Has(list, p) => {i \in DOMAIN list : list[i] = p} = {}
  BY DEF Has
<1> QED
  BY <1>3, <1>4, FS_CardinalityType, FS_EmptySet DEF Count

LEMMA CountAppend ==
  ASSUME NEW S, NEW list \in Seq(S), NEW e \in S, NEW p
  PROVE  Count(p, Append(list, e)) = Count(p, list) + (IF e = p THEN 1 ELSE 0)
<1> DEFINE all == Append(list, e)
           n == Len(list)
           before == {i \in DOMAIN list : list[i] = p}
           after == {i \in DOMAIN all : all[i] = p}
<1>1. /\ DOMAIN all = 1 .. n + 1 /\ all[n + 1] = e /\ n \in Nat
      /\ DOMAIN list = 1 .. n /\ \A i \in 1 .. n : all[i] = list[i] /\ i \in 1 .. n + 1
  BY AppendProperties
<1>2. n + 1 \in 1 .. n + 1 /\ n + 1 \notin 1 .. n /\ \A i \in 1 .. n + 1 : i = n + 1 \/ i \in 1 .. n
  BY <1>1
<1>3. IsFiniteSet(before)
  <2>1. IsFiniteSet(1 .. n)
    BY <1>1, FS_Interval
  <2>2. before \subseteq 1 .. n
    BY <1>1
  <2> QED
    BY <2>1, <2>2, FS_Subset
<1>4. Cardinality(before) \in Nat
  BY <1>3, FS_CardinalityType
<1> HIDE DEF all, n
<1>7. Count(p, all) = Cardinality(after) /\ Count(p, list) = Cardinality(before)
  BY DEF Count
<1>5. CASE e = p
  <2>1. after = before \union {n + 1} /\ n + 1 \notin before
    BY <1>1, <1>2, <1>5
  <2>2. Cardinality(after) = Cardinality(before) + 1
    BY <1>3, <2>1, FS_AddElement
  <2> QED
    BY <1>5, <1>7, <2>2 DEF all
<1>6. CASE e # p
  <2>1. after = before
    BY <1>1, <1>2, <1>6
  <2>2. Cardinality(after) = Cardinality(before)
    BY <2>1
  <2> HIDE DEF before, after
  <2> QED
    BY <1>4, <1>6, <1>7, <2>2 DEF all
<1> QED
  BY <1>5, <1>6

LEMMA CountConcat ==
  ASSUME NEW S, NEW s \in Seq(S), NEW t \in Seq(S), NEW p
  PROVE  Count(p, s \o t) = Count(p, s) + Count(p, t)
<1> DEFINE T == {u \in Seq(S) : Count(p, s \o u) = Count(p, s) + Count(p, u)}
<1>1. <<>> \in T
  <2>1. <<>> \in Seq(S) /\ s \o <<>> = s /\ ~Has(<<>>, p)
    BY DEF Has
  <2>2. Count(p, <<>>) = 0 /\ Count(p, s) \in Nat
    BY <2>1, CountNone
  <2> QED
    BY <2>1, <2>2
<1>2. ASSUME NEW u \in Seq(S), NEW e \in S, u \in T PROVE Append(u, e) \in T
  <2>1. s \o u \in Seq(S) /\ Append(u, e) \in Seq(S) /\ s \o Append(u, e) = Append(s \o u, e)
    OBVIOUS
  <2>2. Count(p, s \o u) = Count(p, s) + Count(p, u)
    BY <1>2
  <2>3. Count(p, s) \in Nat /\ Count(p, u) \in Nat
    BY CountNone
  <2>4. /\ Count(p, Append(s \o u, e)) = Count(p, s \o u) + (IF e = p THEN 1 ELSE 0)
        /\ Count(p, Append(u, e)) = Count(p, u) + (IF e = p THEN 1 ELSE 0)
    BY <2>1, CountAppend
  <2>5. Count(p, Append(s \o u, e)) = Count(p, s) + Count(p, Append(u, e))
    BY <2>2, <2>3, <2>4
  <2>6. Count(p, s \o Append(u, e)) = Count(p, s) + Count(p, Append(u, e))
    BY <2>1, <2>5, Zenon
  <2> QED
    BY <2>1, <2>6
<1> HIDE DEF T
<1>3. Seq(S) \subseteq T
  BY <1>1, <1>2, SeqSetInduction
<1> QED
  BY <1>3 DEF T

-----------------------------------------------------------------------------
(* Adding up the resources *)

Plus(x, a, b) == a + b
Summing == INSTANCE FoldLemmas WITH Op <- Plus, Base <- 0

LEMMA SumAppend ==
  /\ Sum(<<>>) = 0
  /\ \A list \in Seq(Nat) : \A n \in Nat : Sum(Append(list, n)) = Sum(list) + n
<1>1. \A list : Sum(list) = Summing!Fold(0, list)
  BY Zenon DEF Sum, Summing!Fold, Plus, FoldLeft, Summing!FoldLeft,
       MapThenFoldSet, Summing!MapThenFoldSet, Max, Summing!Max
<1>2. Sum(<<>>) = 0
  BY <1>1, Summing!FoldEmpty, Zenon
<1>3. ASSUME NEW list \in Seq(Nat), NEW n \in Nat
      PROVE  Sum(Append(list, n)) = Sum(list) + n
  <2>1. Summing!Fold(0, Append(list, n)) = Plus(0, Summing!Fold(0, list), n)
    BY Summing!FoldAppend
  <2> QED
    BY <1>1, <2>1, Zenon DEF Plus
<1> QED
  BY <1>2, <1>3

Amounts(quantities) == [i \in DOMAIN quantities |-> Amount(quantities[i])]

LEMMA AmountsAppend ==
  ASSUME NEW list \in Seq(Quantity), NEW q \in Quantity
  PROVE  /\ Amounts(list) \in Seq(Nat) /\ Amount(q) \in Nat
         /\ Amounts(Append(list, q)) = Append(Amounts(list), Amount(q))
<1> DEFINE all == Append(list, q)
           n == Len(list)
<1>1. \A r : Amount(r) \in Nat
  BY DEF Amount
<1>2. /\ DOMAIN all = 1 .. n + 1 /\ all[n + 1] = q /\ n \in Nat
      /\ DOMAIN list = 1 .. n /\ \A i \in 1 .. n : all[i] = list[i] /\ i \in 1 .. n + 1
  BY AppendProperties
<1> HIDE DEF all, n
<1>3. Amounts(list) \in Seq(Nat) /\ Len(Amounts(list)) = n
      /\ \A i \in 1 .. n : Amounts(list)[i] = Amount(list[i])
  BY <1>1, <1>2 DEF Amounts
<1>4. Amounts(all) \in Seq(Nat) /\ Len(Amounts(all)) = n + 1
      /\ \A i \in 1 .. n + 1 : Amounts(all)[i] = Amount(all[i])
  BY <1>1, <1>2 DEF Amounts
<1>5. /\ Append(Amounts(list), Amount(q)) \in Seq(Nat)
      /\ Len(Append(Amounts(list), Amount(q))) = n + 1
      /\ \A i \in 1 .. n : Append(Amounts(list), Amount(q))[i] = Amounts(list)[i]
      /\ Append(Amounts(list), Amount(q))[n + 1] = Amount(q)
  BY <1>1, <1>3, AppendProperties
<1>6. ASSUME NEW i \in 1 .. n + 1 PROVE Amounts(all)[i] = Append(Amounts(list), Amount(q))[i]
  <2>1. CASE i = n + 1
    BY <1>2, <1>4, <1>5, <2>1
  <2>2. CASE i # n + 1
    <3>1. i \in 1 .. n
      BY <1>2, <2>2
    <3> QED
      BY <1>2, <1>3, <1>4, <1>5, <3>1
  <2> QED
    BY <2>1, <2>2
<1>7. Amounts(all) = Append(Amounts(list), Amount(q))
  BY <1>4, <1>5, <1>6, SeqEqual
<1> QED
  BY <1>1, <1>3, <1>7 DEF all

(* A quantity that is not given counts as nothing.                         *)
LEMMA SumOfKnown ==
  ASSUME NEW list \in Seq(Quantity), ~Has(list, Malformed)
  PROVE  Sum(Known(list)) \in Nat /\ Sum(Known(list)) = Sum(Amounts(list))
<1> DEFINE Fine(s) == /\ Known(s) \in Seq(Nat) /\ Sum(Known(s)) \in Nat
                      /\ Sum(Known(s)) = Sum(Amounts(s))
           T == {s \in Seq(Quantity) : ~Has(s, Malformed) => Fine(s)}
<1>1. <<>> \in T
  <2>1. <<>> \in Seq(Quantity) /\ Known(<<>>) = <<>> /\ <<>> \in Seq(Nat) /\ Sum(<<>>) = 0
    BY KnownAppend, SumAppend
  <2>2. Amounts(<<>>) = <<>>
    BY DEF Amounts
  <2>3. Known(<<>>) \in Seq(Nat) /\ Sum(Known(<<>>)) = 0
    BY <2>1, Zenon
  <2>4. Sum(Amounts(<<>>)) = 0
    BY <2>1, <2>2, Zenon
  <2>5. Fine(<<>>)
    BY <2>3, <2>4
  <2> QED
    BY <2>1, <2>5
<1>2. ASSUME NEW s \in Seq(Quantity), NEW q \in Quantity, s \in T PROVE Append(s, q) \in T
  <2>1. /\ Append(s, q) \in Seq(Quantity)
        /\ Has(Append(s, q), Malformed) <=> Has(s, Malformed) \/ Malformed = q
    BY HasAppend
  <2>2. SUFFICES ASSUME ~Has(s, Malformed), q # Malformed PROVE Fine(Append(s, q))
    BY <2>1
  <2>3. Fine(s)
    BY <1>2, <2>2
  <2>4. /\ Amounts(s) \in Seq(Nat) /\ Amount(q) \in Nat
        /\ Amounts(Append(s, q)) = Append(Amounts(s), Amount(q))
    BY AmountsAppend
  <2>5. Sum(Amounts(Append(s, q))) = Sum(Amounts(s)) + Amount(q)
    BY <2>4, SumAppend
  <2>6. CASE q = Unset
    <3>1. Known(Append(s, q)) = Known(s)
      BY <2>6, KnownAppend
    <3>2. Amount(q) = 0
      BY <2>6, MergeAssumption DEF Amount
    <3> QED
      BY <2>3, <2>5, <3>1, <3>2
  <2>7. CASE q # Unset
    <3>1. Known(Append(s, q)) = Append(Known(s), q)
      BY <2>7, KnownAppend
    <3>2. q \in Nat /\ Amount(q) = q
      BY <2>2, <2>7 DEF Amount, Quantity
    <3>3. Append(Known(s), q) \in Seq(Nat) /\ Sum(Append(Known(s), q)) = Sum(Known(s)) + q
      BY <2>3, <3>2, SumAppend
    <3>4. Known(Append(s, q)) \in Seq(Nat) /\ Sum(Known(Append(s, q))) = Sum(Known(s)) + q
      BY <3>1, <3>3, Zenon
    <3> QED
      BY <2>3, <2>5, <3>2, <3>4
  <2> QED
    BY <2>6, <2>7
<1> HIDE DEF T
<1>3. Seq(Quantity) \subseteq T
  BY <1>1, <1>2, SeqSetInduction
<1> QED
  BY <1>3 DEF T

-----------------------------------------------------------------------------
(* Merging a group *)

(* A group as the first loop makes them.                                   *)
Mergable(group) ==
  group \in Seq(PluginMeta) /\ \A i \in DOMAIN group : pluginMergable(group[i])

LEMMA SidecarType ==
  ASSUME NEW plugin \in PluginMeta, pluginMergable(plugin)
  PROVE  Sidecar(plugin) \in Container
<1>1. plugin.Containers \in Seq(Container) /\ Len(plugin.Containers) = 1
  BY DEF PluginMeta, MetaWith, pluginMergable
<1> QED
  BY <1>1 DEF Sidecar

LEMMA MetaParts ==
  ASSUME NEW plugin \in PluginMeta
  PROVE  /\ plugin.WorkspaceEnv \in Seq(EnvVar) /\ plugin.Endpoints \in Seq(Endpoint)
         /\ plugin.Extensions \in Seq(Word)
BY DEF PluginMeta, MetaWith

(* A list merged from a list of each plugin says what each of them says,   *)
(* does not contradict itself, and says nothing else.                      *)
MergedList(way, S, lists, result) ==
  /\ result \in Seq(S)
  /\ \A i \in DOMAIN lists : \A j \in DOMAIN lists[i] :
       \E k \in DOMAIN result : Agrees(way, result[k], lists[i][j])
  /\ \A k, l \in DOMAIN result : Clashes(way, result[k], result[l]) => k = l
  /\ \A k \in DOMAIN result : \E i \in DOMAIN lists : Has(lists[i], result[k])

AllAgree(way, entries) ==
  \A i, j \in DOMAIN entries :
    Clashes(way, entries[i], entries[j]) => Agrees(way, entries[i], entries[j])

LEMMA PartsMerged ==
  ASSUME NEW way, NEW S, Conflict \notin Seq(S), NEW lists \in Seq(Seq(S)), NEW result,
         AddedUp(way, S, FlattenSeq(lists), result)
  PROVE  /\ result # Conflict => MergedList(way, S, lists, result)
         /\ AllAgree(way, FlattenSeq(lists)) => result # Conflict
<1> DEFINE entries == FlattenSeq(lists)
<1>1. /\ entries \in Seq(S)
      /\ \A i \in DOMAIN lists : \A j \in DOMAIN lists[i] : Has(entries, lists[i][j])
      /\ \A e : Has(entries, e) => \E i \in DOMAIN lists : Has(lists[i], e)
  BY FlattenType, FlattenHas, FlattenFrom
<1>2. AddedUp(way, S, entries, result)
  OBVIOUS
<1> HIDE DEF entries
<1>3. result # Conflict =>
        /\ result \in Seq(S)
        /\ \A k \in DOMAIN result : Has(entries, result[k])
        /\ \A e : Has(entries, e) => \E k \in DOMAIN result : Agrees(way, result[k], e)
        /\ \A k, l \in DOMAIN result : Clashes(way, result[k], result[l]) => k = l
  BY <1>2 DEF AddedUp, Has
<1>4. AllAgree(way, entries) => result # Conflict
  BY <1>2 DEF AddedUp, AllAgree
<1>5. result # Conflict => MergedList(way, S, lists, result)
  BY <1>1, <1>3 DEF MergedList
<1> QED
  BY <1>4, <1>5 DEF entries

LEMMA WorkspaceEnvsMerged ==
  ASSUME NEW group, Mergable(group)
  PROVE  /\ WorkspaceEnvs(group) # Conflict =>
              /\ WorkspaceEnvs(group) \in Seq(EnvVar)
              /\ \A i \in DOMAIN group : AllSaid(Equal, group[i].WorkspaceEnv, WorkspaceEnvs(group))
              /\ Unambiguous(SameName, WorkspaceEnvs(group))
              /\ \A k \in DOMAIN WorkspaceEnvs(group) : \E i \in DOMAIN group : Has(group[i].WorkspaceEnv, WorkspaceEnvs(group)[k])
         /\ Consistent(SameName, Equal, Of(group, LAMBDA p : p.WorkspaceEnv)) => WorkspaceEnvs(group) # Conflict
<1> DEFINE lists == [i \in DOMAIN group |-> group[i].WorkspaceEnv]
<1>1. lists \in Seq(Seq(EnvVar))
  <2>1. \A i \in DOMAIN group : group[i].WorkspaceEnv \in Seq(EnvVar)
    <3>1. \A i \in DOMAIN group : group[i] \in PluginMeta
      BY DEF Mergable
    <3> QED
      BY <3>1, MetaParts
  <2>2. DOMAIN group = 1 .. Len(group) /\ Len(group) \in Nat
    BY DEF Mergable
  <2> QED
    BY <2>1, <2>2
<1>2. DOMAIN lists = DOMAIN group /\ \A i \in DOMAIN group : lists[i] = group[i].WorkspaceEnv
  OBVIOUS
<1>3. Of(group, LAMBDA p : p.WorkspaceEnv) = FlattenSeq(lists)
  BY Zenon DEF Of
<1>4. WorkspaceEnvs(group) = AddAll(SameName, Equal, FlattenSeq(lists))
  BY <1>3, Zenon DEF WorkspaceEnvs
<1> HIDE DEF lists
<1>5. Conflict \notin Seq(EnvVar) /\ FlattenSeq(lists) \in Seq(EnvVar)
  BY <1>1, FlattenType, MergeAssumption
<1>6. AddedUp("named", EnvVar, FlattenSeq(lists), WorkspaceEnvs(group))
  BY <1>4, <1>5, AddAllNamed
<1>7. \A e, f : (Clashes("named", e, f) <=> SameName(e, f)) /\ (Agrees("named", e, f) <=> Equal(e, f))
  BY DEF Clashes, Agrees
<1>8. /\ WorkspaceEnvs(group) # Conflict => MergedList("named", EnvVar, lists, WorkspaceEnvs(group))
      /\ AllAgree("named", FlattenSeq(lists)) => WorkspaceEnvs(group) # Conflict
  BY <1>1, <1>5, <1>6, PartsMerged
<1>9. Consistent(SameName, Equal, FlattenSeq(lists)) => AllAgree("named", FlattenSeq(lists))
  BY <1>7 DEF Consistent, AllAgree
<1>10. ASSUME MergedList("named", EnvVar, lists, WorkspaceEnvs(group))
       PROVE  /\ WorkspaceEnvs(group) \in Seq(EnvVar)
              /\ \A i \in DOMAIN group : AllSaid(Equal, lists[i], WorkspaceEnvs(group))
              /\ Unambiguous(SameName, WorkspaceEnvs(group))
              /\ \A k \in DOMAIN WorkspaceEnvs(group) : \E i \in DOMAIN group : Has(lists[i], WorkspaceEnvs(group)[k])
  BY <1>2, <1>7, <1>10 DEF MergedList, AllSaid, Said, Unambiguous
<1> QED
  BY <1>2, <1>3, <1>8, <1>9, <1>10

LEMMA EndpointsMerged ==
  ASSUME NEW group, Mergable(group)
  PROVE  /\ Endpoints(group) # Conflict =>
              /\ Endpoints(group) \in Seq(Endpoint)
              /\ \A i \in DOMAIN group : AllSaid(Equal, group[i].Endpoints, Endpoints(group))
              /\ Unambiguous(SameName, Endpoints(group))
              /\ \A k \in DOMAIN Endpoints(group) : \E i \in DOMAIN group : Has(group[i].Endpoints, Endpoints(group)[k])
         /\ Consistent(SameName, Equal, Of(group, LAMBDA p : p.Endpoints)) => Endpoints(group) # Conflict
<1> DEFINE lists == [i \in DOMAIN group |-> group[i].Endpoints]
<1>1. lists \in Seq(Seq(Endpoint))
  <2>1. \A i \in DOMAIN group : group[i].Endpoints \in Seq(Endpoint)
    <3>1. \A i \in DOMAIN group : group[i] \in PluginMeta
      BY DEF Mergable
    <3> QED
      BY <3>1, MetaParts
  <2>2. DOMAIN group = 1 .. Len(group) /\ Len(group) \in Nat
    BY DEF Mergable
  <2> QED
    BY <2>1, <2>2
<1>2. DOMAIN lists = DOMAIN group /\ \A i \in DOMAIN group : lists[i] = group[i].Endpoints
  OBVIOUS
<1>3. Of(group, LAMBDA p : p.Endpoints) = FlattenSeq(lists)
  BY Zenon DEF Of
<1>4. Endpoints(group) = AddAll(SameName, Equal, FlattenSeq(lists))
  BY <1>3, Zenon DEF Endpoints
<1> HIDE DEF lists
<1>5. Conflict \notin Seq(Endpoint) /\ FlattenSeq(lists) \in Seq(Endpoint)
  BY <1>1, FlattenType, MergeAssumption
<1>6. AddedUp("named", Endpoint, FlattenSeq(lists), Endpoints(group))
  BY <1>4, <1>5, AddAllNamed
<1>7. \A e, f : (Clashes("named", e, f) <=> SameName(e, f)) /\ (Agrees("named", e, f) <=> Equal(e, f))
  BY DEF Clashes, Agrees
<1>8. /\ Endpoints(group) # Conflict => MergedList("named", Endpoint, lists, Endpoints(group))
      /\ AllAgree("named", FlattenSeq(lists)) => Endpoints(group) # Conflict
  BY <1>1, <1>5, <1>6, PartsMerged
<1>9. Consistent(SameName, Equal, FlattenSeq(lists)) => AllAgree("named", FlattenSeq(lists))
  BY <1>7 DEF Consistent, AllAgree
<1>10. ASSUME MergedList("named", Endpoint, lists, Endpoints(group))
       PROVE  /\ Endpoints(group) \in Seq(Endpoint)
              /\ \A i \in DOMAIN group : AllSaid(Equal, lists[i], Endpoints(group))
              /\ Unambiguous(SameName, Endpoints(group))
              /\ \A k \in DOMAIN Endpoints(group) : \E i \in DOMAIN group : Has(lists[i], Endpoints(group)[k])
  BY <1>2, <1>7, <1>10 DEF MergedList, AllSaid, Said, Unambiguous
<1> QED
  BY <1>2, <1>3, <1>8, <1>9, <1>10

LEMMA ExtensionsMerged ==
  ASSUME NEW group, Mergable(group)
  PROVE  /\ Extensions(group) # Conflict =>
              /\ Extensions(group) \in Seq(Word)
              /\ \A i \in DOMAIN group : AllSaid(Equal, group[i].Extensions, Extensions(group))
              /\ Unambiguous(Equal, Extensions(group))
              /\ \A k \in DOMAIN Extensions(group) : \E i \in DOMAIN group : Has(group[i].Extensions, Extensions(group)[k])
         /\ Consistent(Equal, Equal, Of(group, LAMBDA p : p.Extensions)) => Extensions(group) # Conflict
<1> DEFINE lists == [i \in DOMAIN group |-> group[i].Extensions]
<1>1. lists \in Seq(Seq(Word))
  <2>1. \A i \in DOMAIN group : group[i].Extensions \in Seq(Word)
    <3>1. \A i \in DOMAIN group : group[i] \in PluginMeta
      BY DEF Mergable
    <3> QED
      BY <3>1, MetaParts
  <2>2. DOMAIN group = 1 .. Len(group) /\ Len(group) \in Nat
    BY DEF Mergable
  <2> QED
    BY <2>1, <2>2
<1>2. DOMAIN lists = DOMAIN group /\ \A i \in DOMAIN group : lists[i] = group[i].Extensions
  OBVIOUS
<1>3. Of(group, LAMBDA p : p.Extensions) = FlattenSeq(lists)
  BY Zenon DEF Of
<1>4. Extensions(group) = AddAll(Equal, Equal, FlattenSeq(lists))
  BY <1>3, Zenon DEF Extensions
<1> HIDE DEF lists
<1>5. Conflict \notin Seq(Word) /\ FlattenSeq(lists) \in Seq(Word)
  BY <1>1, FlattenType, MergeAssumption
<1>6. AddedUp("equal", Word, FlattenSeq(lists), Extensions(group))
  BY <1>4, <1>5, AddAllEqual
<1>7. \A e, f : (Clashes("equal", e, f) <=> Equal(e, f)) /\ (Agrees("equal", e, f) <=> Equal(e, f))
  BY DEF Clashes, Agrees
<1>8. /\ Extensions(group) # Conflict => MergedList("equal", Word, lists, Extensions(group))
      /\ AllAgree("equal", FlattenSeq(lists)) => Extensions(group) # Conflict
  BY <1>1, <1>5, <1>6, PartsMerged
<1>9. Consistent(Equal, Equal, FlattenSeq(lists)) => AllAgree("equal", FlattenSeq(lists))
  BY <1>7 DEF Consistent, AllAgree
<1>10. ASSUME MergedList("equal", Word, lists, Extensions(group))
       PROVE  /\ Extensions(group) \in Seq(Word)
              /\ \A i \in DOMAIN group : AllSaid(Equal, lists[i], Extensions(group))
              /\ Unambiguous(Equal, Extensions(group))
              /\ \A k \in DOMAIN Extensions(group) : \E i \in DOMAIN group : Has(lists[i], Extensions(group)[k])
  BY <1>2, <1>7, <1>10 DEF MergedList, AllSaid, Said, Unambiguous
<1> QED
  BY <1>2, <1>3, <1>8, <1>9, <1>10

LEMMA EnvsMerged ==
  ASSUME NEW group, Mergable(group)
  PROVE  /\ Envs(group) # Conflict =>
              /\ Envs(group) \in Seq(EnvVar)
              /\ \A i \in DOMAIN group : AllSaid(Equal, Sidecar(group[i]).Env, Envs(group))
              /\ Unambiguous(SameName, Envs(group))
              /\ \A k \in DOMAIN Envs(group) : \E i \in DOMAIN group : Has(Sidecar(group[i]).Env, Envs(group)[k])
         /\ Consistent(SameName, Equal, Of(group, LAMBDA p : Sidecar(p).Env)) => Envs(group) # Conflict
<1> DEFINE lists == [i \in DOMAIN group |-> Sidecar(group[i]).Env]
<1>1. lists \in Seq(Seq(EnvVar))
  <2>1. \A i \in DOMAIN group : Sidecar(group[i]).Env \in Seq(EnvVar)
    <3>1. \A i \in DOMAIN group : Sidecar(group[i]) \in Container
      BY SidecarType DEF Mergable
    <3> QED
      BY <3>1 DEF Container
  <2>2. DOMAIN group = 1 .. Len(group) /\ Len(group) \in Nat
    BY DEF Mergable
  <2> QED
    BY <2>1, <2>2
<1>2. DOMAIN lists = DOMAIN group /\ \A i \in DOMAIN group : lists[i] = Sidecar(group[i]).Env
  OBVIOUS
<1>3. Of(group, LAMBDA p : Sidecar(p).Env) = FlattenSeq(lists)
  BY Zenon DEF Of
<1>4. Envs(group) = AddAll(SameName, Equal, FlattenSeq(lists))
  BY <1>3, Zenon DEF Envs
<1> HIDE DEF lists
<1>5. Conflict \notin Seq(EnvVar) /\ FlattenSeq(lists) \in Seq(EnvVar)
  BY <1>1, FlattenType, MergeAssumption
<1>6. AddedUp("named", EnvVar, FlattenSeq(lists), Envs(group))
  BY <1>4, <1>5, AddAllNamed
<1>7. \A e, f : (Clashes("named", e, f) <=> SameName(e, f)) /\ (Agrees("named", e, f) <=> Equal(e, f))
  BY DEF Clashes, Agrees
<1>8. /\ Envs(group) # Conflict => MergedList("named", EnvVar, lists, Envs(group))
      /\ AllAgree("named", FlattenSeq(lists)) => Envs(group) # Conflict
  BY <1>1, <1>5, <1>6, PartsMerged
<1>9. Consistent(SameName, Equal, FlattenSeq(lists)) => AllAgree("named", FlattenSeq(lists))
  BY <1>7 DEF Consistent, AllAgree
<1>10. ASSUME MergedList("named", EnvVar, lists, Envs(group))
       PROVE  /\ Envs(group) \in Seq(EnvVar)
              /\ \A i \in DOMAIN group : AllSaid(Equal, lists[i], Envs(group))
              /\ Unambiguous(SameName, Envs(group))
              /\ \A k \in DOMAIN Envs(group) : \E i \in DOMAIN group : Has(lists[i], Envs(group)[k])
  BY <1>2, <1>7, <1>10 DEF MergedList, AllSaid, Said, Unambiguous
<1> QED
  BY <1>2, <1>3, <1>8, <1>9, <1>10

LEMMA CommandsMerged ==
  ASSUME NEW group, Mergable(group)
  PROVE  /\ Commands(group) # Conflict =>
              /\ Commands(group) \in Seq(Command)
              /\ \A i \in DOMAIN group : AllSaid(Equal, Sidecar(group[i]).Commands, Commands(group))
              /\ Unambiguous(SameName, Commands(group))
              /\ \A k \in DOMAIN Commands(group) : \E i \in DOMAIN group : Has(Sidecar(group[i]).Commands, Commands(group)[k])
         /\ Consistent(SameName, Equal, Of(group, LAMBDA p : Sidecar(p).Commands)) => Commands(group) # Conflict
<1> DEFINE lists == [i \in DOMAIN group |-> Sidecar(group[i]).Commands]
<1>1. lists \in Seq(Seq(Command))
  <2>1. \A i \in DOMAIN group : Sidecar(group[i]).Commands \in Seq(Command)
    <3>1. \A i \in DOMAIN group : Sidecar(group[i]) \in Container
      BY SidecarType DEF Mergable
    <3> QED
      BY <3>1 DEF Container
  <2>2. DOMAIN group = 1 .. Len(group) /\ Len(group) \in Nat
    BY DEF Mergable
  <2> QED
    BY <2>1, <2>2
<1>2. DOMAIN lists = DOMAIN group /\ \A i \in DOMAIN group : lists[i] = Sidecar(group[i]).Commands
  OBVIOUS
<1>3. Of(group, LAMBDA p : Sidecar(p).Commands) = FlattenSeq(lists)
  BY Zenon DEF Of
<1>4. Commands(group) = AddAll(SameName, Equal, FlattenSeq(lists))
  BY <1>3, Zenon DEF Commands
<1> HIDE DEF lists
<1>5. Conflict \notin Seq(Command) /\ FlattenSeq(lists) \in Seq(Command)
  BY <1>1, FlattenType, MergeAssumption
<1>6. AddedUp("named", Command, FlattenSeq(lists), Commands(group))
  BY <1>4, <1>5, AddAllNamed
<1>7. \A e, f : (Clashes("named", e, f) <=> SameName(e, f)) /\ (Agrees("named", e, f) <=> Equal(e, f))
  BY DEF Clashes, Agrees
<1>8. /\ Commands(group) # Conflict => MergedList("named", Command, lists, Commands(group))
      /\ AllAgree("named", FlattenSeq(lists)) => Commands(group) # Conflict
  BY <1>1, <1>5, <1>6, PartsMerged
<1>9. Consistent(SameName, Equal, FlattenSeq(lists)) => AllAgree("named", FlattenSeq(lists))
  BY <1>7 DEF Consistent, AllAgree
<1>10. ASSUME MergedList("named", Command, lists, Commands(group))
       PROVE  /\ Commands(group) \in Seq(Command)
              /\ \A i \in DOMAIN group : AllSaid(Equal, lists[i], Commands(group))
              /\ Unambiguous(SameName, Commands(group))
              /\ \A k \in DOMAIN Commands(group) : \E i \in DOMAIN group : Has(lists[i], Commands(group)[k])
  BY <1>2, <1>7, <1>10 DEF MergedList, AllSaid, Said, Unambiguous
<1> QED
  BY <1>2, <1>3, <1>8, <1>9, <1>10

LEMMA VolumesMerged ==
  ASSUME NEW group, Mergable(group)
  PROVE  /\ Volumes(group) # Conflict =>
              /\ Volumes(group) \in Seq(Volume)
              /\ \A i \in DOMAIN group : AllSaid(SameMount, Sidecar(group[i]).Volumes, Volumes(group))
              /\ Unambiguous(Overlap, Volumes(group))
              /\ \A k \in DOMAIN Volumes(group) : \E i \in DOMAIN group : Has(Sidecar(group[i]).Volumes, Volumes(group)[k])
         /\ Consistent(Overlap, SameMount, Of(group, LAMBDA p : Sidecar(p).Volumes)) => Volumes(group) # Conflict
<1> DEFINE lists == [i \in DOMAIN group |-> Sidecar(group[i]).Volumes]
<1>1. lists \in Seq(Seq(Volume))
  <2>1. \A i \in DOMAIN group : Sidecar(group[i]).Volumes \in Seq(Volume)
    <3>1. \A i \in DOMAIN group : Sidecar(group[i]) \in Container
      BY SidecarType DEF Mergable
    <3> QED
      BY <3>1 DEF Container
  <2>2. DOMAIN group = 1 .. Len(group) /\ Len(group) \in Nat
    BY DEF Mergable
  <2> QED
    BY <2>1, <2>2
<1>2. DOMAIN lists = DOMAIN group /\ \A i \in DOMAIN group : lists[i] = Sidecar(group[i]).Volumes
  OBVIOUS
<1>3. Of(group, LAMBDA p : Sidecar(p).Volumes) = FlattenSeq(lists)
  BY Zenon DEF Of
<1>4. Volumes(group) = AddAll(Overlap, SameMount, FlattenSeq(lists))
  BY <1>3, Zenon DEF Volumes
<1> HIDE DEF lists
<1>5. Conflict \notin Seq(Volume) /\ FlattenSeq(lists) \in Seq(Volume)
  BY <1>1, FlattenType, MergeAssumption
<1>6. AddedUp("mounted", Volume, FlattenSeq(lists), Volumes(group))
  BY <1>4, <1>5, AddAllMounted
<1>7. \A e, f : (Clashes("mounted", e, f) <=> Overlap(e, f)) /\ (Agrees("mounted", e, f) <=> SameMount(e, f))
  BY DEF Clashes, Agrees
<1>8. /\ Volumes(group) # Conflict => MergedList("mounted", Volume, lists, Volumes(group))
      /\ AllAgree("mounted", FlattenSeq(lists)) => Volumes(group) # Conflict
  BY <1>1, <1>5, <1>6, PartsMerged
<1>9. Consistent(Overlap, SameMount, FlattenSeq(lists)) => AllAgree("mounted", FlattenSeq(lists))
  BY <1>7 DEF Consistent, AllAgree
<1>10. ASSUME MergedList("mounted", Volume, lists, Volumes(group))
       PROVE  /\ Volumes(group) \in Seq(Volume)
              /\ \A i \in DOMAIN group : AllSaid(SameMount, lists[i], Volumes(group))
              /\ Unambiguous(Overlap, Volumes(group))
              /\ \A k \in DOMAIN Volumes(group) : \E i \in DOMAIN group : Has(lists[i], Volumes(group)[k])
  BY <1>2, <1>7, <1>10 DEF MergedList, AllSaid, Said, Unambiguous
<1> QED
  BY <1>2, <1>3, <1>8, <1>9, <1>10

LEMMA PortsMerged ==
  ASSUME NEW group, Mergable(group)
  PROVE  /\ Ports(group) \in Seq(Word)
         /\ \A i \in DOMAIN group : AllSaid(Equal, Sidecar(group[i]).Ports, Ports(group))
<1> DEFINE lists == [i \in DOMAIN group |-> Sidecar(group[i]).Ports]
           entries == FlattenSeq(lists)
<1>1. lists \in Seq(Seq(Word))
  <2>1. \A i \in DOMAIN group : Sidecar(group[i]).Ports \in Seq(Word)
    <3>1. \A i \in DOMAIN group : Sidecar(group[i]) \in Container
      BY SidecarType DEF Mergable
    <3> QED
      BY <3>1 DEF Container
  <2>2. DOMAIN group = 1 .. Len(group) /\ Len(group) \in Nat
    BY DEF Mergable
  <2> QED
    BY <2>1, <2>2
<1>2. entries \in Seq(Word)
  BY <1>1, FlattenType
<1>3. \A i \in DOMAIN group :
        \A k \in DOMAIN Sidecar(group[i]).Ports : Has(entries, Sidecar(group[i]).Ports[k])
  <2>1. \A i \in DOMAIN lists : \A k \in DOMAIN lists[i] : Has(entries, lists[i][k])
    BY <1>1, FlattenHas
  <2> HIDE DEF entries
  <2> QED
    BY <2>1
<1>4. Ports(group) = entries
  BY Zenon DEF Of, Ports
<1> HIDE DEF entries
<1> QED
  BY <1>2, <1>3, <1>4 DEF AllSaid, Said, Has, Equal

LEMMA ResourcesMerged ==
  ASSUME NEW group, Mergable(group), NEW kind \in ResourceKind
  PROVE  /\ ~Contains(Quantities(kind, group), Malformed) =>
              /\ Total(kind, group) \in Quantity
              /\ Amount(Total(kind, group)) =
                   Sum([j \in DOMAIN group |-> Amount(Sidecar(group[j]).Resources[kind])])
         /\ (\A i \in DOMAIN group : Sidecar(group[i]).Resources[kind] # Malformed)
              => ~Contains(Quantities(kind, group), Malformed)
<1> DEFINE list == [i \in DOMAIN group |-> Sidecar(group[i]).Resources[kind]]
           sum == Sum([j \in DOMAIN group |-> Amount(Sidecar(group[j]).Resources[kind])])
<1>1. list \in Seq(Quantity)
  <2>1. \A i \in DOMAIN group : Sidecar(group[i]).Resources[kind] \in Quantity
    <3>1. \A i \in DOMAIN group : Sidecar(group[i]) \in Container
      BY SidecarType DEF Mergable
    <3> QED
      BY <3>1 DEF Container
  <2>2. DOMAIN group = 1 .. Len(group) /\ Len(group) \in Nat
    BY DEF Mergable
  <2> QED
    BY <2>1, <2>2
<1>2. Quantities(kind, group) = Known(list)
  BY Zenon DEF Quantities, Known
<1>3. /\ Known(list) \in Seq(Quantity)
      /\ \A q : Has(Known(list), q) <=> Has(list, q) /\ q # Unset
  BY <1>1, KnownKeeps
<1>4. Contains(Quantities(kind, group), Malformed) <=> Has(list, Malformed)
  <2> DEFINE known == Known(list)
  <2> HIDE DEF known
  <2>1. Contains(known, Malformed) <=> Has(known, Malformed)
    <3>1. DOMAIN known = 1 .. Len(known)
      BY <1>3 DEF known
    <3> QED
      BY <3>1, Zenon DEF Contains, Has
  <2> QED
    BY <1>2, <1>3, <2>1, MergeAssumption DEF known
<1>5. Sum(Amounts(list)) = sum
  <2>1. Amounts(list) = [j \in DOMAIN group |-> Amount(Sidecar(group[j]).Resources[kind])]
    BY DEF Amounts
  <2> QED
    BY <2>1, Zenon
<1>6. ASSUME ~Has(list, Malformed)
      PROVE  Total(kind, group) \in Quantity /\ Amount(Total(kind, group)) = sum
  <2>1. Sum(Known(list)) \in Nat /\ Sum(Known(list)) = sum
    BY <1>1, <1>5, <1>6, SumOfKnown
  <2>2. Total(kind, group) = IF Sum(Known(list)) = 0 THEN Unset ELSE Sum(Known(list))
    BY <1>2, Zenon DEF Total
  <2> HIDE DEF list, sum
  <2> QED
    BY <2>1, <2>2, MergeAssumption DEF Quantity, Amount
<1>7. (\A i \in DOMAIN group : Sidecar(group[i]).Resources[kind] # Malformed) => ~Has(list, Malformed)
  BY DEF Has
<1> HIDE DEF list
<1> QED
  BY <1>4, <1>6, <1>7

(* Nothing is in a merged plugin but what one of the group has.            *)
MadeOf(group, whole) ==
  /\ \A k \in DOMAIN whole.Extensions :
       \E j \in DOMAIN group : Has(group[j].Extensions, whole.Extensions[k])
  /\ \A k \in DOMAIN Sidecar(whole).Env :
       \E j \in DOMAIN group : Has(Sidecar(group[j]).Env, Sidecar(whole).Env[k])
  /\ \A k \in DOMAIN Sidecar(whole).Volumes :
       \E j \in DOMAIN group : Has(Sidecar(group[j]).Volumes, Sidecar(whole).Volumes[k])

(* What the plugin a group merges into is good for.                        *)
GoodMerge(image, group, whole) ==
  /\ whole \in PluginMeta /\ pluginMergable(whole)
  /\ Sidecar(whole).Image = image
  /\ MadeOf(group, whole)
  /\ \A j \in DOMAIN group : Provides(whole, group[j])
  /\ AddsUp(whole, group)
  /\ Unambiguous(SameName, whole.WorkspaceEnv)
  /\ Unambiguous(SameName, whole.Endpoints)
  /\ Unambiguous(SameName, Sidecar(whole).Env)
  /\ Unambiguous(SameName, Sidecar(whole).Commands)
  /\ Unambiguous(Overlap, Sidecar(whole).Volumes)

NoConflict(group) ==
  /\ WorkspaceEnvs(group) # Conflict /\ Endpoints(group) # Conflict
  /\ Envs(group) # Conflict /\ Commands(group) # Conflict /\ Volumes(group) # Conflict
  /\ \A kind \in ResourceKind : ~Contains(Quantities(kind, group), Malformed)

LEMMA MergeGood ==
  ASSUME NEW image \in Image, NEW group, Mergable(group), group # <<>>,
         NoConflict(group)
  PROVE  GoodMerge(image, group, mergePluginsForImage(image, group))
<1> DEFINE resources == [kind \in ResourceKind |-> Total(kind, group)]
           mount == \E i \in DOMAIN group : Sidecar(group[i]).MountSources
           sidecar == [Name |-> "merged", Image |-> image,
                       Env |-> Envs(group), Commands |-> Commands(group),
                       Volumes |-> Volumes(group), Ports |-> Ports(group),
                       Resources |-> resources, MountSources |-> mount, Custom |-> FALSE]
           whole == [APIVersion |-> "v2", ID |-> group[1].Title, Title |-> group[1].Title,
                     Type |-> "theia plugin", InitContainers |-> <<>>,
                     Endpoints |-> Endpoints(group), WorkspaceEnv |-> WorkspaceEnvs(group),
                     Extensions |-> Extensions(group), Containers |-> <<sidecar>>]
<1>1. /\ mergePluginsForImage(image, group) = whole
      /\ WorkspaceEnvs(group) # Conflict /\ Endpoints(group) # Conflict
      /\ Envs(group) # Conflict /\ Commands(group) # Conflict /\ Volumes(group) # Conflict
      /\ \A kind \in ResourceKind : ~Contains(Quantities(kind, group), Malformed)
  BY Zenon DEF mergePluginsForImage, NoConflict
<1>2. /\ WorkspaceEnvs(group) \in Seq(EnvVar) /\ Unambiguous(SameName, WorkspaceEnvs(group))
      /\ \A i \in DOMAIN group : AllSaid(Equal, group[i].WorkspaceEnv, WorkspaceEnvs(group))
  BY <1>1, WorkspaceEnvsMerged
<1>3. /\ Endpoints(group) \in Seq(Endpoint) /\ Unambiguous(SameName, Endpoints(group))
      /\ \A i \in DOMAIN group : AllSaid(Equal, group[i].Endpoints, Endpoints(group))
  BY <1>1, EndpointsMerged
<1>4. /\ Envs(group) \in Seq(EnvVar) /\ Unambiguous(SameName, Envs(group))
      /\ \A i \in DOMAIN group : AllSaid(Equal, Sidecar(group[i]).Env, Envs(group))
      /\ \A k \in DOMAIN Envs(group) : \E i \in DOMAIN group : Has(Sidecar(group[i]).Env, Envs(group)[k])
  BY <1>1, EnvsMerged
<1>5. /\ Commands(group) \in Seq(Command) /\ Unambiguous(SameName, Commands(group))
      /\ \A i \in DOMAIN group : AllSaid(Equal, Sidecar(group[i]).Commands, Commands(group))
  BY <1>1, CommandsMerged
<1>6. /\ Volumes(group) \in Seq(Volume) /\ Unambiguous(Overlap, Volumes(group))
      /\ \A i \in DOMAIN group : AllSaid(SameMount, Sidecar(group[i]).Volumes, Volumes(group))
      /\ \A k \in DOMAIN Volumes(group) :
           \E i \in DOMAIN group : Has(Sidecar(group[i]).Volumes, Volumes(group)[k])
  BY <1>1, VolumesMerged
<1>7. /\ Extensions(group) \in Seq(Word)
      /\ \A i \in DOMAIN group : AllSaid(Equal, group[i].Extensions, Extensions(group))
      /\ \A k \in DOMAIN Extensions(group) :
           \E i \in DOMAIN group : Has(group[i].Extensions, Extensions(group)[k])
  <2>1. \A i, j \in DOMAIN Of(group, LAMBDA p : p.Extensions) :
          Equal(Of(group, LAMBDA p : p.Extensions)[i], Of(group, LAMBDA p : p.Extensions)[j])
            => Equal(Of(group, LAMBDA p : p.Extensions)[i], Of(group, LAMBDA p : p.Extensions)[j])
    OBVIOUS
  <2>2. Consistent(Equal, Equal, Of(group, LAMBDA p : p.Extensions))
    BY <2>1, Zenon DEF Consistent
  <2> QED
    BY <2>2, ExtensionsMerged
<1>8. /\ Ports(group) \in Seq(Word)
      /\ \A i \in DOMAIN group : AllSaid(Equal, Sidecar(group[i]).Ports, Ports(group))
  BY PortsMerged
<1>9. \A kind \in ResourceKind :
        /\ Total(kind, group) \in Quantity
        /\ Amount(Total(kind, group)) =
             Sum([j \in DOMAIN group |-> Amount(Sidecar(group[j]).Resources[kind])])
  BY <1>1, ResourcesMerged
<1>10. group[1] \in PluginMeta
  BY DEF Mergable
<1>11. group[1].Title \in Title /\ group[1].Title \in PluginID
  BY <1>10, MergeAssumption DEF PluginMeta, MetaWith
<1>12. resources \in [ResourceKind -> Quantity] /\ mount \in BOOLEAN /\ "merged" \in Word
  BY <1>9, MergeAssumption
<1> HIDE DEF resources, mount
<1>13. sidecar \in Container
  BY <1>4, <1>5, <1>6, <1>8, <1>12 DEF Container
<1>14. Sidecar(whole) = sidecar
  BY DEF Sidecar
<1>15. whole \in PluginMeta
  <2>1. <<sidecar>> \in Seq(Container) /\ <<>> \in Seq(Container)
    BY <1>13
  <2> HIDE DEF sidecar
  <2> QED
    BY <1>2, <1>3, <1>7, <1>11, <2>1 DEF PluginMeta, MetaWith, PluginType, TheiaTypes, CheTypes
<1>16. ASSUME NEW j \in DOMAIN group PROVE Provides(whole, group[j])
  <2>1. Sidecar(group[j]).MountSources => mount
    BY DEF mount
  <2>2. /\ whole.WorkspaceEnv = WorkspaceEnvs(group) /\ whole.Endpoints = Endpoints(group)
        /\ whole.Extensions = Extensions(group)
        /\ sidecar.Env = Envs(group) /\ sidecar.Commands = Commands(group)
        /\ sidecar.Volumes = Volumes(group) /\ sidecar.Ports = Ports(group)
        /\ sidecar.MountSources = mount
    OBVIOUS
  <2> HIDE DEF whole, sidecar
  <2> QED
    BY <1>2, <1>3, <1>4, <1>5, <1>6, <1>7, <1>8, <1>14, <2>1, <2>2, Zenon DEF Provides
<1>17. AddsUp(whole, group)
  <2>1. sidecar.Resources = resources
    OBVIOUS
  <2>2. \A kind \in ResourceKind : resources[kind] = Total(kind, group)
    BY DEF resources
  <2> HIDE DEF whole, sidecar
  <2> QED
    BY <1>9, <1>14, <2>1, <2>2, Zenon DEF AddsUp
<1>18. /\ Unambiguous(SameName, whole.WorkspaceEnv) /\ Unambiguous(SameName, whole.Endpoints)
       /\ Unambiguous(SameName, sidecar.Env) /\ Unambiguous(SameName, sidecar.Commands)
       /\ Unambiguous(Overlap, sidecar.Volumes)
  <2>1. /\ whole.WorkspaceEnv = WorkspaceEnvs(group) /\ whole.Endpoints = Endpoints(group)
        /\ sidecar.Env = Envs(group) /\ sidecar.Commands = Commands(group)
        /\ sidecar.Volumes = Volumes(group)
    OBVIOUS
  <2> HIDE DEF whole, sidecar
  <2> QED
    BY <1>2, <1>3, <1>4, <1>5, <1>6, <2>1, Zenon
<1>19. sidecar.Image = image
  OBVIOUS
<1>20. MadeOf(group, whole)
  <2>1. /\ whole.Extensions = Extensions(group)
        /\ sidecar.Env = Envs(group) /\ sidecar.Volumes = Volumes(group)
    OBVIOUS
  <2> HIDE DEF whole, sidecar
  <2> QED
    BY <1>4, <1>6, <1>7, <1>14, <2>1, Zenon DEF MadeOf
<1>21. pluginMergable(whole)
  <2>1. whole.Type \in TheiaTypes /\ Len(whole.Containers) = 1 /\ whole.InitContainers = <<>>
    BY DEF TheiaTypes
  <2>2. whole.Containers[1] = sidecar /\ ~sidecar.Custom
    OBVIOUS
  <2> HIDE DEF whole, sidecar
  <2> QED
    BY <2>1, <2>2 DEF pluginMergable, IsTheiaOrVscodePlugin
<1> HIDE DEF whole, sidecar
<1>22. GoodMerge(image, group, whole)
  BY <1>14, <1>15, <1>16, <1>17, <1>18, <1>19, <1>20, <1>21, Zenon DEF GoodMerge
<1> QED
  BY <1>1, <1>22, Zenon

LEMMA MergeResults ==
  ASSUME NEW image, NEW group, mergePluginsForImage(image, group) # Conflict
  PROVE  NoConflict(group)
BY Zenon DEF mergePluginsForImage, NoConflict

(* Plugins that do not contradict each other are merged.                   *)
LEMMA CompatibleMerge ==
  ASSUME NEW image \in Image, NEW group, Mergable(group), group # <<>>,
         Compatible(group)
  PROVE  mergePluginsForImage(image, group) # Conflict
<1>1. /\ WorkspaceEnvs(group) # Conflict /\ Endpoints(group) # Conflict
      /\ Envs(group) # Conflict /\ Commands(group) # Conflict /\ Volumes(group) # Conflict
  BY WorkspaceEnvsMerged, EndpointsMerged, EnvsMerged, CommandsMerged, VolumesMerged
     DEF Compatible
<1>2. \A kind \in ResourceKind : ~Contains(Quantities(kind, group), Malformed)
  BY ResourcesMerged DEF Compatible
<1>3. NoConflict(group)
  BY <1>1, <1>2 DEF NoConflict
<1>4. GoodMerge(image, group, mergePluginsForImage(image, group))
  BY <1>3, MergeGood
<1> QED
  BY <1>4, MergeAssumption DEF GoodMerge

-----------------------------------------------------------------------------
(* The lists that an order of the images gives *)

LEMMA GroupMergable ==
  ASSUME NEW image, NEW list \in Seq(PluginMeta)
  PROVE  /\ Mergable(GroupOf(image, list))
         /\ \A i \in DOMAIN GroupOf(image, list) :
              Sidecar(GroupOf(image, list)[i]).Image = image
BY GroupOfKeeps DEF Mergable, Has

LEMMA GroupParts ==
  ASSUME NEW image \in Image, NEW list \in Seq(PluginMeta)
  PROVE  /\ LeftAlone(image, GroupOf(image, list)) \in Seq(PluginMeta)
         /\ MergedInto(image, GroupOf(image, list)) \in Seq(PluginMeta)
<1> DEFINE group == GroupOf(image, list)
<1>1. Mergable(group) /\ group \in Seq(PluginMeta) /\ <<>> \in Seq(PluginMeta)
  BY GroupMergable DEF Mergable
<1> HIDE DEF group
<1>2. ASSUME Merges(image, group) PROVE mergePluginsForImage(image, group) \in PluginMeta
  <2>1. group # <<>> /\ mergePluginsForImage(image, group) # Conflict
    BY <1>1, <1>2 DEF Merges
  <2> QED
    BY <1>1, <2>1, MergeResults, MergeGood DEF GoodMerge
<1>3. LeftAlone(image, group) \in Seq(PluginMeta) /\ MergedInto(image, group) \in Seq(PluginMeta)
  BY <1>1, <1>2 DEF LeftAlone, MergedInto
<1> QED
  BY <1>3 DEF group

LEMMA OrderNone ==
  ASSUME NEW list \in Seq(PluginMeta)
  PROVE  UnmodifiedOf(list, <<>>) = Others(list) /\ MergedOf(list, <<>>) = <<>>
<1>1. Of(<<>>, LAMBDA image : LeftAlone(image, GroupOf(image, list))) = <<>>
  <2>1. [i \in DOMAIN <<>> |-> LeftAlone(<<>>[i], GroupOf(<<>>[i], list))] = <<>>
    OBVIOUS
  <2> QED
    BY <2>1, FlattenNone, Zenon DEF Of
<1>2. MergedOf(list, <<>>) = <<>>
  <2>1. [i \in DOMAIN <<>> |-> MergedInto(<<>>[i], GroupOf(<<>>[i], list))] = <<>>
    OBVIOUS
  <2> QED
    BY <2>1, FlattenNone, Zenon DEF Of, MergedOf
<1>3. Others(list) \in Seq(PluginMeta)
  BY OthersKeeps
<1>4. UnmodifiedOf(list, <<>>) = Others(list) \o <<>>
  BY <1>1, Zenon DEF UnmodifiedOf, Others
<1> QED
  BY <1>2, <1>3, <1>4

(* Of three lists, the first two or the last two may be joined first.     *)
LEMMA JoinedLast ==
  \A s, t, u \in Seq(PluginMeta) : s \o (t \o u) = (s \o t) \o u
BY ConcatAssociative

LEMMA OrderNext ==
  ASSUME NEW list \in Seq(PluginMeta), NEW order \in Seq(Image), NEW image \in Image
  PROVE  /\ UnmodifiedOf(list, Append(order, image))
              = UnmodifiedOf(list, order) \o LeftAlone(image, GroupOf(image, list))
         /\ MergedOf(list, Append(order, image))
              = MergedOf(list, order) \o MergedInto(image, GroupOf(image, list))
<1> DEFINE more == Append(order, image)
           n == Len(order)
           alone(im) == LeftAlone(im, GroupOf(im, list))
           into(im) == MergedInto(im, GroupOf(im, list))
<1>1. /\ more \in Seq(Image) /\ DOMAIN more = 1 .. n + 1 /\ more[n + 1] = image /\ n \in Nat
      /\ DOMAIN order = 1 .. n
      /\ \A i \in 1 .. n : more[i] = order[i] /\ i \in 1 .. n + 1 /\ order[i] \in Image
  BY AppendProperties
<1>2. \A im \in Image : alone(im) \in Seq(PluginMeta) /\ into(im) \in Seq(PluginMeta)
  BY GroupParts
<1>3. n + 1 \in 1 .. n + 1 /\ \A i \in 1 .. n + 1 : more[i] \in Image
  BY <1>1
<1> HIDE DEF more, n, alone, into
<1>4. FlattenSeq([i \in DOMAIN more |-> alone(more[i])])
        = FlattenSeq([i \in DOMAIN order |-> alone(order[i])]) \o alone(image)
  <2> DEFINE f == [i \in DOMAIN order |-> alone(order[i])]
             g == [i \in DOMAIN more |-> alone(more[i])]
  <2>1. /\ f \in Seq(Seq(PluginMeta)) /\ Len(f) = n
        /\ g \in Seq(Seq(PluginMeta)) /\ Len(g) = n + 1
        /\ (\A i \in 1 .. n : g[i] = f[i]) /\ g[n + 1] = alone(image)
    BY <1>1, <1>2, <1>3
  <2> HIDE DEF f, g
  <2>2. FlattenSeq(g) = FlattenSeq(f) \o g[n + 1]
    BY <1>1, <2>1, FlattenMore
  <2>3. FlattenSeq(g) = FlattenSeq(f) \o alone(image)
    BY <2>1, <2>2, Zenon
  <2> QED
    BY <2>3 DEF f, g
<1>5. FlattenSeq([i \in DOMAIN more |-> into(more[i])])
        = FlattenSeq([i \in DOMAIN order |-> into(order[i])]) \o into(image)
  <2> DEFINE f == [i \in DOMAIN order |-> into(order[i])]
             g == [i \in DOMAIN more |-> into(more[i])]
  <2>1. /\ f \in Seq(Seq(PluginMeta)) /\ Len(f) = n
        /\ g \in Seq(Seq(PluginMeta)) /\ Len(g) = n + 1
        /\ (\A i \in 1 .. n : g[i] = f[i]) /\ g[n + 1] = into(image)
    BY <1>1, <1>2, <1>3
  <2> HIDE DEF f, g
  <2>2. FlattenSeq(g) = FlattenSeq(f) \o g[n + 1]
    BY <1>1, <2>1, FlattenMore
  <2>3. FlattenSeq(g) = FlattenSeq(f) \o into(image)
    BY <2>1, <2>2, Zenon
  <2> QED
    BY <2>3 DEF f, g
<1>6. FlattenSeq([i \in DOMAIN order |-> alone(order[i])]) \in Seq(PluginMeta)
  <2>1. [i \in DOMAIN order |-> alone(order[i])] \in Seq(Seq(PluginMeta))
    BY <1>1, <1>2
  <2> QED
    BY <2>1, FlattenType
<1>7. /\ UnmodifiedOf(list, more) = Others(list) \o FlattenSeq([i \in DOMAIN more |-> alone(more[i])])
      /\ UnmodifiedOf(list, order) = Others(list) \o FlattenSeq([i \in DOMAIN order |-> alone(order[i])])
  BY Zenon DEF UnmodifiedOf, Others, Of, alone
<1>8. /\ MergedOf(list, more) = FlattenSeq([i \in DOMAIN more |-> into(more[i])])
      /\ MergedOf(list, order) = FlattenSeq([i \in DOMAIN order |-> into(order[i])])
  BY Zenon DEF MergedOf, Of, into
<1>9. UnmodifiedOf(list, more) = UnmodifiedOf(list, order) \o alone(image)
  <2> DEFINE o == Others(list)
             f == FlattenSeq([i \in DOMAIN order |-> alone(order[i])])
             joined == UnmodifiedOf(list, order)
             added == alone(image)
  <2>1. o \in Seq(PluginMeta) /\ f \in Seq(PluginMeta) /\ added \in Seq(PluginMeta)
    BY <1>2, <1>6, OthersKeeps
  <2>2. joined = o \o f
    BY <1>7, Zenon
  <2> HIDE DEF o, f, joined, added
  <2>3. o \o (f \o added) = joined \o added
    <3>1. o \o (f \o added) = (o \o f) \o added
      BY <2>1, JoinedLast, Zenon
    <3> QED
      BY <2>2, <3>1, Zenon
  <2> QED
    BY <1>4, <1>7, <2>3, Zenon DEF o, f, joined, added
<1>10. MergedOf(list, more) = MergedOf(list, order) \o into(image)
  BY <1>5, <1>8, Zenon
<1> QED
  BY <1>9, <1>10, Zenon DEF more, alone, into

-----------------------------------------------------------------------------
(* The loops *)

LEMMA OrderOfNone ==
  /\ <<>> \in SetToSeqs({})
  /\ \A order \in SetToSeqs({}) : order = <<>>
<1>1. Cardinality({}) = 0 /\ 1 .. 0 = {}
  BY FS_EmptySet
<1>2. SetToSeqs({}) = {f \in [{} -> {}] : TRUE}
  BY <1>1 DEF SetToSeqs
<1>3. \A f \in [{} -> {}] : f = <<>>
  OBVIOUS
<1>4. <<>> \in [{} -> {}]
  OBVIOUS
<1> QED
  BY <1>2, <1>3, <1>4

LEMMA OrderOfOneMore ==
  ASSUME NEW S, IsFiniteSet(S), NEW e, e \notin S, NEW order \in SetToSeqs(S)
  PROVE  order \in Seq(S) /\ Append(order, e) \in SetToSeqs(S \union {e})
<1> DEFINE n == Cardinality(S)
           T == S \union {e}
           more == Append(order, e)
<1>1. n \in Nat /\ Cardinality(T) = n + 1
  BY FS_CardinalityType, FS_AddElement
<1>2. order \in [1 .. n -> S] /\ \A i, j \in 1 .. n : i # j => order[i] # order[j]
  BY DEF SetToSeqs
<1>3. order \in Seq(S) /\ order \in Seq(T) /\ Len(order) = n
  BY <1>1, <1>2
<1> HIDE DEF n
<1>4. /\ more \in Seq(T) /\ Len(more) = n + 1 /\ more[n + 1] = e
      /\ \A i \in 1 .. n : more[i] = order[i]
  BY <1>3, AppendProperties
<1> HIDE DEF more, T
<1>5. more \in [1 .. n + 1 -> T]
  BY <1>4, LenProperties
<1>6. ASSUME NEW i \in 1 .. n + 1, NEW j \in 1 .. n + 1, i # j PROVE more[i] # more[j]
  <2>1. (i = n + 1 \/ i \in 1 .. n) /\ (j = n + 1 \/ j \in 1 .. n)
    BY <1>1
  <2>2. \A k \in 1 .. n : more[k] \in S
    BY <1>2, <1>4
  <2>3. CASE i \in 1 .. n /\ j \in 1 .. n
    BY <1>2, <1>4, <1>6, <2>3
  <2>4. CASE i \in 1 .. n /\ j = n + 1
    BY <1>4, <2>2, <2>4
  <2>5. CASE i = n + 1 /\ j \in 1 .. n
    BY <1>4, <2>2, <2>5
  <2> QED
    BY <1>6, <2>1, <2>3, <2>4, <2>5
<1>7. more \in SetToSeqs(T)
  BY <1>1, <1>5, <1>6 DEF SetToSeqs
<1> QED
  BY <1>3, <1>7 DEF more, T

LEMMA GroupedFinite ==
  ASSUME NEW list \in Seq(PluginMeta)
  PROVE  IsFiniteSet({image \in Image : GroupOf(image, list) # <<>>})
<1> DEFINE images == {Sidecar(list[i]).Image : i \in DOMAIN list}
<1>1. IsFiniteSet(DOMAIN list)
  <2>1. DOMAIN list = 1 .. Len(list) /\ Len(list) \in Int
    OBVIOUS
  <2> QED
    BY <2>1, FS_Interval
<1>2. IsFiniteSet(images)
  <2> DEFINE imageOf == [i \in DOMAIN list |-> Sidecar(list[i]).Image]
  <2>1. imageOf \in Surjection(DOMAIN list, images)
    BY DEF Surjection
  <2> HIDE DEF imageOf, images
  <2> QED
    BY <1>1, <2>1, FS_Surjection
<1>3. ASSUME NEW image \in Image, GroupOf(image, list) # <<>> PROVE image \in images
  <2> DEFINE group == GroupOf(image, list)
  <2>1. group \in Seq(PluginMeta) /\ group # <<>>
    BY <1>3, GroupOfKeeps
  <2>2. 1 \in DOMAIN group
    BY <2>1
  <2>3. Has(group, group[1])
    BY <2>2 DEF Has
  <2>4. Has(list, group[1]) /\ Sidecar(group[1]).Image = image
    BY <2>3, GroupOfKeeps
  <2> QED
    BY <2>4 DEF Has
<1> HIDE DEF images
<1>4. {image \in Image : GroupOf(image, list) # <<>>} \subseteq images
  BY <1>3
<1> QED
  BY <1>2, <1>4, FS_Subset

LEMMA BeginsMergeInv ==
  ASSUME NEW list \in Seq(PluginMeta), BeginsWith(list)
  PROVE  MergeInv
<1>1. MergeTypeOK
  BY DEF BeginsWith, MergeTypeOK
<1>2. SubSeq(plugins, 1, sorted) = <<>>
  BY WholePrefix DEF BeginsWith
<1>3. Grouped = {}
  BY DEF BeginsWith, Grouped
<1>4. GroupsSorted
  <2>1. \A image \in Image : toMerge[image] = GroupOf(image, SubSeq(plugins, 1, sorted))
    BY <1>2, GroupOfNone DEF BeginsWith
  <2> QED
    BY <1>3, <2>1 DEF BeginsWith, GroupsSorted
<1>5. GroupsMerged
  BY <1>3 DEF BeginsWith, GroupsMerged
<1>6. SomeOrder
  <2>1. <<>> \in SetToSeqs(Grouped \ pending)
    <3>1. Grouped \ pending = {}
      BY <1>3
    <3> QED
      BY <3>1, OrderOfNone, Zenon
  <2>2. <<>> \in Seq(PluginMeta)
    OBVIOUS
  <2>3. UnmodifiedOf(<<>>, <<>>) = <<>> /\ MergedOf(<<>>, <<>>) = <<>>
    BY <2>2, OrderNone, OthersAppend, Zenon
  <2> QED
    BY <1>2, <2>1, <2>3, Zenon DEF SomeOrder, BeginsWith
<1>7. Accounted
  <2> SUFFICES ASSUME NEW i \in DOMAIN plugins
               PROVE  Count(plugins[i], unmodified) + InGroups(plugins[i])
                        = Count(plugins[i], SubSeq(plugins, 1, sorted))
    BY DEF Accounted
  <2>1. <<>> \in Seq(PluginMeta) /\ ~Has(<<>>, plugins[i])
    BY DEF Has
  <2>2. Count(plugins[i], <<>>) = 0
    BY <2>1, CountNone
  <2>3. InGroups(plugins[i]) = 0
    BY DEF InGroups, BeginsWith, WasMerged
  <2>4. Count(plugins[i], SubSeq(plugins, 1, sorted)) = 0 /\ Count(plugins[i], unmodified) = 0
    BY <1>2, <2>2, Zenon DEF BeginsWith
  <2> QED
    BY <2>3, <2>4
<1> QED
  BY <1>1, <1>4, <1>5, <1>6, <1>7 DEF MergeInv

(* The first loop preserves the invariant.                                 *)
LEMMA SortKeepsMergeInv ==
  ASSUME MergeInv, SortPlugin
  PROVE  MergeInv'
<1> DEFINE plugin == plugins[sorted + 1]
           prefix == SubSeq(plugins, 1, sorted)
           next == SubSeq(plugins, 1, sorted + 1)
           image == Sidecar(plugin).Image
<1>t. /\ plugins \in Seq(PluginMeta) /\ sorted \in Nat /\ sorted < Len(plugins)
      /\ toMerge \in [Image -> Seq(PluginMeta)] /\ pending \subseteq Image
      /\ unmodified \in Seq(PluginMeta) /\ merged \in Seq(PluginMeta)
      /\ plugins' = plugins /\ sorted' = sorted + 1 /\ merged' = merged
  BY DEF MergeInv, MergeTypeOK, SortPlugin
<1>1. /\ prefix \in Seq(PluginMeta) /\ plugin \in PluginMeta
      /\ next = Append(prefix, plugin) /\ next \in Seq(PluginMeta)
  BY <1>t, NextPrefix, AppendProperties
<1>2. SubSeq(plugins', 1, sorted') = next
  BY <1>t
<1>3. /\ \A im \in Image : toMerge[im] = GroupOf(im, prefix)
      /\ pending = Grouped /\ merged = <<>>
  BY <1>t DEF MergeInv, GroupsSorted
<1>4. pluginMergable(plugin) =>
        /\ image \in Image
        /\ toMerge' = [toMerge EXCEPT ![image] = Append(@, plugin)]
        /\ pending' = pending \union {image}
        /\ unmodified' = unmodified
  BY <1>1, SidecarType DEF SortPlugin, Container
<1>5. ~pluginMergable(plugin) =>
        /\ toMerge' = toMerge /\ pending' = pending
        /\ unmodified' = Append(unmodified, plugin)
  BY DEF SortPlugin
<1> HIDE DEF plugin, prefix, next, image
<1>6. MergeTypeOK'
  <2>1. sorted + 1 \in 0 .. Len(plugins)
    BY <1>t
  <2>2. CASE pluginMergable(plugin)
    <3>1. toMerge' \in [Image -> Seq(PluginMeta)]
      <4>1. Append(toMerge[image], plugin) \in Seq(PluginMeta)
        BY <1>t, <1>1, <1>4, <2>2, AppendProperties
      <4> QED
        BY <1>t, <1>4, <2>2, <4>1
    <3> QED
      BY <1>t, <1>4, <2>1, <2>2, <3>1 DEF MergeTypeOK
  <2>3. CASE ~pluginMergable(plugin)
    <3>1. Append(unmodified, plugin) \in Seq(PluginMeta)
      BY <1>t, <1>1, AppendProperties
    <3>2. unmodified' \in Seq(PluginMeta)
      BY <1>5, <2>3, <3>1
    <3> QED
      BY <1>t, <1>5, <2>1, <2>3, <3>2 DEF MergeTypeOK
  <2> QED
    BY <2>2, <2>3
<1>7. \A im \in Image : toMerge'[im] = GroupOf(im, next)
  <2> SUFFICES ASSUME NEW im \in Image PROVE toMerge'[im] = GroupOf(im, next)
    OBVIOUS
  <2>1. GroupOf(im, next) =
          IF pluginMergable(plugin) /\ image = im
          THEN Append(GroupOf(im, prefix), plugin) ELSE GroupOf(im, prefix)
    BY <1>1, GroupOfAppend DEF image
  <2>2. CASE pluginMergable(plugin) /\ image = im
    BY <1>t, <1>3, <1>4, <2>1, <2>2
  <2>3. CASE pluginMergable(plugin) /\ image # im
    BY <1>t, <1>3, <1>4, <2>1, <2>3
  <2>4. CASE ~pluginMergable(plugin)
    BY <1>t, <1>3, <1>5, <2>1, <2>4
  <2> QED
    BY <2>2, <2>3, <2>4
<1>8. pending' = Grouped' /\ merged' = <<>>
  <2>1. CASE pluginMergable(plugin)
    <3>1. toMerge'[image] = Append(toMerge[image], plugin)
          /\ \A im \in Image : im # image => toMerge'[im] = toMerge[im]
      BY <1>t, <1>4, <2>1
    <3>2. toMerge[image] \in Seq(PluginMeta)
      BY <1>t, <1>4, <2>1
    <3>3. toMerge'[image] # <<>>
      BY <1>1, <3>1, <3>2, AppendProperties
    <3>4. \A im \in Image : toMerge'[im] # <<>> <=> toMerge[im] # <<>> \/ im = image
      BY <3>1, <3>3
    <3> QED
      BY <1>t, <1>3, <1>4, <2>1, <3>4 DEF Grouped
  <2>2. CASE ~pluginMergable(plugin)
    BY <1>t, <1>3, <1>5, <2>2 DEF Grouped
  <2> QED
    BY <2>1, <2>2
<1>9. GroupsSorted'
  BY <1>2, <1>7, <1>8 DEF GroupsSorted
<1>10. GroupsMerged'
  BY <1>8 DEF GroupsMerged
<1>11. SomeOrder'
  <2>1. Grouped \ pending = {} /\ Grouped' \ pending' = {}
    BY <1>3, <1>8
  <2>2. PICK order \in SetToSeqs(Grouped \ pending) : unmodified = UnmodifiedOf(prefix, order)
    BY DEF MergeInv, SomeOrder, prefix
  <2>3. order = <<>>
    BY <2>1, <2>2, OrderOfNone
  <2>4. unmodified = Others(prefix)
    BY <1>1, <2>2, <2>3, OrderNone
  <2>5. Others(next) = IF ~pluginMergable(plugin) THEN Append(Others(prefix), plugin) ELSE Others(prefix)
    BY <1>1, OthersAppend
  <2>6. unmodified' = Others(next)
    <3>1. CASE pluginMergable(plugin)
      BY <1>4, <2>4, <2>5, <3>1
    <3>2. CASE ~pluginMergable(plugin)
      BY <1>5, <2>4, <2>5, <3>2
    <3> QED
      BY <3>1, <3>2
  <2>7. unmodified' = UnmodifiedOf(next, <<>>) /\ merged' = MergedOf(next, <<>>)
    BY <1>1, <1>8, <2>6, OrderNone
  <2>8. <<>> \in SetToSeqs(Grouped' \ pending')
    BY <2>1, OrderOfNone
  <2> QED
    BY <1>2, <2>7, <2>8, Zenon DEF SomeOrder
<1>12. Accounted'
  <2> SUFFICES ASSUME NEW i \in DOMAIN plugins
               PROVE  Count(plugins[i], unmodified') + InGroups(plugins[i])' = Count(plugins[i], next)
    BY <1>t, <1>2 DEF Accounted
  <2> DEFINE p == plugins[i]
             one == IF plugin = p THEN 1 ELSE 0
             waiting == IF pluginMergable(p) THEN Count(p, toMerge[Sidecar(p).Image]) ELSE 0
             waits == IF pluginMergable(p) THEN Count(p, toMerge'[Sidecar(p).Image]) ELSE 0
  <2>1. p \in PluginMeta
    BY <1>t
  <2>2. Count(p, unmodified) + InGroups(p) = Count(p, prefix)
    BY DEF MergeInv, Accounted, prefix
  <2>3. pluginMergable(p) => Sidecar(p).Image \in Image
    BY <2>1, SidecarType DEF Container
  <2> HIDE DEF p
  <2>4. Count(p, <<>>) = 0
    <3>1. <<>> \in Seq(PluginMeta) /\ ~Has(<<>>, p)
      BY DEF Has
    <3> QED
      BY <3>1, CountNone
  <2>5. InGroups(p) = waiting
    <3>1. pluginMergable(p) /\ Sidecar(p).Image \notin pending => toMerge[Sidecar(p).Image] = <<>>
      BY <1>3, <2>3 DEF Grouped
    <3>2. ~WasMerged(Sidecar(p).Image)
      BY <1>3 DEF WasMerged
    <3> QED
      BY <2>4, <3>1, <3>2 DEF InGroups
  <2>6. InGroups(p)' = waits
    <3>1. pluginMergable(p) /\ Sidecar(p).Image \notin pending' => toMerge'[Sidecar(p).Image] = <<>>
      BY <1>8, <2>3 DEF Grouped
    <3>2. ~WasMerged(Sidecar(p).Image)'
      BY <1>8 DEF WasMerged
    <3>3. p' = p
      BY <1>t DEF p
    <3> QED
      BY <2>4, <3>1, <3>2, <3>3 DEF InGroups
  <2>7. Count(p, next) = Count(p, prefix) + one /\ Count(p, prefix) \in Nat
    BY <1>1, CountAppend, CountNone
  <2>8. Count(p, unmodified) \in Nat /\ waiting \in Nat
    <3>1. pluginMergable(p) => toMerge[Sidecar(p).Image] \in Seq(PluginMeta)
      BY <1>t, <2>3
    <3> QED
      BY <1>t, <3>1, CountNone
  <2>9. CASE pluginMergable(plugin)
    <3>1. waits = waiting + one
      <4>1. CASE pluginMergable(p) /\ Sidecar(p).Image = image
        <5>1. toMerge[image] \in Seq(PluginMeta) /\ toMerge'[image] = Append(toMerge[image], plugin)
          BY <1>t, <1>4, <2>9
        <5>2. Count(p, toMerge'[image]) = Count(p, toMerge[image]) + one
          BY <1>1, <5>1, CountAppend
        <5> QED
          BY <4>1, <5>2
      <4>2. CASE pluginMergable(p) /\ Sidecar(p).Image # image
        <5>1. plugin # p /\ toMerge'[Sidecar(p).Image] = toMerge[Sidecar(p).Image]
          BY <1>t, <1>4, <2>3, <2>9, <4>2 DEF image
        <5> QED
          BY <2>8, <5>1
      <4>3. CASE ~pluginMergable(p)
        <5>1. plugin # p
          BY <2>9, <4>3
        <5> QED
          BY <4>3, <5>1
      <4> QED
        BY <4>1, <4>2, <4>3
    <3>2. unmodified' = unmodified
      BY <1>4, <2>9
    <3> HIDE DEF waits, waiting, one
    <3>3. Count(p, unmodified') = Count(p, unmodified) /\ one \in Nat
      BY <3>2 DEF one
    <3> QED
      BY <2>2, <2>5, <2>6, <2>7, <2>8, <3>1, <3>3 DEF p
  <2>10. CASE ~pluginMergable(plugin)
    <3>1. waits = waiting
      BY <1>5, <2>10
    <3>2. Count(p, unmodified') = Count(p, unmodified) + one
      <4>1. Count(p, Append(unmodified, plugin)) = Count(p, unmodified) + one
        BY <1>t, <1>1, CountAppend
      <4> QED
        BY <1>5, <2>10, <4>1, Zenon
    <3> HIDE DEF waits, waiting
    <3> QED
      BY <2>2, <2>5, <2>6, <2>7, <2>8, <3>1, <3>2 DEF p
  <2> QED
    BY <2>9, <2>10
<1> QED
  BY <1>6, <1>9, <1>10, <1>11, <1>12 DEF MergeInv

(* What the invariant says of the group of an image.                       *)
LEMMA GroupOfImage ==
  ASSUME MergeInv, NEW image \in Grouped
  PROVE  /\ Mergable(toMerge[image]) /\ toMerge[image] # <<>>
         /\ \A k \in DOMAIN toMerge[image] : Sidecar(toMerge[image][k]).Image = image
         /\ Merges(image, toMerge[image]) =>
              GoodMerge(image, toMerge[image], mergePluginsForImage(image, toMerge[image]))
<1>1. image \in Image /\ toMerge[image] # <<>>
  BY DEF Grouped
<1>2. SubSeq(plugins, 1, sorted) \in Seq(PluginMeta)
  <2>1. plugins \in Seq(PluginMeta) /\ sorted \in 0 .. Len(plugins)
    BY DEF MergeInv, MergeTypeOK
  <2> QED
    BY <2>1
<1>3. toMerge[image] = GroupOf(image, SubSeq(plugins, 1, sorted))
  BY <1>1 DEF MergeInv, GroupsSorted
<1>4. /\ Mergable(toMerge[image])
      /\ \A k \in DOMAIN toMerge[image] : Sidecar(toMerge[image][k]).Image = image
  BY <1>2, <1>3, GroupMergable
<1>5. Merges(image, toMerge[image]) => NoConflict(toMerge[image])
  BY MergeResults DEF Merges
<1> QED
  BY <1>1, <1>4, <1>5, MergeGood

(* A merged plugin is that of an image the second loop has been to.        *)
LEMMA MergedFrom ==
  ASSUME MergeInv, NEW i \in DOMAIN merged
  PROVE  \E image \in Grouped \ pending :
           /\ merged[i] = mergePluginsForImage(image, toMerge[image])
           /\ Sidecar(merged[i]).Image = image
           /\ GoodMerge(image, toMerge[image], merged[i])
<1>1. PICK image \in Grouped \ pending :
        /\ Merges(image, toMerge[image])
        /\ merged[i] = mergePluginsForImage(image, toMerge[image])
  BY DEF MergeInv, GroupsMerged
<1>2. GoodMerge(image, toMerge[image], merged[i])
  BY <1>1, GroupOfImage
<1> QED
  BY <1>1, <1>2 DEF GoodMerge

(* The second loop preserves it.                                           *)
LEMMA MergeKeepsMergeInv ==
  ASSUME MergeInv, NEW image \in Image, MergeImage(image)
  PROVE  MergeInv'
<1> DEFINE group == toMerge[image]
           result == mergePluginsForImage(image, group)
<1>t. /\ plugins \in Seq(PluginMeta) /\ sorted \in Nat /\ sorted = Len(plugins)
      /\ toMerge \in [Image -> Seq(PluginMeta)] /\ pending \subseteq Image
      /\ unmodified \in Seq(PluginMeta) /\ merged \in Seq(PluginMeta)
      /\ plugins' = plugins /\ sorted' = sorted /\ toMerge' = toMerge
      /\ image \in pending /\ pending' = pending \ {image}
  BY DEF MergeInv, MergeTypeOK, MergeImage
<1>1. SubSeq(plugins, 1, sorted) = plugins /\ SubSeq(plugins', 1, sorted') = plugins
  BY <1>t, WholePrefix
<1>2. /\ \A im \in Image : toMerge[im] = GroupOf(im, plugins)
      /\ pending \subseteq Grouped /\ Grouped' = Grouped
  BY <1>t, <1>1 DEF MergeInv, GroupsSorted, Grouped
<1>3. /\ Mergable(group) /\ group \in Seq(PluginMeta) /\ group # <<>>
      /\ \A k \in DOMAIN group : Sidecar(group[k]).Image = image
      /\ Merges(image, group) => GoodMerge(image, group, result)
  BY <1>t, <1>2, GroupOfImage DEF Mergable
<1>4. Merges(image, group) <=> ~(Len(group) < 2 \/ result = Conflict)
  <2>1. Len(group) \in Nat
    BY <1>3
  <2> HIDE DEF group
  <2> QED
    BY <2>1 DEF Merges
<1>5. /\ Merges(image, group) => merged' = Append(merged, result) /\ unmodified' = unmodified
      /\ ~Merges(image, group) => unmodified' = unmodified \o group /\ merged' = merged
  BY <1>4 DEF MergeImage
<1>6. ~WasMerged(image)
  <2> SUFFICES ASSUME NEW i \in DOMAIN merged, Sidecar(merged[i]).Image = image PROVE FALSE
    BY DEF WasMerged
  <2>1. Sidecar(merged[i]).Image \in Grouped \ pending
    BY MergedFrom
  <2> QED
    BY <1>t, <2>1
<1> HIDE DEF group, result
<1>7. Merges(image, group) => result \in PluginMeta /\ Sidecar(result).Image = image
  BY <1>3 DEF GoodMerge
<1>8. Merges(image, group) =>
        /\ merged' \in Seq(PluginMeta) /\ DOMAIN merged' = 1 .. Len(merged) + 1
        /\ merged'[Len(merged) + 1] = result /\ Len(merged) \in Nat
        /\ DOMAIN merged = 1 .. Len(merged)
        /\ \A i \in 1 .. Len(merged) : merged'[i] = merged[i]
  <2>1. ASSUME result \in PluginMeta
        PROVE  /\ Append(merged, result) \in Seq(PluginMeta)
               /\ DOMAIN Append(merged, result) = 1 .. Len(merged) + 1
               /\ Append(merged, result)[Len(merged) + 1] = result
               /\ Len(merged) \in Nat /\ DOMAIN merged = 1 .. Len(merged)
               /\ \A i \in 1 .. Len(merged) : Append(merged, result)[i] = merged[i]
    BY <1>t, <2>1, AppendProperties
  <2> QED
    BY <1>5, <1>7, <2>1
<1>9. MergeTypeOK'
  <2>1. unmodified' \in Seq(PluginMeta) /\ merged' \in Seq(PluginMeta)
    <3>1. unmodified \o group \in Seq(PluginMeta)
      BY <1>t, <1>3, ConcatProperties
    <3>2. CASE Merges(image, group)
      BY <1>t, <1>5, <1>8, <3>2
    <3>3. CASE ~Merges(image, group)
      BY <1>t, <1>5, <3>1, <3>3
    <3> QED
      BY <3>2, <3>3
  <2>2. sorted \in 0 .. Len(plugins)
    BY <1>t
  <2> QED
    BY <1>t, <2>1, <2>2 DEF MergeTypeOK
<1>10. GroupsSorted'
  <2>1. ~(sorted' < Len(plugins'))
    BY <1>t
  <2>2. pending' \subseteq Grouped'
    BY <1>t, <1>2
  <2> QED
    BY <1>t, <1>1, <1>2, <2>1, <2>2 DEF GroupsSorted
<1>11. \A im : WasMerged(im)' <=> WasMerged(im) \/ (im = image /\ Merges(image, group))
  <2>1. CASE Merges(image, group)
    <3>1. ASSUME NEW im, NEW i \in DOMAIN merged', Sidecar(merged'[i]).Image = im
          PROVE  WasMerged(im) \/ im = image
      <4>1. i = Len(merged) + 1 \/ i \in 1 .. Len(merged)
        BY <1>8, <2>1, <3>1
      <4> QED
        BY <1>7, <1>8, <2>1, <3>1, <4>1 DEF WasMerged
    <3>2. ASSUME NEW im, NEW i \in DOMAIN merged, Sidecar(merged[i]).Image = im
          PROVE  WasMerged(im)'
      <4>1. i \in DOMAIN merged' /\ merged'[i] = merged[i]
        BY <1>8, <2>1, <3>2
      <4> QED
        BY <3>2, <4>1 DEF WasMerged
    <3>3. WasMerged(image)'
      <4>1. Len(merged) + 1 \in DOMAIN merged'
        BY <1>8, <2>1
      <4> QED
        BY <1>7, <1>8, <2>1, <4>1 DEF WasMerged
    <3> QED
      BY <2>1, <3>1, <3>2, <3>3 DEF WasMerged
  <2>2. CASE ~Merges(image, group)
    BY <1>5, <2>2 DEF WasMerged
  <2> QED
    BY <2>1, <2>2
<1>12. GroupsMerged'
  <2>1. ASSUME NEW i \in DOMAIN merged'
        PROVE  \E im \in Grouped \ pending' :
                 /\ Merges(im, toMerge[im])
                 /\ merged'[i] = mergePluginsForImage(im, toMerge[im])
    <3>1. CASE i \in DOMAIN merged /\ merged'[i] = merged[i]
      BY <1>t, <3>1 DEF MergeInv, GroupsMerged
    <3>2. CASE Merges(image, group) /\ i = Len(merged) + 1
      <4>1. merged'[i] = result /\ image \in Grouped \ pending'
        BY <1>t, <1>2, <1>8, <3>2
      <4> QED
        BY <3>2, <4>1 DEF group, result
    <3>3. CASE ~Merges(image, group)
      BY <1>5, <2>1, <3>1, <3>3
    <3>4. Merges(image, group) => i = Len(merged) + 1 \/ (i \in DOMAIN merged /\ merged'[i] = merged[i])
      BY <1>8, <2>1
    <3> QED
      BY <3>1, <3>2, <3>3, <3>4
  <2>2. ASSUME NEW im \in Grouped \ pending', Merges(im, toMerge[im])
        PROVE  WasMerged(im)'
    <3>1. CASE im = image
      BY <1>11, <2>2, <3>1 DEF group
    <3>2. CASE im # image
      <4>1. im \in Grouped \ pending
        BY <1>t, <3>2
      <4> QED
        BY <1>11, <2>2, <4>1 DEF MergeInv, GroupsMerged
    <3> QED
      BY <3>1, <3>2
  <2>3. ASSUME NEW i \in DOMAIN merged', NEW j \in DOMAIN merged',
               Sidecar(merged'[i]).Image = Sidecar(merged'[j]).Image
        PROVE  i = j
    <3>1. CASE i \in DOMAIN merged /\ merged'[i] = merged[i] /\ j \in DOMAIN merged /\ merged'[j] = merged[j]
      BY <2>3, <3>1 DEF MergeInv, GroupsMerged
    <3>2. CASE ~Merges(image, group)
      BY <1>5, <2>3, <3>1, <3>2
    <3>3. CASE Merges(image, group)
      <4>1. \A k \in DOMAIN merged : merged'[k] = merged[k] /\ Sidecar(merged'[k]).Image # image
        BY <1>6, <1>8, <3>3 DEF WasMerged
      <4>2. Sidecar(merged'[Len(merged) + 1]).Image = image
        BY <1>7, <1>8, <3>3
      <4>3. \A k \in DOMAIN merged' : k \in DOMAIN merged \/ k = Len(merged) + 1
        BY <1>8, <3>3
      <4> QED
        BY <2>3, <3>1, <4>1, <4>2, <4>3
    <3> QED
      BY <3>2, <3>3
  <2> QED
    BY <1>t, <1>2, <2>1, <2>2, <2>3 DEF GroupsMerged
<1>13. SomeOrder'
  <2>1. PICK order \in SetToSeqs(Grouped \ pending) :
          unmodified = UnmodifiedOf(plugins, order) /\ merged = MergedOf(plugins, order)
    BY <1>1 DEF MergeInv, SomeOrder
  <2>2. IsFiniteSet(Grouped \ pending)
    <3>1. Grouped = {im \in Image : GroupOf(im, plugins) # <<>>}
      BY <1>2 DEF Grouped
    <3>2. IsFiniteSet(Grouped) /\ Grouped \ pending \subseteq Grouped
      BY <1>t, <3>1, GroupedFinite
    <3> QED
      BY <3>2, FS_Subset
  <2>3. image \notin Grouped \ pending /\ (Grouped \ pending) \union {image} = Grouped \ pending'
    BY <1>t, <1>2
  <2>4. order \in Seq(Grouped \ pending) /\ Append(order, image) \in SetToSeqs(Grouped \ pending')
    BY <2>1, <2>2, <2>3, OrderOfOneMore
  <2>5. order \in Seq(Image)
    <3>1. Grouped \ pending \subseteq Image
      BY DEF Grouped
    <3> QED
      BY <2>4, <3>1, SeqMonotonic
  <2>6. /\ UnmodifiedOf(plugins, Append(order, image)) = unmodified \o LeftAlone(image, group)
        /\ MergedOf(plugins, Append(order, image)) = merged \o MergedInto(image, group)
    <3>1. group = GroupOf(image, plugins)
      BY <1>2 DEF group
    <3> QED
      BY <1>t, <2>1, <2>5, <3>1, OrderNext, Zenon
  <2>7. CASE Merges(image, group)
    <3>1. LeftAlone(image, group) = <<>> /\ MergedInto(image, group) = <<result>>
      BY <2>7, Zenon DEF LeftAlone, MergedInto, result
    <3>2. unmodified \o <<>> = unmodified /\ merged \o <<result>> = Append(merged, result)
      BY <1>t, <1>7, <2>7, AppendIsConcat, ConcatEmptySeq
    <3>3. unmodified' = UnmodifiedOf(plugins, Append(order, image))
          /\ merged' = MergedOf(plugins, Append(order, image))
      BY <1>5, <2>6, <2>7, <3>1, <3>2, Zenon
    <3> QED
      BY <1>1, <1>2, <2>4, <3>3, Zenon DEF SomeOrder
  <2>8. CASE ~Merges(image, group)
    <3>1. LeftAlone(image, group) = group /\ MergedInto(image, group) = <<>>
      BY <2>8, Zenon DEF LeftAlone, MergedInto
    <3>2. merged \o <<>> = merged
      BY <1>t, ConcatEmptySeq
    <3>3. unmodified' = UnmodifiedOf(plugins, Append(order, image))
          /\ merged' = MergedOf(plugins, Append(order, image))
      BY <1>5, <2>6, <2>8, <3>1, <3>2, Zenon
    <3> QED
      BY <1>1, <1>2, <2>4, <3>3, Zenon DEF SomeOrder
  <2> QED
    BY <2>7, <2>8
<1>14. Accounted'
  <2> SUFFICES ASSUME NEW i \in DOMAIN plugins
               PROVE  Count(plugins[i], unmodified') + InGroups(plugins[i])' = Count(plugins[i], plugins)
    BY <1>t, <1>1 DEF Accounted
  <2> DEFINE p == plugins[i]
             im == Sidecar(p).Image
  <2>1. Count(p, unmodified) + InGroups(p) = Count(p, plugins) /\ p' = p
    BY <1>t, <1>1 DEF MergeInv, Accounted
  <2>2. p \in PluginMeta /\ (pluginMergable(p) => im \in Image)
    BY <1>t, SidecarType DEF Container
  <2>3. Count(p, unmodified) \in Nat /\ Count(p, group) \in Nat
        /\ Count(p, unmodified \o group) = Count(p, unmodified) + Count(p, group)
    BY <1>t, <1>3, CountNone, CountConcat
  <2> HIDE DEF p
  <2>4. CASE pluginMergable(p) /\ im = image
    <3>1. InGroups(p) = Count(p, group)
      BY <1>t, <2>4 DEF InGroups, group
    <3>2. CASE Merges(image, group)
      <4>1. WasMerged(image)'
        BY <1>11, <3>2
      <4>2. InGroups(p)' = Count(p, group)
        BY <1>t, <2>1, <2>4, <4>1 DEF InGroups, group
      <4> QED
        BY <1>5, <2>1, <3>1, <3>2, <4>2 DEF p
    <3>3. CASE ~Merges(image, group)
      <4>1. ~WasMerged(image)' /\ image \notin pending'
        BY <1>t, <1>6, <1>11, <3>3
      <4>2. InGroups(p)' = 0
        BY <1>t, <2>1, <2>4, <4>1 DEF InGroups
      <4>3. Count(p, unmodified') = Count(p, unmodified) + Count(p, group)
        BY <1>5, <2>3, <3>3
      <4> QED
        BY <2>1, <2>3, <3>1, <4>2, <4>3 DEF p
    <3> QED
      BY <3>2, <3>3
  <2>5. CASE ~(pluginMergable(p) /\ im = image)
    <3>1. ~Has(group, p)
      BY <1>3, <2>5 DEF Has, Mergable
    <3>2. Count(p, group) = 0
      BY <1>3, <3>1, CountNone
    <3>3. Count(p, unmodified') = Count(p, unmodified)
      <4>1. Count(p, unmodified \o group) = Count(p, unmodified)
        BY <2>3, <3>2
      <4> QED
        BY <1>5, <4>1, Zenon
    <3>4. InGroups(p)' = InGroups(p)
      <4>1. CASE ~pluginMergable(p)
        BY <2>1, <4>1 DEF InGroups
      <4>2. CASE pluginMergable(p)
        <5>1. PICK c : c = im
          OBVIOUS
        <5>2. c # image
          BY <2>5, <4>2, <5>1
        <5>3. (WasMerged(c)' <=> WasMerged(c)) /\ (c \in pending' <=> c \in pending)
          BY <1>t, <1>11, <5>2
        <5>4. InGroups(p) =
                IF c \in pending \/ WasMerged(c) THEN Count(p, toMerge[c]) ELSE 0
          BY <4>2, <5>1 DEF InGroups
        <5>5. InGroups(p)' =
                IF c \in pending' \/ WasMerged(c)' THEN Count(p, toMerge[c]) ELSE 0
          BY <1>t, <2>1, <4>2, <5>1 DEF InGroups
        <5> QED
          BY <5>3, <5>4, <5>5
      <4> QED
        BY <4>1, <4>2
    <3> QED
      BY <2>1, <3>3, <3>4 DEF p
  <2> QED
    BY <2>4, <2>5
<1> QED
  BY <1>9, <1>10, <1>12, <1>13, <1>14 DEF MergeInv

LEMMA RestKeepsMergeInv ==
  ASSUME MergeInv, UNCHANGED mergeVars
  PROVE  MergeInv'
<1>1. MergeTypeOK' /\ GroupsSorted' /\ GroupsMerged'
  BY DEF MergeInv, mergeVars, MergeTypeOK, GroupsSorted, GroupsMerged, Grouped, WasMerged
<1>2. SomeOrder'
  BY DEF MergeInv, mergeVars, SomeOrder, Grouped
<1>3. Accounted'
  BY DEF MergeInv, mergeVars, Accounted, InGroups, WasMerged
<1> QED
  BY <1>1, <1>2, <1>3 DEF MergeInv

LEMMA MergeStepKeepsMergeInv ==
  ASSUME MergeInv, MergeStep
  PROVE  MergeInv'
<1>1. CASE SortPlugin
  BY <1>1, SortKeepsMergeInv
<1>2. ASSUME NEW image \in Image, MergeImage(image) PROVE MergeInv'
  BY <1>2, MergeKeepsMergeInv
<1> QED
  BY <1>1, <1>2 DEF MergeStep

-----------------------------------------------------------------------------
(* What the invariant means *)

LEMMA InvProvides ==
  ASSUME MergeInv
  PROVE  MergedProvides
<1> SUFFICES ASSUME NEW i \in DOMAIN merged
             PROVE  GoodMerge(Sidecar(merged[i]).Image, toMerge[Sidecar(merged[i]).Image], merged[i])
  BY Zenon DEF MergedProvides, GoodMerge
<1> QED
  BY MergedFrom

LEMMA InvCompatible ==
  ASSUME MergeInv
  PROVE  CompatibleMerged
<1> SUFFICES ASSUME MergeDone, NEW image \in Image,
                    Len(toMerge[image]) > 1, Compatible(toMerge[image])
             PROVE  WasMerged(image)
  BY DEF CompatibleMerged
<1>1. toMerge[image] # <<>>
  OBVIOUS
<1>2. image \in Grouped \ pending
  BY <1>1 DEF Grouped, MergeDone
<1>3. Mergable(toMerge[image])
  BY <1>2, GroupOfImage
<1>4. mergePluginsForImage(image, toMerge[image]) # Conflict
  BY <1>1, <1>3, CompatibleMerge
<1> QED
  BY <1>2, <1>4 DEF Merges, MergeInv, GroupsMerged

LEMMA InvListed ==
  ASSUME MergeInv
  PROVE  MergedAsListed
<1> SUFFICES ASSUME MergeDone PROVE MergeResult \in MergedLists(plugins)
  BY DEF MergedAsListed
<1>1. SubSeq(plugins, 1, sorted) = plugins
  BY WholePrefix DEF MergeInv, MergeTypeOK, MergeDone
<1>2. PICK order \in SetToSeqs(Grouped \ pending) :
        unmodified = UnmodifiedOf(plugins, order) /\ merged = MergedOf(plugins, order)
  BY <1>1 DEF MergeInv, SomeOrder
<1>3. Grouped \ pending = {image \in Image : GroupOf(image, plugins) # <<>>}
  <2>1. \A image \in Image : toMerge[image] = GroupOf(image, plugins)
    BY <1>1 DEF MergeInv, GroupsSorted
  <2>2. pending = {}
    BY DEF MergeDone
  <2> QED
    BY <2>1, <2>2 DEF Grouped
<1>4. MergeResult = UnmodifiedOf(plugins, order) \o MergedOf(plugins, order)
  BY <1>2 DEF MergeResult
<1> QED
  BY <1>2, <1>3, <1>4, Zenon DEF MergedLists

-----------------------------------------------------------------------------
(* The theorems *)

(* The inductive invariant: at every moment of a call the two loops have   *)
(* made of the plugins sorted so far what some order of the images visited *)
(* so far makes of them.                                                   *)
THEOREM MergeInvariant == Spec => []MergeInv
<1>1. Init => MergeInv
  <2> SUFFICES ASSUME NEW list \in PluginList, BeginsWith(list) PROVE MergeInv
    BY DEF Init
  <2>1. list \in Seq(PluginMeta)
    BY MergeAssumption
  <2> QED
    BY <2>1, BeginsMergeInv
<1>2. MergeInv /\ [Next]_mergeVars => MergeInv'
  BY MergeStepKeepsMergeInv, RestKeepsMergeInv DEF Next
<1> QED
  BY <1>1, <1>2, PTL DEF Spec

(* The loops keep the types: what is merged is a plugin again, whatever    *)
(* the plugins of its group.                                               *)
THEOREM MergeKeepsTypes == Spec => []MergeTypeOK
<1>1. MergeInv => MergeTypeOK
  BY DEF MergeInv
<1> QED
  BY <1>1, MergeInvariant, PTL

(* No plugin is lost, and none is both merged and left as it is.           *)
THEOREM NothingIsLost == Spec => []Accounted
<1>1. MergeInv => Accounted
  BY DEF MergeInv
<1> QED
  BY <1>1, MergeInvariant, PTL

(* A merged plugin gives every plugin of its group what it asks for, the   *)
(* CPU and the memory of all of them, and does not contradict itself.      *)
THEOREM MergedPluginsProvide == Spec => []MergedProvides
<1>1. MergeInv => MergedProvides
  BY InvProvides
<1> QED
  BY <1>1, MergeInvariant, PTL

(* Plugins of one image that do not contradict each other are merged, in   *)
(* whatever order they were asked for.                                     *)
THEOREM CompatiblePluginsMerge == Spec => []CompatibleMerged
<1>1. MergeInv => CompatibleMerged
  BY InvCompatible
<1> QED
  BY <1>1, MergeInvariant, PTL

(* The call returns one of the lists that an order of the images gives, so *)
(* two processes that merge the same plugins differ in the order only.     *)
THEOREM MergedListsOnly == Spec => []MergedAsListed
<1>1. MergeInv => MergedAsListed
  BY InvListed
<1> QED
  BY <1>1, MergeInvariant, PTL
=============================================================================
