------------------------------ MODULE ListLemmas ------------------------------
(***************************************************************************)
(* Lemmas about numbers, sets and sequences that the proofs about merging  *)
(* and about the metadata broker rest on.  The induction principles are    *)
(* stated with sets: a property is proved of every element by taking the   *)
(* set of those that have it.                                              *)
(***************************************************************************)
EXTENDS SequencesExt, FiniteSetTheorems, SequenceTheorems, WellFoundedInduction, TLAPS

LEMMA NatSetInduction ==
  ASSUME NEW S, 0 \in S, \A n \in Nat : n \in S => n + 1 \in S
  PROVE  Nat \subseteq S
<1> DEFINE T == Nat \ S
<1>1. SUFFICES ASSUME T # {} PROVE FALSE
  OBVIOUS
<1>2. PICK m \in T : \A k \in T : <<k, m>> \notin OpToRel(<, Nat)
  BY <1>1, WFMin, NatLessThanWellFounded, Zenon
<1>3. \A k \in T : ~(k < m)
  BY <1>2, Zenon DEF OpToRel
<1>4. m # 0 /\ m \in Nat
  BY <1>2
<1>5. m - 1 \in Nat /\ m - 1 < m /\ (m - 1) + 1 = m
  BY <1>4
<1>6. m - 1 \in S
  BY <1>3, <1>5
<1> QED
  BY <1>2, <1>5, <1>6

LEMMA SeqSetInduction ==
  ASSUME NEW S, NEW T, <<>> \in T,
         \A list \in Seq(S) : \A e \in S : list \in T => Append(list, e) \in T
  PROVE  Seq(S) \subseteq T
<1> DEFINE N == {n \in Nat : \A list \in Seq(S) : Len(list) = n => list \in T}
<1>1. 0 \in N
  <2>1. \A list \in Seq(S) : Len(list) = 0 => list = <<>>
    OBVIOUS
  <2> QED
    BY <2>1
<1>2. ASSUME NEW n \in Nat, n \in N PROVE n + 1 \in N
  <2> SUFFICES ASSUME NEW list \in Seq(S), Len(list) = n + 1 PROVE list \in T
    OBVIOUS
  <2>1. PICK front \in Seq(S), e \in S : list = Append(front, e)
    <3>1. list # <<>>
      OBVIOUS
    <3> QED
      BY <3>1, SequenceEmptyOrAppend
  <2>2. Len(front) = n
    BY <2>1, AppendProperties
  <2> QED
    BY <1>2, <2>1, <2>2
<1> HIDE DEF N
<1>3. Nat \subseteq N
  BY <1>1, <1>2, NatSetInduction
<1> QED
  BY <1>3 DEF N

(* The first n + 1 elements are the first n and the next.                  *)
LEMMA NextPrefix ==
  ASSUME NEW S, NEW list \in Seq(S), NEW n \in Nat, n < Len(list)
  PROVE  /\ SubSeq(list, 1, n) \in Seq(S) /\ list[n + 1] \in S
         /\ SubSeq(list, 1, n + 1) = Append(SubSeq(list, 1, n), list[n + 1])
<1>1. list[n + 1] \in S
  OBVIOUS
<1>2. /\ SubSeq(list, 1, n) \in Seq(S) /\ Len(SubSeq(list, 1, n)) = n
      /\ \A i \in 1 .. n : SubSeq(list, 1, n)[i] = list[i]
  OBVIOUS
<1>3. /\ SubSeq(list, 1, n + 1) \in Seq(S) /\ Len(SubSeq(list, 1, n + 1)) = n + 1
      /\ \A i \in 1 .. n + 1 : SubSeq(list, 1, n + 1)[i] = list[i]
  OBVIOUS
<1> DEFINE front == SubSeq(list, 1, n)
           whole == SubSeq(list, 1, n + 1)
<1> HIDE DEF front, whole
<1>4. whole = Append(front, list[n + 1])
  <2>1. /\ Append(front, list[n + 1]) \in Seq(S) /\ Len(Append(front, list[n + 1])) = n + 1
        /\ \A i \in 1 .. n : Append(front, list[n + 1])[i] = front[i]
        /\ Append(front, list[n + 1])[n + 1] = list[n + 1]
    BY <1>1, <1>2, AppendProperties DEF front
  <2>2. \A i \in 1 .. n + 1 : whole[i] = Append(front, list[n + 1])[i]
    BY <1>2, <1>3, <2>1 DEF front, whole
  <2> QED
    BY <1>3, <2>1, <2>2, SeqEqual DEF whole
<1> QED
  BY <1>1, <1>2, <1>4 DEF front, whole

LEMMA WholePrefix ==
  ASSUME NEW S, NEW list \in Seq(S)
  PROVE  SubSeq(list, 1, Len(list)) = list /\ SubSeq(list, 1, 0) = <<>>
OBVIOUS

-----------------------------------------------------------------------------
(* FlattenSeq *)

Flattens(lists, n, flat) ==
  flat = [i \in 1 .. n |-> IF i = 1 THEN lists[i] ELSE flat[i - 1] \o lists[i]]

Flattening(lists, n) == CHOOSE flat : Flattens(lists, n, flat)

LEMMA FlattensFirst ==
  ASSUME NEW lists, NEW n \in Nat, n # 0, NEW flat, Flattens(lists, n, flat)
  PROVE  flat[1] = lists[1]
<1>1. 1 \in 1 .. n
  OBVIOUS
<1> QED
  BY <1>1, Zenon DEF Flattens

LEMMA FlattensNext ==
  ASSUME NEW lists, NEW n, NEW flat, Flattens(lists, n, flat), NEW i \in Nat, i # 0, i + 1 \in 1 .. n
  PROVE  flat[i + 1] = flat[i] \o lists[i + 1]
<1>1. i + 1 # 1 /\ i + 1 - 1 = i
  OBVIOUS
<1> DEFINE k == i + 1
<1>2. k \in 1 .. n /\ k # 1 /\ k - 1 = i
  BY <1>1
<1> HIDE DEF k
<1>3. flat[k] = IF k = 1 THEN lists[k] ELSE flat[k - 1] \o lists[k]
  BY <1>2, Zenon DEF Flattens
<1> QED
  BY <1>2, <1>3, Zenon DEF k

LEMMA FlatteningExists ==
  ASSUME NEW lists, NEW n \in Nat
  PROVE  Flattens(lists, n, Flattening(lists, n))
<1> DEFINE S == {k \in Nat : \E flat : Flattens(lists, k, flat)}
<1>1. 0 \in S
  <2> DEFINE flat == [i \in 1 .. 0 |-> <<>>]
             next == [i \in 1 .. 0 |-> IF i = 1 THEN lists[i] ELSE flat[i - 1] \o lists[i]]
  <2>1. 1 .. 0 = {}
    OBVIOUS
  <2>2. flat = next
    BY <2>1, Zenon
  <2> QED
    BY <2>2 DEF Flattens
<1>2. ASSUME NEW k \in Nat, NEW flat, Flattens(lists, k, flat)
      PROVE  \E more : Flattens(lists, k + 1, more)
  <2> DEFINE more == [i \in 1 .. k + 1 |->
                        IF i <= k THEN flat[i]
                        ELSE IF i = 1 THEN lists[i] ELSE flat[i - 1] \o lists[i]]
  <2>1. ASSUME NEW i \in 1 .. k + 1
        PROVE  more[i] = IF i = 1 THEN lists[i] ELSE more[i - 1] \o lists[i]
    <3>1. CASE i = 1
      BY <1>2, <3>1 DEF Flattens
    <3>2. CASE i # 1 /\ i <= k
      <4>1. i - 1 \in 1 .. k /\ i \in 1 .. k
        BY <3>2
      <4>2. more[i - 1] = flat[i - 1] /\ more[i] = flat[i]
        BY <3>2, <4>1
      <4>3. flat[i] = flat[i - 1] \o lists[i]
        BY <1>2, <3>2, <4>1 DEF Flattens
      <4> HIDE DEF more
      <4> QED
        BY <3>2, <4>2, <4>3
    <3>3. CASE i # 1 /\ i = k + 1
      <4>1. i - 1 \in 1 .. k + 1 /\ i - 1 <= k /\ ~(i <= k)
        BY <3>3
      <4>2. more[i - 1] = flat[i - 1] /\ more[i] = flat[i - 1] \o lists[i]
        BY <3>3, <4>1
      <4> HIDE DEF more
      <4> QED
        BY <3>3, <4>2
    <3> QED
      BY <3>1, <3>2, <3>3
  <2>2. more = [i \in 1 .. k + 1 |-> more[i]]
    OBVIOUS
  <2> HIDE DEF more
  <2>3. Flattens(lists, k + 1, more)
    BY <2>1, <2>2 DEF Flattens
  <2> QED
    BY <2>3
<1>3. \A k \in Nat : k \in S => k + 1 \in S
  BY <1>2
<1> HIDE DEF S
<1>4. n \in S
  BY <1>1, <1>3, NatSetInduction
<1> QED
  BY <1>4 DEF S, Flattening

(* What the first lists flatten to does not depend on those that follow.   *)
LEMMA FlatteningAgrees ==
  ASSUME NEW lists, NEW more, NEW n \in Nat, NEW m \in Nat, n <= m,
         \A i \in 1 .. n : more[i] = lists[i]
  PROVE  \A i \in 1 .. n : Flattening(lists, n)[i] = Flattening(more, m)[i]
<1> DEFINE F == Flattening(lists, n)
           G == Flattening(more, m)
           S == {k \in Nat : k \in 1 .. n => F[k] = G[k]}
<1>1. Flattens(lists, n, F) /\ Flattens(more, m, G)
  BY FlatteningExists
<1> HIDE DEF F, G
<1>2. 0 \in S
  OBVIOUS
<1>3. ASSUME NEW k \in Nat, k \in S, k + 1 \in 1 .. n PROVE F[k + 1] = G[k + 1]
  <2>1. k + 1 \in 1 .. m /\ (k # 0 => k \in 1 .. n) /\ n # 0 /\ m # 0 /\ more[k + 1] = lists[k + 1]
    BY <1>3
  <2>2. CASE k = 0
    <3>1. F[1] = lists[1] /\ G[1] = more[1]
      BY <1>1, <2>1, FlattensFirst
    <3> QED
      BY <2>1, <2>2, <3>1
  <2>3. CASE k # 0
    <3>1. F[k + 1] = F[k] \o lists[k + 1]
      BY <1>1, <1>3, <2>3, FlattensNext
    <3>2. G[k + 1] = G[k] \o more[k + 1]
      BY <1>1, <2>1, <2>3, FlattensNext
    <3>3. F[k] = G[k]
      BY <1>3, <2>1, <2>3
    <3> QED
      BY <2>1, <3>1, <3>2, <3>3, Zenon
  <2> QED
    BY <2>2, <2>3
<1>4. \A k \in Nat : k \in S => k + 1 \in S
  <2> SUFFICES ASSUME NEW k \in Nat, k \in S PROVE k + 1 \in 1 .. n => F[k + 1] = G[k + 1]
    OBVIOUS
  <2> HIDE DEF S
  <2> QED
    BY <1>3
<1> HIDE DEF S
<1>5. Nat \subseteq S
  BY <1>2, <1>4, NatSetInduction
<1> QED
  BY <1>5 DEF S, F, G

LEMMA FlatteningNext ==
  ASSUME NEW lists, NEW more, NEW n \in Nat, n # 0, \A i \in 1 .. n : more[i] = lists[i]
  PROVE  Flattening(more, n + 1)[n + 1] = Flattening(lists, n)[n] \o more[n + 1]
<1> DEFINE G == Flattening(more, n + 1)
<1>1. Flattens(more, n + 1, G)
  BY FlatteningExists
<1>2. n + 1 \in Nat /\ n <= n + 1 /\ n \in 1 .. n /\ n + 1 \in 1 .. n + 1 /\ n + 1 - 1 = n /\ n + 1 # 1
  OBVIOUS
<1>3. \A i \in 1 .. n : Flattening(lists, n)[i] = Flattening(more, n + 1)[i]
  BY <1>2, FlatteningAgrees
<1>4. Flattening(lists, n)[n] = G[n]
  BY <1>2, <1>3
<1> HIDE DEF G
<1>6. G[n + 1] = G[n] \o more[n + 1]
  BY <1>1, <1>2, FlattensNext
<1>7. G[n + 1] = Flattening(lists, n)[n] \o more[n + 1]
  BY <1>4, <1>6, Zenon
<1> QED
  BY <1>7 DEF G

LEMMA FlattenIs ==
  ASSUME NEW S, NEW lists \in Seq(S), Len(lists) # 0
  PROVE  FlattenSeq(lists) = Flattening(lists, Len(lists))[Len(lists)]
BY DEF FlattenSeq, Flattening, Flattens

(* Flattening one list more appends its elements.                          *)
LEMMA FlattenMore ==
  ASSUME NEW S, NEW n \in Nat,
         NEW lists \in Seq(Seq(S)), Len(lists) = n,
         NEW more \in Seq(Seq(S)), Len(more) = n + 1,
         \A i \in 1 .. n : more[i] = lists[i]
  PROVE  FlattenSeq(more) = FlattenSeq(lists) \o more[n + 1]
<1>1. FlattenSeq(more) = Flattening(more, n + 1)[n + 1]
  BY FlattenIs
<1>2. CASE n = 0
  <2>1. FlattenSeq(lists) = <<>> /\ more[1] \in Seq(S)
    BY <1>2 DEF FlattenSeq
  <2>2. Flattens(more, 1, Flattening(more, 1))
    BY FlatteningExists
  <2>4. Flattening(more, 1)[1] = more[1]
    BY <2>2, FlattensFirst
  <2> QED
    BY <1>1, <1>2, <2>1, <2>4
<1>3. CASE n # 0
  <2>1. FlattenSeq(lists) = Flattening(lists, n)[n]
    BY <1>3, FlattenIs
  <2>2. Flattening(more, n + 1)[n + 1] = Flattening(lists, n)[n] \o more[n + 1]
    BY <1>3, FlatteningNext
  <2> QED
    BY <1>1, <2>1, <2>2, Zenon
<1> QED
  BY <1>2, <1>3

LEMMA FlattenNone == FlattenSeq(<<>>) = <<>>
BY DEF FlattenSeq

LEMMA FlattenAppend ==
  ASSUME NEW S, NEW lists \in Seq(Seq(S)), NEW list \in Seq(S)
  PROVE  FlattenSeq(Append(lists, list)) = FlattenSeq(lists) \o list
<1> DEFINE more == Append(lists, list)
           n == Len(lists)
<1>1. /\ more \in Seq(Seq(S)) /\ Len(more) = n + 1 /\ more[n + 1] = list
      /\ \A i \in 1 .. n : more[i] = lists[i]
  BY AppendProperties
<1>2. n \in Nat /\ Len(lists) = n
  OBVIOUS
<1> HIDE DEF more, n
<1>3. FlattenSeq(more) = FlattenSeq(lists) \o more[n + 1]
  BY <1>1, <1>2, FlattenMore
<1>4. FlattenSeq(more) = FlattenSeq(lists) \o list
  BY <1>1, <1>3, Zenon
<1> QED
  BY <1>4 DEF more

LEMMA FlattenType ==
  ASSUME NEW S, NEW lists \in Seq(Seq(S))
  PROVE  FlattenSeq(lists) \in Seq(S)
<1> DEFINE T == {l \in Seq(Seq(S)) : FlattenSeq(l) \in Seq(S)}
<1>1. <<>> \in T
  <2>1. <<>> \in Seq(Seq(S)) /\ <<>> \in Seq(S)
    OBVIOUS
  <2> QED
    BY <2>1, FlattenNone
<1>2. ASSUME NEW l \in Seq(Seq(S)), NEW list \in Seq(S), l \in T PROVE Append(l, list) \in T
  <2>1. Append(l, list) \in Seq(Seq(S)) /\ FlattenSeq(Append(l, list)) = FlattenSeq(l) \o list
    BY FlattenAppend
  <2>2. FlattenSeq(l) \o list \in Seq(S)
    BY <1>2, ConcatProperties
  <2> QED
    BY <2>1, <2>2
<1> HIDE DEF T
<1>3. Seq(Seq(S)) \subseteq T
  BY <1>1, <1>2, SeqSetInduction
<1> QED
  BY <1>3 DEF T

(* Every element of a list is one of those it flattens to.                 *)
Has(list, e) == \E i \in DOMAIN list : list[i] = e

LEMMA HasConcat ==
  ASSUME NEW S, NEW s \in Seq(S), NEW t \in Seq(S), NEW e
  PROVE  Has(s \o t, e) <=> Has(s, e) \/ Has(t, e)
<1>1. /\ s \o t \in Seq(S) /\ Len(s \o t) = Len(s) + Len(t)
      /\ \A i \in 1 .. Len(s) + Len(t) : (s \o t)[i] = IF i <= Len(s) THEN s[i] ELSE t[i - Len(s)]
  OBVIOUS
<1> DEFINE st == s \o t
<1> HIDE DEF st
<1>2. ASSUME Has(st, e) PROVE Has(s, e) \/ Has(t, e)
  <2>1. PICK i \in 1 .. Len(s) + Len(t) : st[i] = e
    BY <1>1, <1>2 DEF Has, st
  <2>2. CASE i <= Len(s)
    BY <1>1, <2>1, <2>2 DEF Has, st
  <2>3. CASE ~(i <= Len(s))
    <3>1. i - Len(s) \in DOMAIN t /\ t[i - Len(s)] = e
      BY <1>1, <2>1, <2>3 DEF st
    <3> QED
      BY <3>1 DEF Has
  <2> QED
    BY <2>2, <2>3
<1>3. ASSUME NEW i \in DOMAIN s, s[i] = e PROVE Has(st, e)
  <2>1. i \in DOMAIN st /\ st[i] = e
    BY <1>1, <1>3 DEF st
  <2> QED
    BY <2>1 DEF Has
<1>4. ASSUME NEW i \in DOMAIN t, t[i] = e PROVE Has(st, e)
  <2>1. Len(s) + i \in DOMAIN st /\ st[Len(s) + i] = e
    BY <1>1, <1>4 DEF st
  <2> QED
    BY <2>1 DEF Has
<1>5. Has(st, e) <=> Has(s, e) \/ Has(t, e)
  BY <1>2, <1>3, <1>4 DEF Has
<1> QED
  BY <1>5 DEF st

LEMMA FlattenHas ==
  ASSUME NEW S, NEW lists \in Seq(Seq(S))
  PROVE  \A i \in DOMAIN lists : \A k \in DOMAIN lists[i] : Has(FlattenSeq(lists), lists[i][k])
<1> DEFINE All(l) == \A i \in DOMAIN l : \A k \in DOMAIN l[i] : Has(FlattenSeq(l), l[i][k])
           T == {l \in Seq(Seq(S)) : All(l)}
<1>1. <<>> \in T
  OBVIOUS
<1>2. ASSUME NEW l \in Seq(Seq(S)), NEW list \in Seq(S), l \in T PROVE Append(l, list) \in T
  <2> DEFINE more == Append(l, list)
  <2>1. /\ more \in Seq(Seq(S)) /\ DOMAIN more = 1 .. Len(l) + 1 /\ more[Len(l) + 1] = list
        /\ \A i \in 1 .. Len(l) : more[i] = l[i]
    BY AppendProperties
  <2>2. FlattenSeq(more) = FlattenSeq(l) \o list
    BY FlattenAppend
  <2> HIDE DEF more
  <2>3. FlattenSeq(l) \in Seq(S)
    BY FlattenType
  <2>4. \A e : Has(FlattenSeq(more), e) <=> Has(FlattenSeq(l), e) \/ Has(list, e)
    BY <2>2, <2>3, HasConcat
  <2>5. ASSUME NEW i \in DOMAIN more, NEW k \in DOMAIN more[i]
        PROVE  Has(FlattenSeq(more), more[i][k])
    <3>1. CASE i = Len(l) + 1
      <4>1. Has(list, list[k]) /\ more[i][k] = list[k]
        BY <2>1, <2>5, <3>1 DEF Has
      <4> QED
        BY <2>4, <4>1
    <3>2. CASE i # Len(l) + 1
      <4>0. i \in 1 .. Len(l) + 1 /\ Len(l) \in Nat /\ DOMAIN l = 1 .. Len(l)
        BY <2>1
      <4>1. i \in DOMAIN l /\ more[i] = l[i]
        <5>1. i \in 1 .. Len(l)
          BY <3>2, <4>0
        <5> QED
          BY <2>1, <4>0, <5>1, Zenon
      <4>2. All(l)
        BY <1>2
      <4>3. Has(FlattenSeq(l), l[i][k])
        BY <2>5, <4>1, <4>2
      <4> QED
        BY <2>4, <4>1, <4>3
    <3> QED
      BY <3>1, <3>2
  <2>6. more \in T
    BY <2>1, <2>5
  <2> QED
    BY <2>6 DEF more
<1> HIDE DEF T
<1>3. Seq(Seq(S)) \subseteq T
  BY <1>1, <1>2, SeqSetInduction
<1> QED
  BY <1>3 DEF T

(* Nothing else is in them.                                                *)
LEMMA FlattenFrom ==
  ASSUME NEW S, NEW lists \in Seq(Seq(S))
  PROVE  \A e : Has(FlattenSeq(lists), e) => \E i \in DOMAIN lists : Has(lists[i], e)
<1> DEFINE All(l) == \A e : Has(FlattenSeq(l), e) => \E i \in DOMAIN l : Has(l[i], e)
           T == {l \in Seq(Seq(S)) : All(l)}
<1>1. <<>> \in T
  <2>1. <<>> \in Seq(Seq(S)) /\ All(<<>>)
    BY FlattenNone DEF Has
  <2> QED
    BY <2>1
<1>2. ASSUME NEW l \in Seq(Seq(S)), NEW list \in Seq(S), l \in T PROVE Append(l, list) \in T
  <2> DEFINE more == Append(l, list)
  <2>1. /\ more \in Seq(Seq(S)) /\ DOMAIN more = 1 .. Len(l) + 1 /\ more[Len(l) + 1] = list
        /\ Len(l) \in Nat /\ DOMAIN l = 1 .. Len(l)
        /\ \A i \in 1 .. Len(l) : more[i] = l[i] /\ i \in 1 .. Len(l) + 1
    BY AppendProperties
  <2>2. FlattenSeq(more) = FlattenSeq(l) \o list /\ FlattenSeq(l) \in Seq(S)
    BY FlattenAppend, FlattenType
  <2> HIDE DEF more
  <2>3. ASSUME NEW e, Has(FlattenSeq(more), e) PROVE \E i \in DOMAIN more : Has(more[i], e)
    <3>1. CASE Has(list, e)
      <4>1. Len(l) + 1 \in DOMAIN more
        BY <2>1
      <4> QED
        BY <2>1, <3>1, <4>1
    <3>2. CASE Has(FlattenSeq(l), e)
      <4>1. PICK i \in DOMAIN l : Has(l[i], e)
        BY <1>2, <3>2
      <4> QED
        BY <2>1, <4>1
    <3> QED
      BY <2>2, <2>3, <3>1, <3>2, HasConcat
  <2>4. more \in T
    BY <2>1, <2>3
  <2> QED
    BY <2>4 DEF more
<1> HIDE DEF T
<1>3. Seq(Seq(S)) \subseteq T
  BY <1>1, <1>2, SeqSetInduction
<1> QED
  BY <1>3 DEF T

(* Two lists that are not empty make one of two elements at least.         *)
LEMMA FlattenLong ==
  ASSUME NEW S, NEW lists \in Seq(Seq(S)),
         NEW i \in DOMAIN lists, NEW j \in DOMAIN lists, i # j, lists[i] # <<>>, lists[j] # <<>>
  PROVE  Len(FlattenSeq(lists)) > 1
<1> DEFINE Some(l) == (\E a \in DOMAIN l : l[a] # <<>>) => Len(FlattenSeq(l)) > 0
           Two(l) == (\E a, b \in DOMAIN l : a # b /\ l[a] # <<>> /\ l[b] # <<>>)
                       => Len(FlattenSeq(l)) > 1
           T == {l \in Seq(Seq(S)) : Some(l) /\ Two(l)}
<1>1. <<>> \in T
  OBVIOUS
<1>2. ASSUME NEW l \in Seq(Seq(S)), NEW list \in Seq(S), l \in T PROVE Append(l, list) \in T
  <2> DEFINE more == Append(l, list)
             n == Len(FlattenSeq(l))
             m == Len(list)
  <2>1. /\ more \in Seq(Seq(S)) /\ DOMAIN more = 1 .. Len(l) + 1 /\ more[Len(l) + 1] = list
        /\ Len(l) \in Nat /\ DOMAIN l = 1 .. Len(l)
        /\ \A a \in 1 .. Len(l) : more[a] = l[a]
    BY AppendProperties
  <2>2. FlattenSeq(l) \in Seq(S) /\ FlattenSeq(more) = FlattenSeq(l) \o list
    BY FlattenAppend, FlattenType
  <2>3. Len(FlattenSeq(l) \o list) = n + m /\ n \in Nat /\ m \in Nat /\ (m = 0 <=> list = <<>>)
    BY <2>2, ConcatProperties
  <2>4. Len(FlattenSeq(more)) = n + m
    BY <2>2, <2>3
  <2>5. (\E a \in DOMAIN l : l[a] # <<>>) => n > 0
    BY <1>2
  <2>6. (\E a, b \in DOMAIN l : a # b /\ l[a] # <<>> /\ l[b] # <<>>) => n > 1
    BY <1>2
  <2> HIDE DEF more, n, m
  <2>7. \A a \in DOMAIN more : a = Len(l) + 1 \/ (a \in DOMAIN l /\ more[a] = l[a])
    BY <2>1
  <2>8. Some(more)
    <3> SUFFICES ASSUME NEW a \in DOMAIN more, more[a] # <<>> PROVE Len(FlattenSeq(more)) > 0
      OBVIOUS
    <3>1. CASE a = Len(l) + 1
      BY <2>1, <2>3, <2>4, <3>1
    <3>2. CASE a \in DOMAIN l /\ more[a] = l[a]
      BY <2>3, <2>4, <2>5, <3>2
    <3> QED
      BY <2>7, <3>1, <3>2
  <2>9. Two(more)
    <3> SUFFICES ASSUME NEW a \in DOMAIN more, NEW b \in DOMAIN more, a # b,
                        more[a] # <<>>, more[b] # <<>>
                 PROVE  Len(FlattenSeq(more)) > 1
      OBVIOUS
    <3>1. CASE a = Len(l) + 1 /\ b \in DOMAIN l /\ more[b] = l[b]
      <4>1. n > 0 /\ m # 0
        BY <2>1, <2>3, <2>5, <3>1
      <4> QED
        BY <2>3, <2>4, <4>1
    <3>2. CASE b = Len(l) + 1 /\ a \in DOMAIN l /\ more[a] = l[a]
      <4>1. n > 0 /\ m # 0
        BY <2>1, <2>3, <2>5, <3>2
      <4> QED
        BY <2>3, <2>4, <4>1
    <3>3. CASE a \in DOMAIN l /\ more[a] = l[a] /\ b \in DOMAIN l /\ more[b] = l[b]
      <4>1. a # b /\ l[a] # <<>> /\ l[b] # <<>>
        BY <3>3
      <4>2. n > 1
        BY <2>6, <3>3, <4>1
      <4> QED
        BY <2>3, <2>4, <4>2
    <3> QED
      BY <2>7, <3>1, <3>2, <3>3
  <2>10. more \in T
    BY <2>1, <2>8, <2>9
  <2> QED
    BY <2>10 DEF more
<1> HIDE DEF T
<1>3. Seq(Seq(S)) \subseteq T
  BY <1>1, <1>2, SeqSetInduction
<1> QED
  BY <1>3 DEF T
=============================================================================
