------------------------------ MODULE FoldLemmas ------------------------------
(***************************************************************************)
(* What a fold over a list gives for the empty list and for a list with    *)
(* one element more, for both ways the modules write one: FoldLeft of the  *)
(* community modules, and a recursive function over the prefixes of the    *)
(* list.  The operation takes a parameter, x, besides the result so far    *)
(* and the element; a module that proves something of a fold instantiates  *)
(* this one with the operation.                                            *)
(***************************************************************************)
EXTENDS ListLemmas

CONSTANTS Op(_, _, _), Base

Fold(x, list) == FoldLeft(LAMBDA result, e : Op(x, result, e), Base, list)

Run(x, list) ==
  LET result[n \in 0 .. Len(list)] ==
        IF n = 0 THEN Base ELSE Op(x, result[n - 1], list[n])
  IN  result[Len(list)]

-----------------------------------------------------------------------------
(* Fold *)

(* What FoldLeft computes, for every set of positions.                     *)
Step(x, list, iter, s) ==
  IF s = {} THEN Base ELSE Op(x, iter[s \ {Max(s)}], list[Max(s)])

Iterates(x, list, n, iter) ==
  iter = [s \in SUBSET (1 .. n) |-> Step(x, list, iter, s)]

Iteration(x, list, n) == CHOOSE iter : Iterates(x, list, n, iter)

LEMMA LastIsMax ==
  ASSUME NEW n \in Nat, NEW s \in SUBSET (1 .. n), n \in s
  PROVE  Max(s) = n
<1>1. \A y \in s : y \in Nat /\ n >= y
  OBVIOUS
<1>2. PICK x \in s : x = Max(s) /\ \A y \in s : x >= y
  BY <1>1 DEF Max
<1> QED
  BY <1>1, <1>2

LEMMA IterationExtends ==
  ASSUME NEW x, NEW list, NEW n \in Nat, NEW iter, Iterates(x, list, n, iter)
  PROVE  \E more : Iterates(x, list, n + 1, more)
<1> DEFINE more == [s \in SUBSET (1 .. n + 1) |->
                      IF n + 1 \in s THEN Op(x, iter[s \ {n + 1}], list[n + 1]) ELSE iter[s]]
<1>1. ASSUME NEW s \in SUBSET (1 .. n + 1) PROVE more[s] = Step(x, list, more, s)
  <2>1. CASE n + 1 \in s
    <3>1. Max(s) = n + 1
      BY <2>1, LastIsMax
    <3>2. s \ {n + 1} \in SUBSET (1 .. n) /\ s \ {n + 1} \in SUBSET (1 .. n + 1)
      OBVIOUS
    <3>3. more[s \ {n + 1}] = iter[s \ {n + 1}]
      BY <3>2
    <3> QED
      BY <2>1, <3>1, <3>3 DEF Step
  <2>2. CASE n + 1 \notin s
    <3>1. s \in SUBSET (1 .. n) /\ s \ {Max(s)} \in SUBSET (1 .. n)
          /\ s \ {Max(s)} \in SUBSET (1 .. n + 1) /\ n + 1 \notin s \ {Max(s)}
      <4>1. s \in SUBSET (1 .. n)
        <5>1. \A i \in s : i \in 1 .. n
          BY <2>2
        <5> QED
          BY <5>1
      <4> QED
        BY <2>2, <4>1
    <3>2. iter[s] = Step(x, list, iter, s)
      BY <3>1 DEF Iterates
    <3>3. more[s \ {Max(s)}] = iter[s \ {Max(s)}]
      BY <3>1
    <3>4. more[s] = iter[s]
      BY <2>2
    <3> QED
      BY <3>2, <3>3, <3>4 DEF Step
  <2> QED
    BY <2>1, <2>2
<1> HIDE DEF more
<1>2. more = [s \in SUBSET (1 .. n + 1) |-> more[s]]
  BY DEF more
<1>3. Iterates(x, list, n + 1, more)
  BY <1>1, <1>2 DEF Iterates
<1> QED
  BY <1>3

LEMMA IterationExists ==
  ASSUME NEW x, NEW list, NEW n \in Nat
  PROVE  Iterates(x, list, n, Iteration(x, list, n))
<1> DEFINE S == {k \in Nat : \E iter : Iterates(x, list, k, iter)}
<1>1. 0 \in S
  <2> DEFINE iter == [s \in SUBSET (1 .. 0) |-> Base]
  <2>1. iter = [s \in SUBSET (1 .. 0) |-> Step(x, list, iter, s)]
    BY DEF Step
  <2> QED
    BY <2>1 DEF Iterates
<1>2. \A k \in Nat : k \in S => k + 1 \in S
  BY IterationExtends
<1> HIDE DEF S
<1>3. n \in S
  BY <1>1, <1>2, NatSetInduction
<1> QED
  BY <1>3 DEF S, Iteration

(* The result for the positions up to k does not depend on the rest.       *)
LEMMA IterationAgrees ==
  ASSUME NEW x, NEW list, NEW more, NEW n \in Nat, NEW m \in Nat, n <= m,
         \A i \in 1 .. n : more[i] = list[i]
  PROVE  Iteration(x, list, n)[1 .. n] = Iteration(x, more, m)[1 .. n]
<1> DEFINE I == Iteration(x, list, n)
           J == Iteration(x, more, m)
           S == {k \in Nat : k <= n => I[1 .. k] = J[1 .. k]}
<1>1. Iterates(x, list, n, I) /\ Iterates(x, more, m, J)
  BY IterationExists
<1> HIDE DEF I, J
<1>r. /\ I = [s \in SUBSET (1 .. n) |-> Step(x, list, I, s)]
      /\ J = [s \in SUBSET (1 .. m) |-> Step(x, more, J, s)]
  BY <1>1 DEF Iterates
<1>2. 0 \in S
  <2>1. 1 .. 0 = {} /\ 1 .. 0 \in SUBSET (1 .. n) /\ 1 .. 0 \in SUBSET (1 .. m)
    OBVIOUS
  <2>2. I[1 .. 0] = Step(x, list, I, 1 .. 0) /\ J[1 .. 0] = Step(x, more, J, 1 .. 0)
    BY <1>r, <2>1, Zenon
  <2>3. I[1 .. 0] = Base /\ J[1 .. 0] = Base
    BY <2>1, <2>2 DEF Step
  <2> QED
    BY <2>3
<1>3. ASSUME NEW k \in Nat, k \in S, k + 1 <= n PROVE I[1 .. k + 1] = J[1 .. k + 1]
  <2>1. /\ 1 .. k + 1 \in SUBSET (1 .. n) /\ 1 .. k + 1 \in SUBSET (1 .. m)
        /\ 1 .. k + 1 # {} /\ (1 .. k + 1) \ {k + 1} = 1 .. k
    <3>1. \A i \in 1 .. k + 1 : i \in 1 .. n /\ i \in 1 .. m
      BY <1>3
    <3>2. k + 1 \in 1 .. k + 1
      OBVIOUS
    <3>3. \A i : i \in (1 .. k + 1) \ {k + 1} <=> i \in 1 .. k
      OBVIOUS
    <3> QED
      BY <3>1, <3>2, <3>3
  <2>2. Max(1 .. k + 1) = k + 1
    BY LastIsMax
  <2>6. I[1 .. k + 1] = Step(x, list, I, 1 .. k + 1) /\ J[1 .. k + 1] = Step(x, more, J, 1 .. k + 1)
    BY <1>r, <2>1, Zenon
  <2>3. I[1 .. k + 1] = Op(x, I[1 .. k], list[k + 1])
    BY <2>1, <2>2, <2>6, Zenon DEF Step
  <2>4. J[1 .. k + 1] = Op(x, J[1 .. k], more[k + 1])
    BY <2>1, <2>2, <2>6, Zenon DEF Step
  <2>5. I[1 .. k] = J[1 .. k] /\ more[k + 1] = list[k + 1]
    BY <1>3
  <2> QED
    BY <2>3, <2>4, <2>5
<1>4. \A k \in Nat : k \in S => k + 1 \in S
  BY <1>3
<1> HIDE DEF S
<1>5. n \in S
  BY <1>2, <1>4, NatSetInduction
<1> QED
  BY <1>5 DEF S, I, J

LEMMA FoldIteration ==
  ASSUME NEW x, NEW S, NEW list \in Seq(S)
  PROVE  Fold(x, list) = Iteration(x, list, Len(list))[1 .. Len(list)]
<1>1. DOMAIN list = 1 .. Len(list)
  OBVIOUS
<1> QED
  BY <1>1 DEF Fold, FoldLeft, MapThenFoldSet, Iteration, Iterates, Step

(* Folding nothing gives the base; one element more is one operation more.  *)
LEMMA FoldEmpty ==
  ASSUME NEW x
  PROVE  Fold(x, <<>>) = Base
<1>1. Fold(x, <<>>) = Iteration(x, <<>>, 0)[1 .. 0]
  <2>1. <<>> \in Seq({}) /\ Len(<<>>) = 0
    OBVIOUS
  <2> QED
    BY <2>1, FoldIteration, Zenon
<1>2. Iterates(x, <<>>, 0, Iteration(x, <<>>, 0))
  BY IterationExists
<1> QED
  <2>1. 1 .. 0 \in SUBSET (1 .. 0) /\ 1 .. 0 = {}
    OBVIOUS
  <2>2. Iteration(x, <<>>, 0)[1 .. 0] = Step(x, <<>>, Iteration(x, <<>>, 0), 1 .. 0)
    BY <1>2, <2>1, Zenon DEF Iterates
  <2> QED
    BY <1>1, <2>1, <2>2, Zenon DEF Step

LEMMA FoldAppend ==
  ASSUME NEW x, NEW S, NEW list \in Seq(S), NEW e \in S
  PROVE  Fold(x, Append(list, e)) = Op(x, Fold(x, list), e)
<1> DEFINE more == Append(list, e)
           n == Len(list)
           J == Iteration(x, more, n + 1)
<1>1. n \in Nat /\ more \in Seq(S) /\ Len(more) = n + 1 /\ more[n + 1] = e
      /\ \A i \in 1 .. n : more[i] = list[i]
  OBVIOUS
<1> HIDE DEF more, n
<1>2. Fold(x, more) = J[1 .. n + 1]
  BY <1>1, FoldIteration
<1>3. Fold(x, list) = J[1 .. n]
  <2>1. Fold(x, list) = Iteration(x, list, n)[1 .. n]
    BY FoldIteration DEF n
  <2>2. n + 1 \in Nat /\ n <= n + 1
    BY <1>1
  <2> HIDE DEF J
  <2>3. Iteration(x, list, n)[1 .. n] = Iteration(x, more, n + 1)[1 .. n]
    BY <1>1, <2>2, IterationAgrees
  <2> QED
    BY <2>1, <2>3 DEF J
<1>4. Iterates(x, more, n + 1, J)
  BY <1>1, IterationExists
<1> HIDE DEF J
<1>5. 1 .. n + 1 # {} /\ (1 .. n + 1) \ {n + 1} = 1 .. n /\ Max(1 .. n + 1) = n + 1
  BY <1>1, LastIsMax
<1>6. J[1 .. n + 1] = Op(x, J[1 .. n], more[n + 1])
  <2>1. J[1 .. n + 1] = Step(x, more, J, 1 .. n + 1)
    BY <1>4, Zenon DEF Iterates
  <2> QED
    BY <1>5, <2>1, Zenon DEF Step
<1> QED
  BY <1>1, <1>2, <1>3, <1>6 DEF more

-----------------------------------------------------------------------------
(* Run *)

Runs(x, list, n, result) ==
  result = [k \in 0 .. n |-> IF k = 0 THEN Base ELSE Op(x, result[k - 1], list[k])]

Running(x, list, n) == CHOOSE result : Runs(x, list, n, result)

LEMMA RunsFirst ==
  ASSUME NEW x, NEW list, NEW n \in Nat, NEW result, Runs(x, list, n, result)
  PROVE  result[0] = Base
<1>1. 0 \in 0 .. n
  OBVIOUS
<1> QED
  BY <1>1, Zenon DEF Runs

LEMMA RunsNext ==
  ASSUME NEW x, NEW list, NEW n \in Nat, NEW result, Runs(x, list, n, result),
         NEW i \in Nat, i + 1 <= n
  PROVE  result[i + 1] = Op(x, result[i], list[i + 1])
<1> DEFINE k == i + 1
<1>1. k \in 0 .. n /\ k # 0 /\ k - 1 = i
  OBVIOUS
<1> HIDE DEF k
<1>2. result[k] = IF k = 0 THEN Base ELSE Op(x, result[k - 1], list[k])
  BY <1>1, Zenon DEF Runs
<1> QED
  BY <1>1, <1>2, Zenon DEF k

LEMMA RunningExists ==
  ASSUME NEW x, NEW list, NEW n \in Nat
  PROVE  Runs(x, list, n, Running(x, list, n))
<1> DEFINE S == {k \in Nat : \E result : Runs(x, list, k, result)}
<1>1. 0 \in S
  <2> DEFINE result == [k \in 0 .. 0 |-> Base]
  <2>1. \A k \in 0 .. 0 : k = 0
    OBVIOUS
  <2>2. result = [k \in 0 .. 0 |-> IF k = 0 THEN Base ELSE Op(x, result[k - 1], list[k])]
    BY <2>1, Zenon
  <2> QED
    BY <2>2 DEF Runs
<1>2. ASSUME NEW n0 \in Nat, NEW result, Runs(x, list, n0, result)
      PROVE  \E more : Runs(x, list, n0 + 1, more)
  <2> DEFINE more == [k \in 0 .. n0 + 1 |->
                        IF k <= n0 THEN result[k] ELSE Op(x, result[k - 1], list[k])]
  <2>1. ASSUME NEW k \in 0 .. n0 + 1
        PROVE  more[k] = IF k = 0 THEN Base ELSE Op(x, more[k - 1], list[k])
    <3>1. CASE k = 0
      <4>1. more[k] = result[0]
        BY <3>1
      <4> QED
        BY <1>2, <3>1, <4>1, RunsFirst
    <3>2. CASE k # 0 /\ k <= n0
      <4>1. k - 1 <= n0 /\ k - 1 \in 0 .. n0 + 1
        BY <3>2
      <4>2. more[k - 1] = result[k - 1] /\ more[k] = result[k]
        BY <3>2, <4>1
      <4>3. result[k] = IF k = 0 THEN Base ELSE Op(x, result[k - 1], list[k])
        <5>1. k \in 0 .. n0
          BY <3>2
        <5> QED
          BY <1>2, <5>1, Zenon DEF Runs
      <4> HIDE DEF more
      <4> QED
        BY <3>2, <4>1, <4>2, <4>3, Zenon
    <3>3. CASE k = n0 + 1
      <4>1. k - 1 \in 0 .. n0 + 1 /\ k - 1 <= n0 /\ ~(k <= n0) /\ k # 0
        BY <3>3
      <4>2. more[k - 1] = result[k - 1] /\ more[k] = Op(x, result[k - 1], list[k])
        BY <4>1
      <4> HIDE DEF more
      <4> QED
        BY <4>1, <4>2
    <3> QED
      BY <3>1, <3>2, <3>3
  <2>2. more = [k \in 0 .. n0 + 1 |-> more[k]]
    OBVIOUS
  <2> HIDE DEF more
  <2>3. Runs(x, list, n0 + 1, more)
    BY <2>1, <2>2, Zenon DEF Runs
  <2> QED
    BY <2>3
<1>3. \A k \in Nat : k \in S => k + 1 \in S
  BY <1>2
<1> HIDE DEF S
<1>4. n \in S
  BY <1>1, <1>3, NatSetInduction
<1> QED
  BY <1>4 DEF S, Running

(* What the first elements give does not depend on those that follow.      *)
LEMMA RunningAgrees ==
  ASSUME NEW x, NEW list, NEW more, NEW n \in Nat, NEW m \in Nat, n <= m,
         \A i \in 1 .. n : more[i] = list[i]
  PROVE  Running(x, list, n)[n] = Running(x, more, m)[n]
<1> DEFINE F == Running(x, list, n)
           G == Running(x, more, m)
           S == {k \in Nat : k <= n => F[k] = G[k]}
<1>1. Runs(x, list, n, F) /\ Runs(x, more, m, G)
  BY RunningExists
<1> HIDE DEF F, G
<1>2. 0 \in S
  <2>1. F[0] = Base /\ G[0] = Base
    BY <1>1, RunsFirst
  <2> QED
    BY <2>1
<1>3. ASSUME NEW k \in Nat, k \in S, k + 1 <= n PROVE F[k + 1] = G[k + 1]
  <2>1. k + 1 <= m /\ F[k] = G[k] /\ more[k + 1] = list[k + 1]
    BY <1>3
  <2>2. F[k + 1] = Op(x, F[k], list[k + 1])
    BY <1>1, <1>3, RunsNext
  <2>3. G[k + 1] = Op(x, G[k], more[k + 1])
    BY <1>1, <2>1, RunsNext
  <2> QED
    BY <2>1, <2>2, <2>3, Zenon
<1>4. \A k \in Nat : k \in S => k + 1 \in S
  BY <1>3
<1> HIDE DEF S
<1>5. n \in S
  BY <1>2, <1>4, NatSetInduction
<1> QED
  BY <1>5 DEF S, F, G

LEMMA RunIs ==
  ASSUME NEW x, NEW list
  PROVE  Run(x, list) = Running(x, list, Len(list))[Len(list)]
BY Zenon DEF Run, Running, Runs

(* Running over nothing gives the base; one element more is one operation  *)
(* more.                                                                   *)
LEMMA RunEmpty ==
  ASSUME NEW x
  PROVE  Run(x, <<>>) = Base
<1>1. Len(<<>>) = 0
  OBVIOUS
<1>2. Running(x, <<>>, 0)[0] = Base
  BY RunningExists, RunsFirst
<1> QED
  BY <1>1, <1>2, RunIs, Zenon

LEMMA RunAppend ==
  ASSUME NEW x, NEW S, NEW list \in Seq(S), NEW e \in S
  PROVE  Run(x, Append(list, e)) = Op(x, Run(x, list), e)
<1> DEFINE more == Append(list, e)
           n == Len(list)
           G == Running(x, more, n + 1)
<1>1. n \in Nat /\ n + 1 \in Nat /\ n <= n + 1 /\ n + 1 <= n + 1
  OBVIOUS
<1>2. Len(more) = n + 1 /\ more[n + 1] = e /\ \A i \in 1 .. n : more[i] = list[i]
  BY AppendProperties
<1> HIDE DEF more
<1>3. Run(x, list) = Running(x, list, n)[n]
  BY RunIs
<1>4. Run(x, more) = G[n + 1]
  BY <1>2, RunIs, Zenon
<1> HIDE DEF n
<1>5. Running(x, list, n)[n] = G[n]
  BY <1>1, <1>2, RunningAgrees
<1>6. Runs(x, more, n + 1, G)
  BY <1>1, RunningExists
<1> HIDE DEF G
<1>7. G[n + 1] = Op(x, G[n], more[n + 1])
  BY <1>1, <1>6, RunsNext
<1>8. Run(x, more) = Op(x, Run(x, list), e)
  BY <1>2, <1>3, <1>4, <1>5, <1>7, Zenon
<1> QED
  BY <1>8 DEF more
=============================================================================
