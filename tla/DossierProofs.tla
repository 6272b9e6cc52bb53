---------------------------- MODULE DossierProofs ----------------------------
(***************************************************************************)
(* Proofs about Dossier, for any requests, settings, answers, cap and      *)
(* threshold the assumption allows.                                        *)
(*                                                                         *)
(* The properties speak of what the enrichers answered; the steps fold     *)
(* the answers, tier by tier, into payloads and merge these.  So there are *)
(* three layers.  The first says what the loops compute, for every input:  *)
(* FlattenSeq and the recursive function of Survivors are unfolded into    *)
(* sequences of accumulators, and what a round preserves holds at the end  *)
(* by SetInduction.  The second follows the payloads: at every stage they  *)
(* are the shares of the stages passed, so what is merged is what was      *)
(* offered, in registry order.  The third is the inductive invariant, one  *)
(* lemma per action.                                                       *)
(***************************************************************************)
EXTENDS Dossier, TLAPS, WellFoundedInduction, SequenceTheorems, FiniteSetTheorems, FiniteSets

-----------------------------------------------------------------------------
(* Loops.                                                                  *)

\* Induction over the naturals, for a set: the library's theorem takes an
\* operator, which the provers cannot instantiate, so the least number outside
\* the set is refuted instead.
LEMMA SetInduction ==
  ASSUME NEW S, 0 \in S, \A n \in Nat : n \in S => n + 1 \in S
  PROVE  \A n \in Nat : n \in S
<1> DEFINE Bad == Nat \ S
           R == {p \in Nat \X Nat : p[1] < p[2]}
<1> SUFFICES ASSUME Bad # {} PROVE FALSE  OBVIOUS
<1>1. IsWellFoundedOn(R, Nat)  BY NatLessThanWellFounded DEF OpToRel
<1>2. PICK x \in Bad : \A y \in Bad : ~(<<y, x>> \in R)
  <2> HIDE DEF R
  <2> QED BY <1>1, WFMin
<1>3. \A y \in Bad : ~(y < x)
  BY <1>2
<1>4. x \in Nat /\ x # 0  OBVIOUS
<1>5. x - 1 \in Nat /\ x - 1 < x /\ (x - 1) + 1 = x  BY <1>4
<1>6. x - 1 \in S  BY <1>3, <1>5
<1>7. x \in S  BY <1>5, <1>6
<1> QED BY <1>7

\* The values a loop's accumulator takes: g[n] after n rounds.
LoopOf(g, N, T, base, step) ==
    /\ g \in [0..N -> T]
    /\ g[0] = base
    /\ \A n \in 1..N : g[n] = step[<<n, g[n - 1]>>]

\* A loop whose step stays in a set has such a sequence of values.
LEMMA LoopExists ==
  ASSUME NEW N \in Nat, NEW T, NEW base \in T, NEW step \in [(1..N) \X T -> T]
  PROVE  \E g : LoopOf(g, N, T, base, step)
<1> DEFINE Run(g, m) == g[0] = base /\ \A n \in 1..m : g[n] = step[<<n, g[n - 1]>>]
           S == {m \in Nat : m <= N => \E g \in [0..m -> T] : Run(g, m)}
<1>1. 0 \in S
  <2>1. [i \in 0..0 |-> base] \in [0..0 -> T] /\ Run([i \in 0..0 |-> base], 0)  OBVIOUS
  <2> QED BY <2>1
<1>2. ASSUME NEW m \in Nat, m \in S PROVE m + 1 \in S
  <2> SUFFICES ASSUME m + 1 <= N PROVE \E g \in [0..(m + 1) -> T] : Run(g, m + 1)  OBVIOUS
  <2>1. PICK g \in [0..m -> T] : Run(g, m)  BY <1>2
  <2> DEFINE next == step[<<m + 1, g[m]>>]
             h == [i \in 0..(m + 1) |-> IF i = m + 1 THEN next ELSE g[i]]
  <2>2. next \in T  OBVIOUS
  <2> HIDE DEF next
  <2>3. h \in [0..(m + 1) -> T]  BY <2>2
  <2>4. h[0] = base  BY <2>1
  <2>5. ASSUME NEW n \in 1..(m + 1) PROVE h[n] = step[<<n, h[n - 1]>>]
    <3>1. CASE n = m + 1
      <4>1. h[n] = next /\ h[n - 1] = g[m]  BY <3>1
      <4> QED BY <4>1, <3>1 DEF next
    <3>2. CASE n # m + 1
      <4>1. n \in 1..m /\ h[n] = g[n] /\ h[n - 1] = g[n - 1]  BY <3>2
      <4> QED BY <4>1, <2>1
    <3> QED BY <3>1, <3>2
  <2> HIDE DEF h
  <2> QED BY <2>3, <2>4, <2>5
<1> HIDE DEF S
<1>3. N \in S  BY <1>1, <1>2, SetInduction
<1> QED BY <1>3 DEF S, LoopOf

-----------------------------------------------------------------------------
(* The lists with one entry per key.                                       *)

\* What a list of positions is after m entries of merge_payloads' loops: one
\* position per key, of the entry of highest rank, the first of equals, and
\* the first key stays in front.
Listing(list, m, keys, ranks) ==
    /\ list \in Seq(1..m)
    /\ \A i, j \in DOMAIN list : keys[list[i]] = keys[list[j]] => i = j
    /\ \A n \in 1..m : \E i \in DOMAIN list : keys[list[i]] = keys[n]
    /\ \A i \in DOMAIN list : \A n \in 1..m : keys[n] = keys[list[i]] =>
          /\ ranks[n] <= ranks[list[i]]
          /\ n < list[i] => ranks[n] < ranks[list[i]]
    /\ m > 0 => Len(list) > 0 /\ keys[list[1]] = keys[1]

\* One round of the loop keeps it: append, replace in place, or leave alone.
LEMMA PutListing ==
  ASSUME NEW N \in Nat, NEW keys, NEW ranks \in [1..N -> Int],
         NEW m \in 0..(N - 1), NEW list, Listing(list, m, keys, ranks)
  PROVE  Listing(Put(list, m + 1, keys, ranks), m + 1, keys, ranks)
<1> DEFINE same == {i \in DOMAIN list : keys[list[i]] = keys[m + 1]}
<1>1. list \in Seq(1..m) /\ DOMAIN list = 1..Len(list) /\ Len(list) \in Nat
  BY DEF Listing
<1>2. \A i \in DOMAIN list : list[i] \in 1..m  BY <1>1
<1>3. CASE same = {}
  <2> DEFINE new == Append(list, m + 1)
  <2>1. Put(list, m + 1, keys, ranks) = new  BY <1>3 DEF Put
  <2>2. new \in Seq(1..(m + 1)) /\ Len(new) = Len(list) + 1
    BY <1>1, <1>2
  <2>3. \A i \in 1..Len(list) : new[i] = list[i]  BY <1>1
  <2>4. new[Len(list) + 1] = m + 1  BY <1>1
  <2>5. \A i \in DOMAIN list : keys[list[i]] # keys[m + 1]  BY <1>3
  <2> HIDE DEF new
  <2>6. DOMAIN new = 1..(Len(list) + 1)  BY <2>2
  <2>7. \A i, j \in DOMAIN new : keys[new[i]] = keys[new[j]] => i = j
    <3> SUFFICES ASSUME NEW i \in DOMAIN new, NEW j \in DOMAIN new, keys[new[i]] = keys[new[j]]
                 PROVE  i = j
      OBVIOUS
    <3>1. \A k \in DOMAIN new : k \in DOMAIN list \/ k = Len(list) + 1
      BY <1>1, <2>6
    <3>2. CASE i \in DOMAIN list /\ j \in DOMAIN list
      <4>1. new[i] = list[i] /\ new[j] = list[j]  BY <3>2, <1>1, <2>3
      <4> QED BY <4>1, <3>2 DEF Listing
    <3>3. CASE i \notin DOMAIN list \/ j \notin DOMAIN list
      <4>1. \A k \in DOMAIN list : keys[new[k]] = keys[list[k]]  BY <1>1, <2>3
      <4> QED BY <3>1, <3>3, <2>5, <2>4, <4>1
    <3> QED BY <3>2, <3>3
  <2>8. \A n \in 1..(m + 1) : \E i \in DOMAIN new : keys[new[i]] = keys[n]
    <3> TAKE n \in 1..(m + 1)
    <3>1. CASE n = m + 1
      BY <3>1, <2>4, <2>6, <1>1
    <3>2. CASE n # m + 1
      <4>1. n \in 1..m  BY <3>2
      <4>2. PICK i \in DOMAIN list : keys[list[i]] = keys[n]  BY <4>1 DEF Listing
      <4> QED BY <4>2, <2>3, <2>6, <1>1
    <3> QED BY <3>1, <3>2
  <2>9. ASSUME NEW i \in DOMAIN new, NEW n \in 1..(m + 1), keys[n] = keys[new[i]]
        PROVE  ranks[n] <= ranks[new[i]] /\ (n < new[i] => ranks[n] < ranks[new[i]])
    <3>1. CASE i = Len(list) + 1
      <4>1. new[i] = m + 1  BY <3>1, <2>4
      <4>2. n = m + 1
        <5> SUFFICES ASSUME n # m + 1 PROVE FALSE  OBVIOUS
        <5>1. n \in 1..m  OBVIOUS
        <5>2. PICK k \in DOMAIN list : keys[list[k]] = keys[n]  BY <5>1 DEF Listing
        <5> QED BY <5>2, <2>5, <2>9, <4>1
      <4> QED BY <4>1, <4>2
    <3>2. CASE i # Len(list) + 1
      <4>1. i \in DOMAIN list /\ new[i] = list[i]  BY <3>2, <2>3, <2>6, <1>1
      <4>2. n \in 1..m  BY <4>1, <2>5, <2>9
      <4> QED BY <4>1, <4>2, <2>9 DEF Listing
    <3> QED BY <3>1, <3>2
  <2>10. Len(new) > 0 /\ keys[new[1]] = keys[1]
    <3>1. CASE m = 0
      <4>1. Len(list) = 0
        <5> SUFFICES ASSUME 1 \in DOMAIN list PROVE FALSE  BY <1>1
        <5> QED BY <1>2, <3>1
      <4> QED BY <4>1, <2>4, <2>2, <3>1
    <3>2. CASE m # 0
      <4>1. Len(list) > 0 /\ keys[list[1]] = keys[1]  BY <3>2 DEF Listing
      <4>2. 1 \in 1..Len(list)  BY <4>1, <1>1
      <4> QED BY <4>1, <4>2, <2>3, <2>2
    <3> QED BY <3>1, <3>2
  <2> QED BY <2>1, <2>2, <2>7, <2>8, <2>9, <2>10 DEF Listing
<1>4. CASE same # {}
  <2>1. PICK p \in same : same = {p}
    <3>1. PICK p \in same : TRUE  BY <1>4
    <3>2. \A i \in same : i = p  BY <3>1 DEF Listing
    <3> QED BY <3>1, <3>2
  <2>2. Min(same) = p
    <3>1. same = {p} /\ p \in Nat  BY <2>1, <1>1
    <3> HIDE DEF same
    <3> QED BY <3>1 DEF Min
  <2>3. p \in DOMAIN list /\ keys[list[p]] = keys[m + 1]  BY <2>1
  <2>4. list[p] \in 1..m /\ list[p] \in 1..N /\ m + 1 \in 1..N  BY <2>3, <1>2
  <2>5. CASE ranks[m + 1] > ranks[list[p]]
    <3> DEFINE new == [list EXCEPT ![p] = m + 1]
    <3>1. Put(list, m + 1, keys, ranks) = new
      <4>1. same # {}  BY <1>4
      <4> QED BY <2>2, <2>5, <4>1 DEF Put
    <3>2. new \in Seq(1..(m + 1)) /\ Len(new) = Len(list) /\ DOMAIN new = DOMAIN list
      <4>1. list \in Seq(1..(m + 1))  BY <1>1, <1>2
      <4> QED BY <4>1, <2>3, <1>1, ExceptSeq
    <3>3. new[p] = m + 1 /\ \A i \in DOMAIN list : i # p => new[i] = list[i]  BY <2>3
    <3> HIDE DEF new
    <3>4. \A i \in DOMAIN list : keys[new[i]] = keys[list[i]]  BY <3>3, <2>3
    <3>5. \A i, j \in DOMAIN new : keys[new[i]] = keys[new[j]] => i = j
      BY <3>2, <3>4 DEF Listing
    <3>6. \A n \in 1..(m + 1) : \E i \in DOMAIN new : keys[new[i]] = keys[n]
      <4> TAKE n \in 1..(m + 1)
      <4>1. CASE n = m + 1
        BY <4>1, <3>4, <3>2, <2>3
      <4>2. CASE n # m + 1
        <5>1. n \in 1..m  BY <4>2
        <5>2. PICK i \in DOMAIN list : keys[list[i]] = keys[n]  BY <5>1 DEF Listing
        <5> QED BY <5>2, <3>4, <3>2
      <4> QED BY <4>1, <4>2
    <3>7. ASSUME NEW i \in DOMAIN new, NEW n \in 1..(m + 1), keys[n] = keys[new[i]]
          PROVE  ranks[n] <= ranks[new[i]] /\ (n < new[i] => ranks[n] < ranks[new[i]])
      <4>1. i \in DOMAIN list /\ keys[n] = keys[list[i]]  BY <3>7, <3>2, <3>4
      <4>2. CASE i = p
        <5>1. new[i] = m + 1  BY <4>2, <3>3
        <5>2. CASE n = m + 1
          BY <5>1, <5>2, <2>4
        <5>3. CASE n # m + 1
          <6>1. n \in 1..m /\ n \in 1..N  BY <5>3
          <6>2. ranks[n] <= ranks[list[p]]  BY <6>1, <4>1, <4>2 DEF Listing
          <6>3. ranks[n] \in Int /\ ranks[list[p]] \in Int /\ ranks[m + 1] \in Int  BY <6>1, <2>4
          <6> QED BY <6>2, <6>3, <5>1, <2>5
        <5> QED BY <5>2, <5>3
      <4>3. CASE i # p
        <5>1. new[i] = list[i]  BY <4>3, <4>1, <3>3
        <5>2. n # m + 1
          BY <4>1, <4>3, <2>3 DEF Listing
        <5>3. n \in 1..m  BY <5>2
        <5> QED BY <5>1, <5>3, <4>1 DEF Listing
      <4> QED BY <4>2, <4>3
    <3>8. Len(new) > 0 /\ keys[new[1]] = keys[1]
      <4>1. m > 0  BY <2>4
      <4>2. Len(list) > 0 /\ keys[list[1]] = keys[1]  BY <4>1 DEF Listing
      <4>3. 1 \in DOMAIN list /\ Len(list) > 0  BY <4>2, <1>1
      <4> QED BY <4>2, <4>3, <3>2, <3>4
    <3> QED BY <3>1, <3>2, <3>5, <3>6, <3>7, <3>8 DEF Listing
  <2>6. CASE ~(ranks[m + 1] > ranks[list[p]])
    <3>1. Put(list, m + 1, keys, ranks) = list
      <4>1. same # {}  BY <1>4
      <4> QED BY <2>2, <2>6, <4>1 DEF Put
    <3>2. list \in Seq(1..(m + 1))  BY <1>1, <1>2
    <3>3. \A n \in 1..(m + 1) : \E i \in DOMAIN list : keys[list[i]] = keys[n]
      <4> TAKE n \in 1..(m + 1)
      <4>1. CASE n = m + 1  BY <4>1, <2>3
      <4>2. CASE n # m + 1
        <5>1. n \in 1..m  BY <4>2
        <5> QED BY <5>1 DEF Listing
      <4> QED BY <4>1, <4>2
    <3>4. ASSUME NEW i \in DOMAIN list, NEW n \in 1..(m + 1), keys[n] = keys[list[i]]
          PROVE  ranks[n] <= ranks[list[i]] /\ (n < list[i] => ranks[n] < ranks[list[i]])
      <4>1. CASE n = m + 1
        <5>1. i = p  BY <3>4, <4>1, <2>3 DEF Listing
        <5>2. ranks[m + 1] \in Int /\ ranks[list[p]] \in Int  BY <2>4
        <5> QED BY <5>1, <5>2, <4>1, <2>4, <2>6
      <4>2. CASE n # m + 1
        <5>1. n \in 1..m  BY <4>2
        <5> QED BY <5>1, <3>4 DEF Listing
      <4> QED BY <4>1, <4>2
    <3>5. m > 0  BY <2>4
    <3>6. Len(list) > 0 /\ keys[list[1]] = keys[1]  BY <3>5 DEF Listing
    <3>7. \A i, j \in DOMAIN list : keys[list[i]] = keys[list[j]] => i = j  BY DEF Listing
    <3>8. Listing(list, m + 1, keys, ranks)
      BY <3>2, <3>3, <3>4, <3>6, <3>7 DEF Listing
    <3> QED BY <3>1, <3>8
  <2> QED BY <2>5, <2>6
<1> QED BY <1>3, <1>4

\* One round of the loop keeps the list a list of positions.
LEMMA PutType ==
  ASSUME NEW list \in Seq(Nat), NEW n \in Nat, NEW keys, NEW ranks
  PROVE  Put(list, n, keys, ranks) \in Seq(Nat)
<1>1. Append(list, n) \in Seq(Nat)  OBVIOUS
<1>2. ASSUME NEW i PROVE [list EXCEPT ![i] = n] \in Seq(Nat)
  <2>1. list \in [1..Len(list) -> Nat] /\ Len(list) \in Nat  OBVIOUS
  <2>2. [list EXCEPT ![i] = n] \in [1..Len(list) -> Nat]  BY <2>1
  <2> QED BY <2>1, <2>2, SeqDef
<1> QED BY <1>1, <1>2 DEF Put

\* After the last round the list is the listing of all the entries: the
\* recursive function listed[n] holds exactly one list for every n.
LEMMA SurvivorsListing ==
  ASSUME NEW K, NEW keys \in Seq(K), NEW ranks \in [1..Len(keys) -> Int]
  PROVE  Listing(Survivors(keys, ranks), Len(keys), keys, ranks)
<1> DEFINE N == Len(keys)
           Next1(lists, n) == {Put(list, n, keys, ranks) : list \in lists}
           T == SUBSET Seq(Nat)
           step == [p \in (1..N) \X T |-> Next1(p[2], p[1])]
           Def(f) == [n \in 0..N |-> IF n = 0 THEN {<<>>} ELSE Next1(f[n - 1], n)]
           listed == CHOOSE f : f = Def(f)
<1>1. N \in Nat  OBVIOUS
<1>2. step \in [(1..N) \X T -> T]
  <2>1. ASSUME NEW p \in (1..N) \X T PROVE Next1(p[2], p[1]) \in T
    BY PutType
  <2> QED BY <2>1
<1>3. \E f : f = Def(f)
  <2>1. {<<>>} \in T  OBVIOUS
  <2>2. PICK g \in [0..N -> T] : g[0] = {<<>>} /\ \A n \in 1..N : g[n] = step[<<n, g[n - 1]>>]
    <3> DEFINE base == {<<>>}
    <3>1. base \in T  BY <2>1
    <3> HIDE DEF N, T, step, Next1, Def, base
    <3>2. \E g : LoopOf(g, N, T, base, step)  BY <1>1, <1>2, <3>1, LoopExists
    <3> QED BY <3>2 DEF base, LoopOf
  <2>3. ASSUME NEW n \in 0..N PROVE g[n] = IF n = 0 THEN {<<>>} ELSE Next1(g[n - 1], n)
    <3>1. CASE n = 0  BY <3>1, <2>2
    <3>2. CASE n # 0
      <4>1. n \in 1..N /\ n - 1 \in 0..N  BY <3>2, <1>1
      <4>2. g[n - 1] \in T  BY <4>1
      <4>3. <<n, g[n - 1]>> \in (1..N) \X T  BY <4>1, <4>2
      <4>4. step[<<n, g[n - 1]>>] = Next1(g[n - 1], n)  BY <4>3
      <4> HIDE DEF step, Next1
      <4> QED BY <2>2, <4>1, <4>4, <3>2
    <3> QED BY <3>1, <3>2
  <2>4. g = Def(g)
    <3> HIDE DEF Next1
    <3> QED BY <2>3
  <2> QED BY <2>4
<1>4. listed = Def(listed)
  <2> HIDE DEF Def
  <2> QED BY <1>3
<1>5. listed[0] = {<<>>} /\ \A n \in 1..N : listed[n] = Next1(listed[n - 1], n)
  <2> HIDE DEF listed, Next1
  <2>1. 0 \in 0..N  BY <1>1
  <2>2. \A n \in 1..N : n \in 0..N /\ n # 0  BY <1>1
  <2> HIDE DEF N
  <2>3. \A n \in 0..N : listed[n] = IF n = 0 THEN {<<>>} ELSE Next1(listed[n - 1], n)
    BY <1>4
  <2> QED BY <2>1, <2>2, <2>3
<1> DEFINE One(n) == \E list : listed[n] = {list} /\ Listing(list, n, keys, ranks)
           S == {n \in Nat : n <= N => One(n)}
<1>6. 0 \in S
  <2>1. Listing(<<>>, 0, keys, ranks)  BY DEF Listing
  <2> HIDE DEF listed
  <2> QED BY <2>1, <1>5
<1>7. ASSUME NEW n \in Nat, n \in S PROVE n + 1 \in S
  <2> HIDE DEF listed
  <2> SUFFICES ASSUME n + 1 <= N PROVE One(n + 1)
    <3> HIDE DEF One
    <3> QED OBVIOUS
  <2>1. PICK list : listed[n] = {list} /\ Listing(list, n, keys, ranks)  BY <1>7
  <2>2. Listing(Put(list, n + 1, keys, ranks), n + 1, keys, ranks)
    <3>1. n \in 0..(N - 1)  OBVIOUS
    <3> HIDE DEF N
    <3> QED BY <3>1, <1>1, <2>1, PutListing DEF N
  <2>3. listed[n + 1] = Next1(listed[n], n + 1)
    <3>1. n + 1 \in 1..N /\ (n + 1) - 1 = n  OBVIOUS
    <3> HIDE DEF Next1, N
    <3> QED BY <3>1, <1>5
  <2>4. listed[n + 1] = {Put(list, n + 1, keys, ranks)}  BY <2>1, <2>3
  <2> QED BY <2>2, <2>4
<1>8. N \in S
  <2> HIDE DEF S, N
  <2> QED BY <1>1, <1>6, <1>7, SetInduction
<1>9. One(N)
  <2> HIDE DEF One, N
  <2> QED BY <1>8, <1>1
<1>10. Survivors(keys, ranks) = CHOOSE list \in listed[N] : TRUE
  BY DEF Survivors
<1> HIDE DEF listed
<1> QED BY <1>9, <1>10

-----------------------------------------------------------------------------
(* Concatenation and filtering of lists.                                   *)

\* The values FlattenSeq's fold takes.
FlatOf(g, ss, S) ==
    /\ g \in [0..Len(ss) -> Seq(S)]
    /\ g[0] = <<>>
    /\ \A n \in 1..Len(ss) : g[n] = g[n - 1] \o ss[n]

\* FlattenSeq unfolds to a loop that concatenates one list per round.
LEMMA FlattenLoop ==
  ASSUME NEW S, NEW ss \in Seq(Seq(S))
  PROVE  \E g : FlatOf(g, ss, S) /\ FlattenSeq(ss) = g[Len(ss)]
<1> DEFINE N == Len(ss)
           T == Seq(S)
           step == [p \in (1..N) \X T |-> p[2] \o ss[p[1]]]
           Def(f) == [i \in 1..N |-> IF i = 1 THEN ss[i] ELSE f[i - 1] \o ss[i]]
           flat == CHOOSE f : f = Def(f)
<1>1. N \in Nat /\ \A n \in 1..N : ss[n] \in T  OBVIOUS
<1>2. step \in [(1..N) \X T -> T]
  <2>1. \A p \in (1..N) \X T : p[2] \o ss[p[1]] \in T  BY <1>1
  <2> HIDE DEF N, T
  <2> QED BY <2>1
<1>3. PICK g : LoopOf(g, N, T, <<>>, step)
  <2>1. <<>> \in T  OBVIOUS
  <2> HIDE DEF N, T, step, Def, flat
  <2> QED BY <1>1, <1>2, <2>1, LoopExists
<1>4. FlatOf(g, ss, S)
  <2>1. ASSUME NEW n \in 1..N PROVE g[n] = g[n - 1] \o ss[n]
    <3>0. n - 1 \in 0..N  BY <1>1
    <3>1. g[n - 1] \in T
      <4> HIDE DEF T, N, step
      <4> QED BY <3>0, <1>3 DEF LoopOf
    <3>2. <<n, g[n - 1]>> \in (1..N) \X T  BY <3>1
    <3> QED BY <3>2, <1>3 DEF LoopOf
  <2> QED BY <2>1, <1>3 DEF LoopOf, FlatOf
<1>5. CASE N = 0
  <2>1. ss = <<>>  BY <1>5
  <2>2. FlattenSeq(ss) = <<>>  BY <2>1, <1>5 DEF FlattenSeq
  <2> QED BY <1>4, <2>2, <1>5 DEF FlatOf
<1>6. CASE N # 0
  <2>1. [i \in 1..N |-> g[i]] = Def([i \in 1..N |-> g[i]])
    <3> DEFINE h == [i \in 1..N |-> g[i]]
    <3> SUFFICES ASSUME NEW i \in 1..N
                 PROVE  h[i] = IF i = 1 THEN ss[i] ELSE h[i - 1] \o ss[i]
      OBVIOUS
    <3>1. CASE i = 1
      <4>0. 1 \in 1..Len(ss) /\ 1 - 1 = 0  BY <3>1
      <4>1. g[1] = <<>> \o ss[1]  BY <1>4, <4>0 DEF FlatOf
      <4>2. ss[1] \in Seq(S)  BY <3>1
      <4> QED BY <4>1, <4>2, <3>1, ConcatEmptySeq
    <3>2. CASE i # 1
      <4>1. i - 1 \in 1..N  BY <3>2, <1>1
      <4> QED BY <4>1, <3>2, <1>4 DEF FlatOf
    <3> QED BY <3>1, <3>2
  <2>2. flat = Def(flat)
    <3> HIDE DEF Def
    <3> QED BY <2>1
  <2>3. \A i \in 1..N : flat[i] = IF i = 1 THEN ss[i] ELSE flat[i - 1] \o ss[i]
    <3> HIDE DEF flat
    <3> QED BY <2>2
  <2>4. \A i \in 1..N : flat[i] = g[i]
    <3> DEFINE A == {n \in Nat : n \in 1..N => flat[n] = g[n]}
    <3> HIDE DEF flat
    <3>1. 0 \in A  OBVIOUS
    <3>2. ASSUME NEW n \in Nat, n \in A PROVE n + 1 \in A
      <4> SUFFICES ASSUME n + 1 \in 1..N PROVE flat[n + 1] = g[n + 1]  OBVIOUS
      <4>1. CASE n = 0
        <5>1. flat[1] = ss[1]  BY <4>1, <2>3
        <5>0. 1 \in 1..Len(ss) /\ 1 - 1 = 0  BY <4>1
        <5>2. g[1] = <<>> \o ss[1]  BY <1>4, <5>0 DEF FlatOf
        <5>3. ss[1] \in Seq(S)  BY <4>1
        <5> QED BY <5>1, <5>2, <5>3, <4>1, ConcatEmptySeq
      <4>2. CASE n # 0
        <5>1. n \in 1..N /\ (n + 1) - 1 = n /\ n + 1 # 1  BY <4>2, <1>1
        <5>2. flat[n] = g[n]  BY <3>2, <5>1
        <5>3. flat[n + 1] = flat[n] \o ss[n + 1]  BY <2>3, <5>1
        <5>4. g[n + 1] = g[n] \o ss[n + 1]  BY <1>4, <5>1 DEF FlatOf
        <5> QED BY <5>2, <5>3, <5>4
      <4> QED BY <4>1, <4>2
    <3> HIDE DEF A
    <3>3. \A n \in Nat : n \in A  BY <3>1, <3>2, SetInduction
    <3> QED BY <3>3, <1>1 DEF A
  <2>5. FlattenSeq(ss) = flat[N]  BY <1>6 DEF FlattenSeq
  <2> HIDE DEF flat
  <2> QED BY <2>4, <2>5, <1>4, <1>6, <1>1
<1> QED BY <1>5, <1>6

\* To flatten two lists of lists end to end is to flatten each.
LEMMA FlattenConcat ==
  ASSUME NEW S, NEW s \in Seq(Seq(S)), NEW t \in Seq(Seq(S))
  PROVE  FlattenSeq(s \o t) = FlattenSeq(s) \o FlattenSeq(t)
<1> DEFINE u == s \o t
<1>1. u \in Seq(Seq(S)) /\ Len(u) = Len(s) + Len(t) /\ Len(s) \in Nat /\ Len(t) \in Nat  OBVIOUS
<1>2. \A i \in 1..Len(s) : u[i] = s[i]  OBVIOUS
<1>3. \A i \in 1..Len(t) : u[Len(s) + i] = t[i]  OBVIOUS
<1> HIDE DEF u
<1>4. PICK g : FlatOf(g, s, S) /\ FlattenSeq(s) = g[Len(s)]  BY FlattenLoop
<1>5. PICK h : FlatOf(h, t, S) /\ FlattenSeq(t) = h[Len(t)]  BY FlattenLoop
<1>6. PICK f : FlatOf(f, u, S) /\ FlattenSeq(u) = f[Len(u)]  BY <1>1, FlattenLoop
<1>7. \A n \in Nat : n \in {m \in Nat : m <= Len(s) => f[m] = g[m]}
  <2> DEFINE A == {m \in Nat : m <= Len(s) => f[m] = g[m]}
  <2>1. 0 \in A  BY <1>4, <1>6 DEF FlatOf
  <2>2. ASSUME NEW n \in Nat, n \in A PROVE n + 1 \in A
    <3> SUFFICES ASSUME n + 1 <= Len(s) PROVE f[n + 1] = g[n + 1]  OBVIOUS
    <3>1. n + 1 \in 1..Len(s) /\ n + 1 \in 1..Len(u) /\ (n + 1) - 1 = n  BY <1>1
    <3>2. f[n + 1] = f[n] \o u[n + 1]  BY <1>6, <3>1 DEF FlatOf
    <3>3. g[n + 1] = g[n] \o s[n + 1]  BY <1>4, <3>1 DEF FlatOf
    <3>4. f[n] = g[n]  BY <2>2, <3>1
    <3>5. u[n + 1] = s[n + 1]  BY <1>2, <3>1
    <3> QED BY <3>2, <3>3, <3>4, <3>5
  <2> HIDE DEF A
  <2> QED BY <2>1, <2>2, SetInduction DEF A
<1>8. f[Len(s)] = g[Len(s)]
  <2>1. Len(s) \in {m \in Nat : m <= Len(s) => f[m] = g[m]}  BY <1>7, <1>1
  <2> QED BY <2>1, <1>1
<1>9. g[Len(s)] \in Seq(S)
  <2>1. Len(s) \in 0..Len(s)  BY <1>1
  <2> QED BY <2>1, <1>4 DEF FlatOf
<1> DEFINE P(m) == f[Len(s) + m] = g[Len(s)] \o h[m]
           B == {m \in Nat : m <= Len(t) => P(m)}
<1>10. 0 \in B
  <2>1. g[Len(s)] \o h[0] = g[Len(s)]  BY <1>5, <1>9, ConcatEmptySeq DEF FlatOf
  <2>2. Len(s) + 0 = Len(s)  BY <1>1
  <2> QED BY <2>1, <2>2, <1>8
<1>11. ASSUME NEW n \in Nat, n \in B PROVE n + 1 \in B
  <2> SUFFICES ASSUME n + 1 <= Len(t) PROVE P(n + 1)
    <3> HIDE DEF P
    <3> QED OBVIOUS
  <2>1. n + 1 \in 1..Len(t) /\ Len(s) + (n + 1) \in 1..Len(u) /\ (n + 1) - 1 = n
        /\ (Len(s) + (n + 1)) - 1 = Len(s) + n /\ n \in 0..Len(t) /\ n <= Len(t)
    BY <1>1
  <2>2. f[Len(s) + (n + 1)] = f[Len(s) + n] \o t[n + 1]  BY <1>3, <1>6, <2>1 DEF FlatOf
  <2>3. h[n + 1] = h[n] \o t[n + 1]  BY <1>5, <2>1 DEF FlatOf
  <2>4. P(n)
    <3> HIDE DEF P
    <3> QED BY <1>11, <2>1
  <2>5. h[n] \in Seq(S)  BY <1>5, <2>1 DEF FlatOf
  <2>6. t[n + 1] \in Seq(S)  BY <2>1
  <2>7. (g[Len(s)] \o h[n]) \o t[n + 1] = g[Len(s)] \o (h[n] \o t[n + 1])
    <3> DEFINE a == g[Len(s)]
               b == h[n]
               c == t[n + 1]
    <3>1. a \in Seq(S) /\ b \in Seq(S) /\ c \in Seq(S)  BY <2>5, <2>6, <1>9
    <3> HIDE DEF a, b, c
    <3>2. (a \o b) \o c = a \o (b \o c)  BY <3>1, ConcatAssociative, SMTT(60)
    <3> QED BY <3>2 DEF a, b, c
  <2> QED BY <2>2, <2>3, <2>4, <2>7
<1>12. P(Len(t))
  <2> HIDE DEF B
  <2>1. Len(t) \in B  BY <1>10, <1>11, <1>1, SetInduction
  <2> HIDE DEF P
  <2> QED BY <2>1, <1>1 DEF B
<1> QED BY <1>12, <1>4, <1>5, <1>6, <1>1 DEF u

\* FlattenSeq of one list and of none.
LEMMA FlattenSmall ==
  ASSUME NEW S, NEW a \in Seq(S)
  PROVE  FlattenSeq(<<a>>) = a /\ FlattenSeq(<<>>) = <<>>
<1>1. PICK g : FlatOf(g, <<a>>, S) /\ FlattenSeq(<<a>>) = g[Len(<<a>>)]
  <2>1. <<a>> \in Seq(Seq(S))  OBVIOUS
  <2> QED BY <2>1, FlattenLoop
<1>2. Len(<<a>>) = 1 /\ <<a>>[1] = a  OBVIOUS
<1>3. 1 \in 1..Len(<<a>>) /\ 1 - 1 = 0  BY <1>2
<1>4. g[1] = <<>> \o a  BY <1>1, <1>2, <1>3 DEF FlatOf
<1>5. FlattenSeq(<<a>>) = a  BY <1>1, <1>2, <1>4, ConcatEmptySeq
<1>6. FlattenSeq(<<>>) = <<>>  BY DEF FlattenSeq
<1> QED BY <1>5, <1>6

\* To flatten lists over a set gives a list over the set.
LEMMA FlattenType ==
  ASSUME NEW S, NEW ss \in Seq(Seq(S))
  PROVE  FlattenSeq(ss) \in Seq(S)
<1>1. PICK g : FlatOf(g, ss, S) /\ FlattenSeq(ss) = g[Len(ss)]  BY FlattenLoop
<1>2. Len(ss) \in 0..Len(ss)  OBVIOUS
<1> QED BY <1>1, <1>2 DEF FlatOf

\* The elements and the first element of two lists end to end.
LEMMA ConcatFacts ==
  ASSUME NEW S, NEW a \in Seq(S), NEW b \in Seq(S)
  PROVE  /\ ToSet(a \o b) = ToSet(a) \cup ToSet(b)
         /\ Len(a) > 0 => Len(a \o b) > 0 /\ (a \o b)[1] = a[1]
<1>1. Len(a) \in Nat /\ Len(b) \in Nat /\ Len(a \o b) = Len(a) + Len(b)
      /\ DOMAIN (a \o b) = 1..(Len(a) + Len(b))
  OBVIOUS
<1>2. \A x \in ToSet(a \o b) : x \in ToSet(a) \cup ToSet(b)  BY <1>1 DEF ToSet
<1>3. \A x \in ToSet(a) : x \in ToSet(a \o b)
  <2> TAKE x \in ToSet(a)
  <2>1. PICK i \in DOMAIN a : x = a[i]  BY DEF ToSet
  <2>2. i \in 1..(Len(a) + Len(b)) /\ (a \o b)[i] = a[i]  BY <1>1, <2>1
  <2> QED BY <1>1, <2>1, <2>2 DEF ToSet
<1>4. \A x \in ToSet(b) : x \in ToSet(a \o b)
  <2> TAKE x \in ToSet(b)
  <2>1. PICK i \in DOMAIN b : x = b[i]  BY DEF ToSet
  <2>2. Len(a) + i \in 1..(Len(a) + Len(b)) /\ (a \o b)[Len(a) + i] = b[i]  BY <1>1, <2>1
  <2> QED BY <1>1, <2>1, <2>2 DEF ToSet
<1>5. Len(a) > 0 => Len(a \o b) > 0 /\ (a \o b)[1] = a[1]  BY <1>1
<1> QED BY <1>2, <1>3, <1>4, <1>5

\* The first element of the first list, when it has one, comes first.
LEMMA FlattenFirst ==
  ASSUME NEW S, NEW ss \in Seq(Seq(S)), 1 \in DOMAIN ss, Len(ss[1]) > 0
  PROVE  Len(FlattenSeq(ss)) > 0 /\ FlattenSeq(ss)[1] = ss[1][1]
<1>1. PICK g : FlatOf(g, ss, S) /\ FlattenSeq(ss) = g[Len(ss)]  BY FlattenLoop
<1>2. DOMAIN ss = 1..Len(ss) /\ Len(ss) \in Nat /\ ss[1] \in Seq(S)  OBVIOUS
<1> DEFINE P(m) == Len(g[m]) > 0 /\ g[m][1] = ss[1][1]
           A == {m \in Nat : m \in 1..Len(ss) => P(m)}
<1>3. 0 \in A  OBVIOUS
<1>4. ASSUME NEW m \in Nat, m \in A PROVE m + 1 \in A
  <2> SUFFICES ASSUME m + 1 \in 1..Len(ss) PROVE P(m + 1)
    <3> HIDE DEF P
    <3> QED OBVIOUS
  <2>1. (m + 1) - 1 = m /\ m \in 0..Len(ss)  BY <1>2
  <2>2. g[m + 1] = g[m] \o ss[m + 1]  BY <1>1, <2>1 DEF FlatOf
  <2>3. g[m] \in Seq(S)  BY <1>1, <2>1 DEF FlatOf
  <2>4. ss[m + 1] \in Seq(S)  OBVIOUS
  <2>5. CASE m = 0
    <3>1. g[m] = <<>>  BY <1>1, <2>5 DEF FlatOf
    <3>2. g[m + 1] = ss[1]  BY <2>2, <3>1, <2>5, <1>2, ConcatEmptySeq
    <3> QED BY <3>2
  <2>6. CASE m # 0
    <3>1. m \in 1..Len(ss)  BY <2>1, <2>6
    <3>2. P(m)
      <4> HIDE DEF P
      <4> QED BY <1>4, <3>1
    <3> DEFINE a == g[m]
               b == ss[m + 1]
    <3>3. a \in Seq(S) /\ b \in Seq(S) /\ Len(a) > 0 /\ g[m + 1] = a \o b /\ a[1] = ss[1][1]
      BY <2>2, <2>3, <2>4, <3>2
    <3> HIDE DEF a, b
    <3>4. Len(a \o b) > 0 /\ (a \o b)[1] = a[1]  BY <3>3, ConcatFacts
    <3> QED BY <3>3, <3>4
  <2> QED BY <2>5, <2>6
<1>5. P(Len(ss))
  <2> HIDE DEF A
  <2>1. Len(ss) \in A  BY <1>2, <1>3, <1>4, SetInduction
  <2> HIDE DEF P
  <2>2. Len(ss) \in 1..Len(ss)  BY <1>2
  <2> QED BY <2>1, <2>2 DEF A
<1> QED BY <1>1, <1>5

\* To flatten loses no element and adds none.
LEMMA FlattenMember ==
  ASSUME NEW S, NEW ss \in Seq(Seq(S))
  PROVE  /\ \A n \in DOMAIN ss : ToSet(ss[n]) \subseteq ToSet(FlattenSeq(ss))
         /\ \A x \in ToSet(FlattenSeq(ss)) : \E n \in DOMAIN ss : x \in ToSet(ss[n])
<1>1. PICK g : FlatOf(g, ss, S) /\ FlattenSeq(ss) = g[Len(ss)]  BY FlattenLoop
<1> DEFINE P(m) == ToSet(g[m]) = UNION {ToSet(ss[n]) : n \in 1..m}
           A == {m \in Nat : m <= Len(ss) => P(m)}
<1>2. 0 \in A
  <2>1. ToSet(g[0]) = {}  BY <1>1 DEF FlatOf, ToSet
  <2> QED BY <2>1
<1>3. ASSUME NEW m \in Nat, m \in A PROVE m + 1 \in A
  <2> SUFFICES ASSUME m + 1 <= Len(ss) PROVE P(m + 1)
    <3> HIDE DEF P
    <3> QED OBVIOUS
  <2>1. m + 1 \in 1..Len(ss) /\ (m + 1) - 1 = m /\ m \in 0..Len(ss) /\ m <= Len(ss)  OBVIOUS
  <2>2. P(m)
    <3> HIDE DEF P
    <3> QED BY <1>3, <2>1
  <2>3. g[m + 1] = g[m] \o ss[m + 1]  BY <1>1, <2>1 DEF FlatOf
  <2>4. g[m] \in Seq(S) /\ ss[m + 1] \in Seq(S)
    <3>1. ss[m + 1] \in Seq(S)  BY <2>1
    <3>2. g[m] \in Seq(S)  BY <1>1, <2>1 DEF FlatOf
    <3> QED BY <3>1, <3>2
  <2>5. ToSet(g[m + 1]) = ToSet(g[m]) \cup ToSet(ss[m + 1])  BY <2>3, <2>4, ConcatFacts
  <2>6. 1..(m + 1) = (1..m) \cup {m + 1}  OBVIOUS
  <2> QED BY <2>2, <2>5, <2>6
<1>4. P(Len(ss))
  <2> HIDE DEF A
  <2>1. Len(ss) \in A  BY <1>2, <1>3, SetInduction
  <2> HIDE DEF P
  <2> QED BY <2>1 DEF A
<1>5. DOMAIN ss = 1..Len(ss)  OBVIOUS
<1> QED BY <1>1, <1>4, <1>5

\* Without drops exactly the elements named, and keeps the first in front.
LEMMA WithoutFacts ==
  ASSUME NEW S, NEW s \in Seq(S), NEW drop
  PROVE  /\ Without(s, drop) \in Seq(S)
         /\ ToSet(Without(s, drop)) = ToSet(s) \ drop
         /\ Len(s) > 0 /\ s[1] \notin drop =>
               Len(Without(s, drop)) > 0 /\ Without(s, drop)[1] = s[1]
<1> DEFINE ss == [i \in DOMAIN s |-> IF s[i] \in drop THEN <<>> ELSE <<s[i]>>]
<1>1. DOMAIN s = 1..Len(s) /\ Len(s) \in Nat /\ \A i \in DOMAIN s : s[i] \in S  OBVIOUS
<1>2. ss \in Seq(Seq(S)) /\ Len(ss) = Len(s) /\ DOMAIN ss = DOMAIN s
  <2>1. \A i \in DOMAIN s : ss[i] \in Seq(S)  BY <1>1
  <2>2. ss \in [1..Len(s) -> Seq(S)]  BY <1>1, <2>1
  <2> HIDE DEF ss
  <2> QED BY <1>1, <2>2, SeqDef
<1>3. Without(s, drop) = FlattenSeq(ss)  BY DEF Without
<1>4. \A i \in DOMAIN s : ToSet(ss[i]) = {s[i]} \ drop
  <2> TAKE i \in DOMAIN s
  <2>1. CASE s[i] \in drop
    <3>1. ss[i] = <<>>  BY <2>1
    <3> HIDE DEF ss
    <3> QED BY <2>1, <3>1 DEF ToSet
  <2>2. CASE s[i] \notin drop
    <3>1. ss[i] = <<s[i]>>  BY <2>2
    <3> HIDE DEF ss
    <3>2. ToSet(<<s[i]>>) = {s[i]}  BY DEF ToSet
    <3> QED BY <2>2, <3>1, <3>2
  <2> QED BY <2>1, <2>2
<1> HIDE DEF ss
<1>5. Without(s, drop) \in Seq(S)  BY <1>2, <1>3, FlattenType
<1>6. ToSet(Without(s, drop)) = ToSet(s) \ drop
  <2>1. \A n \in DOMAIN ss : ToSet(ss[n]) \subseteq ToSet(FlattenSeq(ss))  BY <1>2, FlattenMember
  <2>2. \A x \in ToSet(FlattenSeq(ss)) : \E n \in DOMAIN ss : x \in ToSet(ss[n])
    BY <1>2, FlattenMember
  <2>3. ToSet(s) = {s[i] : i \in DOMAIN s}  BY DEF ToSet
  <2>4. \A x \in ToSet(FlattenSeq(ss)) : x \in ToSet(s) \ drop  BY <2>2, <2>3, <1>2, <1>4
  <2>5. \A x \in ToSet(s) \ drop : x \in ToSet(FlattenSeq(ss))
    <3> TAKE x \in ToSet(s) \ drop
    <3>1. PICK i \in DOMAIN s : x = s[i]  BY <2>3
    <3>2. x \in ToSet(ss[i])  BY <3>1, <1>4
    <3> QED BY <3>2, <2>1, <1>2
  <2> QED BY <2>4, <2>5, <1>3
<1>7. ASSUME Len(s) > 0, s[1] \notin drop
      PROVE  Len(Without(s, drop)) > 0 /\ Without(s, drop)[1] = s[1]
  <2>1. ss[1] = <<s[1]>>  BY <1>7, <1>1 DEF ss
  <2>2. Len(ss[1]) = 1 /\ ss[1][1] = s[1]  BY <2>1
  <2>3. 1 \in DOMAIN ss  BY <1>7, <1>1, <1>2
  <2> QED BY <1>2, <1>3, <2>2, <2>3, FlattenFirst
<1> QED BY <1>5, <1>6, <1>7

-----------------------------------------------------------------------------
(* The merges.                                                             *)

\* Merged is the entries at the positions of a listing.
LEMMA MergedFacts ==
  ASSUME NEW S, NEW s \in Seq(S), NEW K, NEW keys \in Seq(K), Len(keys) = Len(s),
         NEW ranks \in [1..Len(s) -> Int]
  PROVE  \E best \in Seq(DOMAIN s) :
           /\ Listing(best, Len(s), keys, ranks)
           /\ Merged(s, keys, ranks) = [i \in DOMAIN best |-> s[best[i]]]
           /\ Merged(s, keys, ranks) \in Seq(S)
           /\ Len(Merged(s, keys, ranks)) = Len(best)
           /\ DOMAIN best = 1..Len(best)
           /\ Len(best) \in Nat
<1> DEFINE best == Survivors(keys, ranks)
           M == [i \in DOMAIN best |-> s[best[i]]]
<1>1. Listing(best, Len(s), keys, ranks)  BY SurvivorsListing
<1>2. Merged(s, keys, ranks) = M  BY DEF Merged
<1>3. Len(s) \in Nat /\ DOMAIN s = 1..Len(s) /\ \A i \in DOMAIN s : s[i] \in S  OBVIOUS
<1> HIDE DEF best
<1>4. best \in Seq(DOMAIN s)  BY <1>1, <1>3 DEF Listing
<1>5. DOMAIN best = 1..Len(best) /\ Len(best) \in Nat /\ \A i \in DOMAIN best : best[i] \in DOMAIN s
  BY <1>4
<1>6. M \in [1..Len(best) -> S]  BY <1>3, <1>5
<1> HIDE DEF M
<1>7. M \in Seq(S) /\ Len(M) = Len(best)  BY <1>5, <1>6, SeqDef
<1> QED BY <1>1, <1>2, <1>4, <1>5, <1>7 DEF M

\* Merged invents no entry, is empty only for no entries, and has as many
\* entries as there are keys.
LEMMA MergedMembers ==
  ASSUME NEW S, NEW s \in Seq(S), NEW K, NEW keys \in Seq(K), Len(keys) = Len(s),
         NEW ranks \in [1..Len(s) -> Int]
  PROVE  /\ Merged(s, keys, ranks) \in Seq(S)
         /\ ToSet(Merged(s, keys, ranks)) \subseteq ToSet(s)
         /\ s = <<>> <=> Merged(s, keys, ranks) = <<>>
         /\ Len(Merged(s, keys, ranks)) = Cardinality(ToSet(keys))
<1> DEFINE M == Merged(s, keys, ranks)
           Ks == ToSet(keys)
<1>1. PICK best \in Seq(DOMAIN s) :
         /\ Listing(best, Len(s), keys, ranks)
         /\ M = [i \in DOMAIN best |-> s[best[i]]]
         /\ M \in Seq(S) /\ Len(M) = Len(best)
         /\ DOMAIN best = 1..Len(best) /\ Len(best) \in Nat
  BY MergedFacts
<1>2. Len(s) \in Nat /\ DOMAIN s = 1..Len(s) /\ \A i \in DOMAIN best : best[i] \in DOMAIN s  OBVIOUS
<1> HIDE DEF M
<1>7. Ks = {keys[i] : i \in DOMAIN s}
  <2>1. DOMAIN keys = DOMAIN s  BY <1>2
  <2> QED BY <2>1 DEF ToSet
<1> HIDE DEF Ks
<1>3. ToSet(M) \subseteq ToSet(s)
  <2>1. \A i \in DOMAIN M : i \in DOMAIN best /\ M[i] = s[best[i]]  BY <1>1
  <2> QED BY <2>1, <1>2 DEF ToSet
<1>4. s = <<>> => M = <<>>
  <2> SUFFICES ASSUME s = <<>> PROVE M = <<>>  OBVIOUS
  <2>1. DOMAIN s = {}  BY <1>2
  <2>2. DOMAIN best = {}  BY <2>1, <1>2
  <2>3. Len(M) = 0  BY <2>2, <1>1
  <2> QED BY <2>3, <1>1
<1>5. M = <<>> => s = <<>>
  <2> SUFFICES ASSUME M = <<>>, s # <<>> PROVE FALSE  OBVIOUS
  <2>1. Len(best) = 0  BY <1>1
  <2>2. 1 \in 1..Len(s)  BY <1>2
  <2>3. \E i \in DOMAIN best : keys[best[i]] = keys[1]  BY <2>2, <1>1 DEF Listing
  <2> QED BY <2>1, <2>3, <1>1
<1>6. Len(best) = Cardinality(Ks)
  <2> DEFINE f == [i \in 1..Len(best) |-> keys[best[i]]]
  <2>1. \A i \in 1..Len(best) : f[i] \in Ks  BY <1>1, <1>2, <1>7
  <2>2. f \in [1..Len(best) -> Ks]
    <3> HIDE DEF Ks
    <3> QED BY <2>1
  <2>3. \A i, j \in 1..Len(best) : f[i] = f[j] => i = j  BY <1>1 DEF Listing
  <2>4. \A k \in Ks : \E i \in 1..Len(best) : f[i] = k
    <3> TAKE k \in Ks
    <3>1. PICK n \in 1..Len(s) : k = keys[n]  BY <1>2, <1>7
    <3>2. PICK i \in DOMAIN best : keys[best[i]] = keys[n]  BY <3>1, <1>1 DEF Listing
    <3> QED BY <3>1, <3>2, <1>1
  <2> HIDE DEF f, Ks
  <2>5. f \in Bijection(1..Len(best), Ks)
    BY <2>2, <2>3, <2>4 DEF Bijection, Injection, Surjection, IsInjective
  <2>6. IsFiniteSet(1..Len(best)) /\ Cardinality(1..Len(best)) = Len(best)
    <3>1. 1 \in Int /\ Len(best) \in Int /\ Len(best) \in Nat  BY <1>1
    <3>2. Cardinality(1..Len(best)) = IF 1 > Len(best) THEN 0 ELSE Len(best) - 1 + 1
      BY <3>1, FS_Interval
    <3>3. (IF 1 > Len(best) THEN 0 ELSE Len(best) - 1 + 1) = Len(best)  BY <3>1
    <3>4. IsFiniteSet(1..Len(best))  BY <3>1, FS_Interval
    <3> QED BY <3>2, <3>3, <3>4
  <2> QED BY <2>5, <2>6, FS_Bijection DEF ExistsBijection
<1> QED BY <1>1, <1>3, <1>4, <1>5, <1>6 DEF M, Ks

\* Distinct has the same elements, each once, with the first still in front
\* (extract_urls, extract_emails and _collect_emails).
LEMMA DistinctFacts ==
  ASSUME NEW S, NEW s \in Seq(S)
  PROVE  /\ Distinct(s) \in Seq(S)
         /\ \A i, j \in DOMAIN Distinct(s) : Distinct(s)[i] = Distinct(s)[j] => i = j
         /\ ToSet(Distinct(s)) = ToSet(s)
         /\ Len(s) > 0 => Len(Distinct(s)) > 0 /\ Distinct(s)[1] = s[1]
<1> DEFINE D == Distinct(s)
<1>0. D = Merged(s, s, Unranked(s))
  <2>1. {Merged(t, t, Unranked(t)) : t \in {s}} = {Merged(s, s, Unranked(s))}  OBVIOUS
  <2> QED BY <2>1 DEF Distinct
<1>1. Unranked(s) \in [1..Len(s) -> Int]  BY DEF Unranked
<1>2. PICK best \in Seq(DOMAIN s) :
         /\ Listing(best, Len(s), s, Unranked(s))
         /\ D = [i \in DOMAIN best |-> s[best[i]]]
         /\ D \in Seq(S) /\ Len(D) = Len(best)
         /\ DOMAIN best = 1..Len(best) /\ Len(best) \in Nat
  <2> HIDE DEF D
  <2> QED BY <1>0, <1>1, MergedFacts
<1>3. Len(s) \in Nat /\ DOMAIN s = 1..Len(s) /\ \A i \in DOMAIN best : best[i] \in DOMAIN s  OBVIOUS
<1> HIDE DEF D
<1>4. DOMAIN D = DOMAIN best /\ \A i \in DOMAIN best : D[i] = s[best[i]]  BY <1>2
<1>5. \A i, j \in DOMAIN D : D[i] = D[j] => i = j  BY <1>2, <1>4 DEF Listing
<1>6. ToSet(D) = ToSet(s)
  <2>1. \A x \in ToSet(D) : x \in ToSet(s)  BY <1>3, <1>4 DEF ToSet
  <2>2. \A x \in ToSet(s) : x \in ToSet(D)
    <3> TAKE x \in ToSet(s)
    <3>1. PICK n \in 1..Len(s) : x = s[n]  BY <1>3 DEF ToSet
    <3>2. PICK i \in DOMAIN best : s[best[i]] = s[n]  BY <3>1, <1>2 DEF Listing
    <3> QED BY <3>1, <3>2, <1>4 DEF ToSet
  <2> QED BY <2>1, <2>2
<1>7. Len(s) > 0 => Len(D) > 0 /\ D[1] = s[1]
  <2> SUFFICES ASSUME Len(s) > 0 PROVE Len(D) > 0 /\ D[1] = s[1]  OBVIOUS
  <2>1. Len(best) > 0 /\ s[best[1]] = s[1]  BY <1>2 DEF Listing
  <2> QED BY <2>1, <1>2, <1>4
<1> QED BY <1>2, <1>5, <1>6, <1>7 DEF D

-----------------------------------------------------------------------------
(* The inductive invariant.                                                *)

\* What a tier adds to the payloads, and what the verification adds.
Share(t) == IF Dispatched(t) THEN Collected(t) ELSE <<>>

\* What the verification adds: one fragment, when there is a result.
VerifyShare ==
    IF verified = <<>> THEN <<>>
    ELSE <<[Empty EXCEPT !.verified = verified, !.sources = {"email_verify"}]>>

\* The payloads after each stage, in the order _execute appends them.
Shares2 == Share("tier1")
Shares3 == Shares2 \o Share("tier2")
SharesV == Shares3 \o Share("tier3")
Shares4 == SharesV \o VerifyShare
SharesM == Shares4 \o Share("tier4")

\* The stages that come after a tier.
Later ==
    [tier1 |-> {"tier2", "tier3", "verify", "tier4", "merge", "judge", "done"},
     tier2 |-> {"tier3", "verify", "tier4", "merge", "judge", "done"},
     tier3 |-> {"verify", "tier4", "merge", "judge", "done"},
     tier4 |-> {"merge", "judge", "done"}]

\* The place of the pipeline: a tier has answered when the stage is after it,
\* and not before the stage came to it.
Placed(stage) ==
    /\ stage \in DOMAIN Registry => Dispatched(stage)
    /\ stage = "verify" => Dispatched("tier3")
    /\ \A t \in DOMAIN Registry : \A e \in ToSet(Registry[t]) :
          /\ stage \in Later[t] /\ Dispatched(t) => answer[e] # Pending
          /\ ~Dispatched(t) \/ stage \notin Later[t] \cup {t, "failed"} => answer[e] = Pending

PlaceInv == Placed(pc)

\* An answer with something in it names its enricher; none has verdicts.
AnswersInv ==
    \A e \in Enrichers : answer[e] # Pending =>
        /\ answer[e].verified = <<>>
        /\ answer[e] # Empty => answer[e].sources = {e}

\* At each stage the payloads are the shares of the stages passed: nothing
\* is lost, doubled or out of order.
PayloadsInv ==
    /\ pc \in {"submitted", "tier1"} => payloads = <<>>
    /\ pc = "tier2" => payloads = Shares2
    /\ pc = "tier3" => payloads = Shares3
    /\ pc = "verify" => payloads = SharesV
    /\ pc = "tier4" => payloads = Shares4
    /\ pc \in {"merge", "judge", "done"} => payloads = SharesM

\* Addresses are collected once, from the answers of tier 3.
CandidatesInv ==
    /\ pc = "verify" \/ candidates # <<>> =>
          /\ \A e \in ToSet(Registry["tier3"]) : answer[e] # Pending
          /\ candidates = CollectCandidates(Collected("tier3"))
    /\ pc \in {"submitted", "rejected", "tier1", "tier2", "tier3"} \/ ~Dispatched("tier3") =>
          candidates = <<>>

\* The handles judged so far: the sure ones are kept, the kept ones are sure.
JudgedInv ==
    /\ pc \notin {"judge", "done", "failed"} => kept = <<>> /\ dropped = 0 /\ dossier = Empty
    /\ pc = "judge" =>
          dossier = MergePayloads(Join(payloads, "handles"), Join(payloads, "emails"),
                                  Join(payloads, "jobs"), Join(payloads, "verified"))
    /\ pc = "judge" =>
          /\ \A i \in DOMAIN kept : kept[i].conf >= Threshold
          /\ \A i \in 1..Judged : dossier.handles[i].conf >= Threshold =>
                \E k \in DOMAIN kept : Key(kept[k]) = Key(dossier.handles[i])

\* The inductive invariant.
Invariant ==
    /\ TypeOK /\ PlaceInv /\ AnswersInv /\ PayloadsInv /\ CandidatesInv /\ JudgedInv
    /\ VerdictsHold /\ Vouched /\ StatusTruthful

-----------------------------------------------------------------------------
(* What the enrichers return is of its kind.                               *)

\* The empty fragment is one, without verdicts.
LEMMA EmptyTyped == Empty \in Fragment /\ Empty.verified = <<>>
BY DEF Empty, Fragment

\* No fragment is the mark of an enricher that has not answered.
LEMMA FragmentNotPending == ASSUME NEW f \in Fragment PROVE f # Pending
<1>1. DOMAIN f = {"handles", "emails", "jobs", "found", "verified", "sources"}  BY DEF Fragment
<1>2. DOMAIN Pending = {"pending"}  BY DEF Pending
<1>3. "handles" \in DOMAIN f /\ "handles" \notin DOMAIN Pending  BY <1>1, <1>2
<1> QED BY <1>3

\* The parts of a dossier that are there or not.
Found == {"photo", "github", "coworkers", "business"}

\* An answer that is a fragment without verdicts.
Find == {f \in Fragment : f.verified = <<>>}

\* Setting any part but the verdicts keeps an answer an answer.
LEMMA FindTyped ==
  ASSUME NEW f \in Find
  PROVE  /\ \A h \in Seq(HandleRecord) : [f EXCEPT !.handles = h] \in Find
         /\ \A l \in Seq(Email) : [f EXCEPT !.emails = l] \in Find
         /\ \A l \in Seq(JobRecord) : [f EXCEPT !.jobs = l] \in Find
         /\ \A found \in SUBSET Found : [f EXCEPT !.found = found] \in Find
         /\ \A source \in SUBSET Enrichers : [f EXCEPT !.sources = source] \in Find
BY DEF Find, Fragment, Found

\* The parts that the enrichers report.
LEMMA FoundTyped ==
  /\ {} \in SUBSET Found /\ {"photo"} \in SUBSET Found /\ {"github"} \in SUBSET Found
  /\ {"coworkers"} \in SUBSET Found /\ {"business"} \in SUBSET Found
BY DEF Found

\* An enricher that fails answers the empty fragment.
LEMMA EmptyFind == Empty \in Find
BY EmptyTyped DEF Find

\* A fragment of handles alone.
LEMMA HandlesTyped ==
  ASSUME NEW h \in Seq(HandleRecord)
  PROVE  [Empty EXCEPT !.handles = h] \in Find
BY EmptyFind, FindTyped

\* A fragment of e-mails and a part found.
LEMMA EmailsTyped ==
  ASSUME NEW l \in Seq(Email), NEW found \in SUBSET Found
  PROVE  /\ [Empty EXCEPT !.emails = l, !.found = found] \in Find
         /\ [Empty EXCEPT !.emails = l] \in Find
<1>1. [Empty EXCEPT !.emails = l] \in Find  BY EmptyFind, FindTyped
<1>2. [[Empty EXCEPT !.emails = l] EXCEPT !.found = found] \in Find  BY <1>1, FindTyped
<1> QED BY <1>1, <1>2

\* A function on a list's positions with values in a set is a list over it.
LEMMA SeqOfTyped ==
  ASSUME NEW S, NEW T, NEW s \in Seq(S), NEW f, DOMAIN f = DOMAIN s, f = [i \in DOMAIN s |-> f[i]],
         \A i \in DOMAIN s : f[i] \in T
  PROVE  f \in Seq(T) /\ Len(f) = Len(s)
<1>1. DOMAIN s = 1..Len(s) /\ Len(s) \in Nat  OBVIOUS
<1>2. f \in [1..Len(s) -> T]  BY <1>1
<1> QED BY <1>1, <1>2, SeqDef

\* Sherlock and Maigret answer handles whose labels are platforms.
LEMMA CliTyped ==
  ASSUME NEW e \in {"sherlock", "maigret"}, NEW f \in CliFragments(e)
  PROVE  f \in Find
<1>1. PICK out \in Listings : f = [Empty EXCEPT !.handles = UrlsToHandles(e, Distinct(out))]
  BY DEF CliFragments
<1>2. out \in Seq(DOMAIN PlatformOf)  BY DossierAssumption
<1>3. Distinct(out) \in Seq(DOMAIN PlatformOf)  BY <1>2, DistinctFacts
<1> DEFINE urls == Distinct(out)
           h == UrlsToHandles(e, urls)
<1> HIDE DEF urls
<1>4. urls \in Seq(DOMAIN PlatformOf)  BY <1>3 DEF urls
<1>5. \A i \in DOMAIN urls : h[i] \in HandleRecord
  <2> TAKE i \in DOMAIN urls
  <2>1. PlatformOf[urls[i]] \in Platforms  BY <1>4, DossierAssumption
  <2>2. BaseConfidence[e] \in Int  BY DEF BaseConfidence
  <2>3. h[i] = Handle(PlatformOf[urls[i]], "subject", BaseConfidence[e], e)  BY DEF UrlsToHandles
  <2>4. e \in Enrichers  BY DEF Enrichers, Needs
  <2> QED BY <2>1, <2>2, <2>3, <2>4 DEF Handle, HandleRecord
<1>6. DOMAIN h = DOMAIN urls /\ h = [i \in DOMAIN urls |-> h[i]]  BY DEF UrlsToHandles
<1> HIDE DEF h
<1>7. h \in Seq(HandleRecord)  BY <1>4, <1>5, <1>6, SeqOfTyped
<1> QED BY <1>1, <1>7, HandlesTyped DEF h, urls

\* So does Social Analyzer, for the rows it is sure of.
LEMMA AnalyzerTyped ==
  ASSUME NEW rows \in Rows
  PROVE  AnalyzerFragment(rows) \in Find
<1> DEFINE Row == [platform : Platforms, rate : Int, good : BOOLEAN]
           good == Without(rows, {row \in ToSet(rows) : ~row.good})
           h == [i \in DOMAIN good |-> Handle(good[i].platform, "subject", good[i].rate, "social_analyzer")]
<1>1. rows \in Seq(Row)  BY DossierAssumption
<1> HIDE DEF Row
<1>2. good \in Seq(Row)  BY <1>1, WithoutFacts
<1>3. AnalyzerFragment(rows) = [Empty EXCEPT !.handles = h]  BY DEF AnalyzerFragment
<1> HIDE DEF good
<1>4. \A i \in DOMAIN good : h[i] \in HandleRecord
  <2> TAKE i \in DOMAIN good
  <2>1. good[i] \in Row  BY <1>2
  <2>2. good[i].platform \in Platforms /\ good[i].rate \in Int  BY <2>1 DEF Row
  <2>3. "social_analyzer" \in Enrichers  BY DEF Enrichers, Needs
  <2> QED BY <2>2, <2>3 DEF Handle, HandleRecord
<1>5. DOMAIN h = DOMAIN good /\ h = [i \in DOMAIN good |-> h[i]]  OBVIOUS
<1> HIDE DEF h
<1>6. h \in Seq(HandleRecord)  BY <1>2, <1>4, <1>5, SeqOfTyped
<1> QED BY <1>3, <1>6, HandlesTyped

\* E-mails in lower case, once each.
LEMMA LowerTyped == ASSUME NEW l \in Seq(Email) PROVE Distinct(Lower(l)) \in Seq(Email)
<1> DEFINE m == Lower(l)
<1>1. \A i \in DOMAIN l : m[i] \in Email
  <2> TAKE i \in DOMAIN l
  <2>1. l[i] \in Email  OBVIOUS
  <2> QED BY <2>1 DEF Lower, Email
<1>2. DOMAIN m = DOMAIN l /\ m = [i \in DOMAIN l |-> m[i]]  BY DEF Lower
<1> HIDE DEF m
<1>3. m \in Seq(Email)  BY <1>1, <1>2, SeqOfTyped
<1> QED BY <1>3, DistinctFacts DEF m

\* The addresses guessed are e-mails.
LEMMA PlainTyped == Plain(Patterns) \in Seq(Email)
<1> DEFINE m == Plain(Patterns)
<1>0. Patterns \in Seq(STRING)  BY DossierAssumption
<1>1. \A i \in DOMAIN Patterns : m[i] \in Email
  <2> TAKE i \in DOMAIN Patterns
  <2>1. Patterns[i] \in STRING  BY <1>0
  <2> QED BY <2>1 DEF Plain, Email
<1>2. DOMAIN m = DOMAIN Patterns /\ m = [i \in DOMAIN Patterns |-> m[i]]  BY DEF Plain
<1> HIDE DEF m
<1>3. m \in Seq(Email)  BY <1>0, <1>1, <1>2, SeqOfTyped
<1> QED BY <1>3 DEF m

\* GitRecon answers a GitHub handle and e-mails.
LEMMA GitReconTyped ==
  ASSUME NEW login \in {"subject", "renamed"}, NEW l \in Seq(Email)
  PROVE  GitReconFragment(login, l) \in Find
<1> DEFINE h == <<Handle("github", login, BaseConfidence["gitrecon"], "gitrecon")>>
<1>1. Handle("github", login, BaseConfidence["gitrecon"], "gitrecon") \in HandleRecord
  <2>1. "gitrecon" \in Enrichers  BY DEF Enrichers, Needs
  <2>2. BaseConfidence["gitrecon"] \in Int  BY DEF BaseConfidence
  <2>3. "github" \in Platforms  BY DossierAssumption
  <2> QED BY <2>1, <2>2, <2>3 DEF Handle, HandleRecord
<1>2. h \in Seq(HandleRecord)  BY <1>1
<1>3. GitReconFragment(login, l) = [Empty EXCEPT !.handles = h, !.found = {"github"}, !.emails = l]
  BY DEF GitReconFragment
<1> HIDE DEF h
<1>4. [Empty EXCEPT !.handles = h] \in Find  BY <1>2, HandlesTyped
<1>5. [[Empty EXCEPT !.handles = h] EXCEPT !.found = {"github"}] \in Find  BY <1>4, FindTyped, FoundTyped
<1>6. [[[Empty EXCEPT !.handles = h] EXCEPT !.found = {"github"}] EXCEPT !.emails = l] \in Find
  BY <1>5, FindTyped
<1> QED BY <1>3, <1>6

\* Whatever an enricher returns is a fragment without verdicts.
LEMMA FragmentsTyped ==
  ASSUME NEW e \in Enrichers, NEW f \in Fragments(e)
  PROVE  f \in Find
<1>1. CASE e = "linkedin_photo"
  <2>1. f = [Empty EXCEPT !.found = {"photo"}]  BY <1>1 DEF Fragments
  <2> QED BY <2>1, EmptyFind, FindTyped, FoundTyped
<1>2. CASE e \in {"sherlock", "maigret"}
  <2>1. f \in CliFragments(e)  BY <1>2 DEF Fragments
  <2> QED BY <1>2, <2>1, CliTyped
<1>3. CASE e = "social_analyzer"
  <2>1. PICK rows \in Rows : f = AnalyzerFragment(rows)  BY <1>3 DEF Fragments
  <2> QED BY <2>1, AnalyzerTyped
<1>4. CASE e = "gitrecon"
  <2>1. PICK login \in {"subject", "renamed"}, l \in Leaks : f = GitReconFragment(login, l)
    BY <1>4 DEF Fragments
  <2>2. l \in Seq(Email)  BY DossierAssumption
  <2> QED BY <2>1, <2>2, GitReconTyped
<1>5. CASE e = "theharvester"
  <2>1. PICK l \in Harvests : f = [Empty EXCEPT !.emails = Distinct(Lower(l))]  BY <1>5 DEF Fragments
  <2>2. l \in Seq(Email)  BY DossierAssumption
  <2> QED BY <2>1, <2>2, LowerTyped, EmailsTyped, FoundTyped
<1>6. CASE e = "email_discover"
  <2>1. PICK l \in Leaks : f = DiscoverFragment(l)  BY <1>6 DEF Fragments
  <2>2. l \in Seq(Email)  BY DossierAssumption
  <2> QED BY <2>1, <2>2, PlainTyped, EmailsTyped, FoundTyped DEF DiscoverFragment
<1>7. CASE e = "crosslinked"
  <2>1. PICK l \in Harvests : f = CrossLinkedFragment(Distinct(Lower(l)))  BY <1>7 DEF Fragments
  <2>2. Distinct(Lower(l)) \in Seq(Email)  BY DossierAssumption, LowerTyped
  <2> DEFINE found == IF Distinct(Lower(l)) = <<>> THEN {} ELSE {"coworkers"}
  <2>3. found \in SUBSET Found  BY FoundTyped
  <2>4. f = [Empty EXCEPT !.emails = Distinct(Lower(l)), !.found = found]
    BY <2>1 DEF CrossLinkedFragment
  <2> HIDE DEF found
  <2> QED BY <2>2, <2>3, <2>4, EmailsTyped
<1>8. CASE e = "jobspy"
  <2>1. PICK rows \in Postings : f = [Empty EXCEPT !.jobs = rows]  BY <1>8 DEF Fragments
  <2>2. rows \in Seq(JobRecord)  BY DossierAssumption DEF JobRecord
  <2> QED BY <2>1, <2>2, EmptyFind, FindTyped
<1>9. CASE e = "local_business"
  <2>1. f = [Empty EXCEPT !.found = {"business"}]  BY <1>9 DEF Fragments
  <2> QED BY <2>1, EmptyFind, FindTyped, FoundTyped
<1> QED BY <1>1, <1>2, <1>3, <1>4, <1>5, <1>6, <1>7, <1>8, <1>9 DEF Enrichers, Needs

\* Enricher.run keeps it one and, unless it is empty, names its source.
LEMMA TaggedTyped ==
  ASSUME NEW e \in Enrichers, NEW f \in Fragments(e)
  PROVE  /\ Tagged(e, f) \in Find
         /\ Tagged(e, f) # Empty => Tagged(e, f).sources = {e}
<1>1. f \in Find  BY FragmentsTyped
<1>3. CASE f = Empty
  BY <1>3, EmptyFind DEF Tagged
<1>4. CASE f # Empty
  <2>1. Tagged(e, f) = [f EXCEPT !.sources = {e}]  BY <1>4 DEF Tagged
  <2>2. Tagged(e, f) \in Find  BY <1>1, <2>1, FindTyped
  <2>3. Tagged(e, f).sources = {e}  BY <1>1, <2>1 DEF Find, Fragment
  <2> QED BY <2>2, <2>3
<1> QED BY <1>3, <1>4

-----------------------------------------------------------------------------
(* The registry and the order of the stages.                               *)

\* The registry of enrichers, tier by tier.
LEMMA RegistryFacts ==
  /\ DOMAIN Registry = {"tier1", "tier2", "tier3", "tier4"}
  /\ ToSet(Registry["tier1"]) = {"linkedin_photo"}
  /\ ToSet(Registry["tier2"]) = {"sherlock", "maigret", "social_analyzer"}
  /\ ToSet(Registry["tier3"]) = {"gitrecon", "theharvester", "email_discover", "crosslinked"}
  /\ ToSet(Registry["tier4"]) = {"jobspy", "local_business"}
  /\ \A t \in DOMAIN Registry : Registry[t] \in Seq(Enrichers)
<1>1. DOMAIN Registry = {"tier1", "tier2", "tier3", "tier4"}  BY DEF Registry
<1>2. Registry["tier1"] = <<"linkedin_photo">>
      /\ Registry["tier2"] = <<"sherlock", "maigret", "social_analyzer">>
      /\ Registry["tier3"] = <<"gitrecon", "theharvester", "email_discover", "crosslinked">>
      /\ Registry["tier4"] = <<"jobspy", "local_business">>
  BY DEF Registry
<1>3. ToSet(Registry["tier1"]) = {"linkedin_photo"}  BY <1>2 DEF ToSet
<1>4. ToSet(Registry["tier2"]) = {"sherlock", "maigret", "social_analyzer"}  BY <1>2 DEF ToSet
<1>5. ToSet(Registry["tier3"]) = {"gitrecon", "theharvester", "email_discover", "crosslinked"}
  BY <1>2 DEF ToSet
<1>6. ToSet(Registry["tier4"]) = {"jobspy", "local_business"}  BY <1>2 DEF ToSet
<1>7. Enrichers = {"linkedin_photo", "sherlock", "maigret", "social_analyzer", "gitrecon",
                   "theharvester", "email_discover", "crosslinked", "jobspy", "local_business"}
  BY DEF Enrichers, Needs
<1>8. Registry["tier1"] \in Seq(Enrichers)  BY <1>2, <1>7
<1>9. Registry["tier2"] \in Seq(Enrichers)  BY <1>2, <1>7
<1>10. Registry["tier3"] \in Seq(Enrichers)  BY <1>2, <1>7
<1>11. Registry["tier4"] \in Seq(Enrichers)  BY <1>2, <1>7
<1> QED BY <1>1, <1>3, <1>4, <1>5, <1>6, <1>8, <1>9, <1>10, <1>11

\* Every enricher is in the registry, in one tier.
LEMMA RegistryPartition ==
  /\ \A t \in DOMAIN Registry : ToSet(Registry[t]) \subseteq Enrichers
  /\ \A e \in Enrichers : \E t \in DOMAIN Registry : e \in ToSet(Registry[t])
  /\ \A t, u \in DOMAIN Registry : t # u => ToSet(Registry[t]) \cap ToSet(Registry[u]) = {}
<1>1. \A t \in DOMAIN Registry : ToSet(Registry[t]) \subseteq Enrichers
  BY RegistryFacts DEF ToSet
<1>2. \A e \in Enrichers : \E t \in DOMAIN Registry : e \in ToSet(Registry[t])
  <2> TAKE e \in Enrichers
  <2>1. e \in {"linkedin_photo", "sherlock", "maigret", "social_analyzer", "gitrecon",
               "theharvester", "email_discover", "crosslinked", "jobspy", "local_business"}
    BY DEF Enrichers, Needs
  <2> QED BY <2>1, RegistryFacts
<1>3. \A t, u \in DOMAIN Registry : t # u => ToSet(Registry[t]) \cap ToSet(Registry[u]) = {}
  <2>1. ToSet(Registry["tier1"]) \cap ToSet(Registry["tier2"]) = {}  BY RegistryFacts
  <2>2. ToSet(Registry["tier1"]) \cap ToSet(Registry["tier3"]) = {}  BY RegistryFacts
  <2>3. ToSet(Registry["tier1"]) \cap ToSet(Registry["tier4"]) = {}  BY RegistryFacts
  <2>4. ToSet(Registry["tier2"]) \cap ToSet(Registry["tier3"]) = {}  BY RegistryFacts
  <2>5. ToSet(Registry["tier2"]) \cap ToSet(Registry["tier4"]) = {}  BY RegistryFacts
  <2>6. ToSet(Registry["tier3"]) \cap ToSet(Registry["tier4"]) = {}  BY RegistryFacts
  <2>7. DOMAIN Registry = {"tier1", "tier2", "tier3", "tier4"}  BY RegistryFacts
  <2> QED BY <2>1, <2>2, <2>3, <2>4, <2>5, <2>6, <2>7
<1> QED BY <1>1, <1>2, <1>3

\* Where StageFrom(n) leads: the first dispatched tier from the n-th on.
LEMMA StageFromFacts ==
  ASSUME NEW n \in 1..5
  PROVE  /\ StageFrom(n) \in {"tier1", "tier2", "tier3", "tier4", "merge"}
         /\ StageFrom(n) # "merge" => Dispatched(StageFrom(n))
         /\ n = 1 /\ StageFrom(n) # "tier1" => ~Dispatched("tier1")
         /\ n <= 2 /\ StageFrom(n) \notin {"tier1", "tier2"} => ~Dispatched("tier2")
         /\ n <= 3 /\ StageFrom(n) \in {"tier4", "merge"} => ~Dispatched("tier3")
         /\ n <= 4 /\ StageFrom(n) = "merge" => ~Dispatched("tier4")
         /\ n > 1 => StageFrom(n) # "tier1"
         /\ n > 2 => StageFrom(n) # "tier2"
         /\ n > 3 => StageFrom(n) # "tier3"
         /\ n > 4 => StageFrom(n) = "merge"
<1> DEFINE left == {m \in n..4 : Dispatched(Tiers[m])}
<1>1. Tiers[1] = "tier1" /\ Tiers[2] = "tier2" /\ Tiers[3] = "tier3" /\ Tiers[4] = "tier4"
  BY DEF Tiers
<1>2. CASE left = {}
  <2>1. StageFrom(n) = "merge"  BY <1>2 DEF StageFrom
  <2>2. \A m \in n..4 : ~Dispatched(Tiers[m])  BY <1>2
  <2> HIDE DEF left
  <2>3. n <= 4 => ~Dispatched("tier4")
    <3>1. n <= 4 => 4 \in n..4  OBVIOUS
    <3> QED BY <3>1, <2>2, <1>1
  <2>4. n <= 3 => ~Dispatched("tier3")
    <3>1. n <= 3 => 3 \in n..4  OBVIOUS
    <3> QED BY <3>1, <2>2, <1>1
  <2>5. n <= 2 => ~Dispatched("tier2")
    <3>1. n <= 2 => 2 \in n..4  OBVIOUS
    <3> QED BY <3>1, <2>2, <1>1
  <2>6. n = 1 => ~Dispatched("tier1")
    <3>1. n = 1 => 1 \in n..4  OBVIOUS
    <3> QED BY <3>1, <2>2, <1>1
  <2> QED BY <2>1, <2>3, <2>4, <2>5, <2>6
<1>3. CASE left # {}
  <2>1. \E m \in left : \A k \in left : m <= k
    <3>1. left \subseteq {1, 2, 3, 4}  OBVIOUS
    <3> HIDE DEF left
    <3>2. CASE 1 \in left  BY <3>1, <3>2
    <3>3. CASE 1 \notin left /\ 2 \in left  BY <3>1, <3>3
    <3>4. CASE 1 \notin left /\ 2 \notin left /\ 3 \in left  BY <3>1, <3>4
    <3>5. CASE 1 \notin left /\ 2 \notin left /\ 3 \notin left
      <4>1. \A k \in left : k = 4  BY <3>1, <3>5
      <4>2. 4 \in left  BY <1>3, <4>1
      <4> QED BY <4>1, <4>2
    <3> QED BY <3>2, <3>3, <3>4, <3>5
  <2> DEFINE m == Min(left)
  <2>2. m \in left /\ \A k \in left : m <= k
    <3> HIDE DEF left
    <3> QED BY <2>1 DEF Min
  <2>3. StageFrom(n) = Tiers[m]  BY <1>3 DEF StageFrom
  <2> HIDE DEF m
  <2>4. m \in n..4 /\ Dispatched(Tiers[m]) /\ \A k \in n..4 : k < m => ~Dispatched(Tiers[k])
    BY <2>2
  <2> HIDE DEF left
  <2>5. m = 1 \/ m = 2 \/ m = 3 \/ m = 4  BY <2>4
  <2>6. CASE m = 1
    BY <2>3, <2>4, <2>6, <1>1
  <2>7. CASE m = 2
    <3>1. n = 1 => ~Dispatched("tier1")  BY <2>4, <2>7, <1>1
    <3> QED BY <3>1, <2>3, <2>4, <2>7, <1>1
  <2>8. CASE m = 3
    <3>1. n = 1 => ~Dispatched("tier1")  BY <2>4, <2>8, <1>1
    <3>2. n <= 2 => ~Dispatched("tier2")  BY <2>4, <2>8, <1>1
    <3> QED BY <3>1, <3>2, <2>3, <2>4, <2>8, <1>1
  <2>9. CASE m = 4
    <3>1. n = 1 => ~Dispatched("tier1")  BY <2>4, <2>9, <1>1
    <3>2. n <= 2 => ~Dispatched("tier2")  BY <2>4, <2>9, <1>1
    <3>3. n <= 3 => ~Dispatched("tier3")  BY <2>4, <2>9, <1>1
    <3> QED BY <3>1, <3>2, <3>3, <2>3, <2>4, <2>9, <1>1
  <2> QED BY <2>5, <2>6, <2>7, <2>8, <2>9
<1> QED BY <1>2, <1>3

-----------------------------------------------------------------------------
(* The collected answers and the joined lists.                             *)

\* A field's lists, joined over fragments, make a list.
LEMMA JoinTyped ==
  ASSUME NEW S, NEW field, NEW list, list \in Seq(Fragment), \A f \in Fragment : f[field] \in Seq(S)
  PROVE  Join(list, field) \in Seq(S)
<1> DEFINE ss == [i \in DOMAIN list |-> list[i][field]]
<1>1. \A i \in DOMAIN list : ss[i] \in Seq(S)
  <2> TAKE i \in DOMAIN list
  <2>1. list[i] \in Fragment  OBVIOUS
  <2> QED BY <2>1
<1>2. DOMAIN ss = DOMAIN list /\ ss = [i \in DOMAIN list |-> ss[i]]  OBVIOUS
<1>3. Join(list, field) = FlattenSeq(ss)  BY DEF Join
<1> HIDE DEF ss
<1>4. ss \in Seq(Seq(S))  BY <1>1, <1>2, SeqOfTyped
<1> QED BY <1>3, <1>4, FlattenType

\* To join over two lists of payloads is to join over each.
LEMMA JoinConcat ==
  ASSUME NEW S, NEW field, NEW s, NEW t, s \in Seq(Fragment), t \in Seq(Fragment),
         \A f \in Fragment : f[field] \in Seq(S)
  PROVE  Join(s \o t, field) = Join(s, field) \o Join(t, field)
<1> DEFINE ss == [i \in DOMAIN s |-> s[i][field]]
           tt == [i \in DOMAIN t |-> t[i][field]]
           u == s \o t
           uu == [i \in DOMAIN u |-> u[i][field]]
<1>1. \A i \in DOMAIN s : ss[i] \in Seq(S)
  <2> TAKE i \in DOMAIN s
  <2>1. s[i] \in Fragment  OBVIOUS
  <2> QED BY <2>1
<1>2. \A i \in DOMAIN t : tt[i] \in Seq(S)
  <2> TAKE i \in DOMAIN t
  <2>1. t[i] \in Fragment  OBVIOUS
  <2> QED BY <2>1
<1>3. DOMAIN ss = DOMAIN s /\ ss = [i \in DOMAIN s |-> ss[i]]  OBVIOUS
<1>12. DOMAIN tt = DOMAIN t /\ tt = [i \in DOMAIN t |-> tt[i]]  OBVIOUS
<1>4. Len(s) \in Nat /\ Len(t) \in Nat /\ DOMAIN s = 1..Len(s) /\ DOMAIN t = 1..Len(t)
      /\ u \in Seq(Fragment) /\ Len(u) = Len(s) + Len(t) /\ DOMAIN u = 1..(Len(s) + Len(t))
      /\ (\A i \in DOMAIN s : u[i] = s[i]) /\ (\A i \in DOMAIN t : u[Len(s) + i] = t[i])
  OBVIOUS
<1>5. Join(u, field) = FlattenSeq(uu) /\ Join(s, field) = FlattenSeq(ss) /\ Join(t, field) = FlattenSeq(tt)
  BY DEF Join
<1>6. \A i \in DOMAIN s : ss[i] = s[i][field]  OBVIOUS
<1>7. \A i \in DOMAIN t : tt[i] = t[i][field]  OBVIOUS
<1>8. DOMAIN uu = DOMAIN u /\ uu = [i \in DOMAIN u |-> uu[i]] /\ \A i \in DOMAIN u : uu[i] = u[i][field]
  OBVIOUS
<1> HIDE DEF ss, tt, uu, u
<1>9. ss \in Seq(Seq(S)) /\ Len(ss) = Len(s)  BY <1>1, <1>3, SeqOfTyped
<1>10. tt \in Seq(Seq(S)) /\ Len(tt) = Len(t)  BY <1>2, <1>12, SeqOfTyped
<1>11. uu = ss \o tt
  <2> DEFINE v == ss \o tt
             Q == Seq(S)
  <2> HIDE DEF Q
  <2>0. ss \in Seq(Q) /\ tt \in Seq(Q) /\ Len(ss) = Len(s) /\ Len(tt) = Len(t)  BY <1>9, <1>10 DEF Q
  <2>10. ss \o tt \in Seq(Q) /\ Len(ss \o tt) = Len(ss) + Len(tt)
    <3>1. ss \in Seq(Q) /\ tt \in Seq(Q)  BY <2>0
    <3> HIDE DEF v
    <3> QED BY <3>1, ConcatProperties
  <2>1. v \in Seq(Q) /\ Len(v) = Len(s) + Len(t)  BY <2>0, <2>10
  <2>5. \A i \in 1..Len(s) : v[i] = ss[i]  BY <2>0, <1>4
  <2>6. \A i \in 1..Len(t) : v[Len(s) + i] = tt[i]  BY <2>0, <1>4
  <2> HIDE DEF v
  <2>2. \A i \in DOMAIN u : uu[i] = v[i]
    <3> TAKE i \in DOMAIN u
    <3>0. uu[i] = u[i][field]  BY <1>8
    <3>1. CASE i \in DOMAIN s
      <4>1. u[i] = s[i]  BY <3>1, <1>4
      <4>2. v[i] = s[i][field]  BY <3>1, <2>5, <1>4, <1>6
      <4> QED BY <4>1, <4>2, <3>0
    <3>2. CASE i \notin DOMAIN s
      <4> DEFINE k == i - Len(s)
      <4>1. k \in 1..Len(t) /\ Len(s) + k = i  BY <3>2, <1>4
      <4> HIDE DEF k
      <4>2. u[i] = t[k]  BY <4>1, <1>4
      <4>3. v[i] = t[k][field]  BY <4>1, <2>6, <1>4, <1>7
      <4> QED BY <4>2, <4>3, <3>0
    <3> QED BY <3>1, <3>2
  <2>3. \A i \in DOMAIN u : uu[i] \in Q
    <3>1. \A i \in DOMAIN u : v[i] \in Q  BY <2>1, <1>4
    <3> QED BY <3>1, <2>2
  <2>4. uu \in Seq(Q) /\ Len(uu) = Len(u)  BY <2>3, <1>8, <1>4, SeqOfTyped
  <2>7. Len(uu) = Len(v)  BY <2>4, <2>1, <1>4
  <2>8. \A i \in 1..Len(uu) : uu[i] = v[i]  BY <2>2, <2>4, <1>4
  <2>9. uu = v  BY <2>1, <2>4, <2>7, <2>8, SeqEqual
  <2> QED BY <2>9 DEF v
<1> QED BY <1>5, <1>9, <1>10, <1>11, FlattenConcat DEF u

\* What each part of the dossier is a list of.
ElementOf == [handles |-> HandleRecord, emails |-> Email, jobs |-> JobRecord, verified |-> Verification]

\* The element type of each field that is joined.
LEMMA FieldTyped ==
  ASSUME NEW field \in DOMAIN ElementOf
  PROVE  /\ \A f \in Fragment : f[field] \in Seq(ElementOf[field])
         /\ Empty[field] = <<>>
<1>0. field \in {"handles", "emails", "jobs", "verified"}  BY DEF ElementOf
<1>1. CASE field = "handles"  BY <1>1 DEF Fragment, ElementOf, Empty
<1>2. CASE field = "emails"  BY <1>2 DEF Fragment, ElementOf, Empty
<1>3. CASE field = "jobs"  BY <1>3 DEF Fragment, ElementOf, Empty
<1>4. CASE field = "verified"  BY <1>4 DEF Fragment, ElementOf, Empty
<1> QED BY <1>0, <1>1, <1>2, <1>3, <1>4

\* Nothing is joined over no payloads.
LEMMA JoinNone == ASSUME NEW field PROVE Join(<<>>, field) = <<>>
<1>1. [i \in DOMAIN <<>> |-> <<>>[i][field]] = <<>>  OBVIOUS
<1>2. FlattenSeq(<<>>) = <<>>  BY DEF FlattenSeq
<1> QED BY <1>1, <1>2 DEF Join

\* One payload gives its own list.
LEMMA JoinOne ==
  ASSUME NEW field \in DOMAIN ElementOf, NEW f \in Fragment
  PROVE  Join(<<f>>, field) = f[field]
<1>1. [i \in DOMAIN <<f>> |-> <<f>>[i][field]] = <<f[field]>>
  <2> DEFINE a == [i \in DOMAIN <<f>> |-> <<f>>[i][field]]
             x == f[field]
  <2>1. DOMAIN <<f>> = 1..1 /\ <<f>>[1] = f  OBVIOUS
  <2>2. a = [i \in 1..1 |-> x]  BY <2>1
  <2> HIDE DEF a, x
  <2> QED BY <2>2 DEF a, x
<1>2. f[field] \in Seq(ElementOf[field])  BY FieldTyped
<1>3. FlattenSeq(<<f[field]>>) = f[field]  BY <1>2, FlattenSmall
<1> QED BY <1>1, <1>3 DEF Join

\* The answers of a tier, read in registry order.
Part(t, field) == FlattenSeq([i \in DOMAIN Registry[t] |-> Given(Registry[t][i], field)])

\* A tier has answered, or it is not asked.
Settled(t) ==
    \A e \in ToSet(Registry[t]) :
        /\ Dispatched(t) => answer[e] # Pending
        /\ ~Dispatched(t) => answer[e] = Pending

\* What gather returns is one fragment per enricher of the tier.
LEMMA CollectedTyped ==
  ASSUME TypeOK, NEW t \in DOMAIN Registry, \A e \in ToSet(Registry[t]) : answer[e] # Pending
  PROVE  Collected(t) \in Seq(Fragment) /\ Len(Collected(t)) = Len(Registry[t])
<1> DEFINE r == Registry[t]
           c == [i \in DOMAIN r |-> answer[r[i]]]
<1>1. r \in Seq(Enrichers)  BY RegistryFacts
<1>2. \A i \in DOMAIN r : r[i] \in ToSet(Registry[t])  BY DEF ToSet
<1>3. answer \in [Enrichers -> Fragment \cup {Pending}]  BY DEF TypeOK
<1> HIDE DEF r
<1>4. \A i \in DOMAIN r : c[i] \in Fragment
  <2> TAKE i \in DOMAIN r
  <2>1. r[i] \in Enrichers  BY <1>1
  <2>2. answer[r[i]] # Pending  BY <1>2 DEF r
  <2> QED BY <2>1, <2>2, <1>3
<1>5. DOMAIN c = DOMAIN r /\ c = [i \in DOMAIN r |-> c[i]]  OBVIOUS
<1>6. Collected(t) = c  BY DEF Collected, r
<1> HIDE DEF c
<1>7. c \in Seq(Fragment) /\ Len(c) = Len(r)  BY <1>1, <1>4, <1>5, SeqOfTyped
<1> QED BY <1>6, <1>7 DEF r

\* A settled tier's share is a list of fragments.
LEMMA ShareTyped ==
  ASSUME TypeOK, NEW t \in DOMAIN Registry, Settled(t)
  PROVE  Share(t) \in Seq(Fragment)
BY CollectedTyped DEF Share, Settled

\* What a settled tier offers is the join over what it added to the payloads.
LEMMA PartJoin ==
  ASSUME TypeOK, NEW t \in DOMAIN Registry, Settled(t), NEW field \in DOMAIN ElementOf
  PROVE  /\ Part(t, field) = Join(Share(t), field)
         /\ Part(t, field) \in Seq(ElementOf[field])
<1> DEFINE r == Registry[t]
           g == [i \in DOMAIN r |-> Given(r[i], field)]
<1>1. r \in Seq(Enrichers)  BY RegistryFacts
<1>2. \A i \in DOMAIN r : r[i] \in ToSet(r)  BY DEF ToSet
<1>3. Part(t, field) = FlattenSeq(g)  BY DEF Part
<1>4. CASE Dispatched(t)
  <2> DEFINE c == Collected(t)
  <2>1. \A e \in ToSet(r) : answer[e] # Pending  BY <1>4 DEF Settled
  <2>2. c \in Seq(Fragment)  BY <2>1, CollectedTyped
  <2>3. DOMAIN c = DOMAIN r /\ \A i \in DOMAIN r : c[i] = answer[r[i]]  BY DEF Collected
  <2>4. \A i \in DOMAIN r : Given(r[i], field) = c[i][field]  BY <2>1, <2>3, <1>2 DEF Given
  <2>5. g = [i \in DOMAIN c |-> c[i][field]]
    <3> HIDE DEF c, r
    <3> QED BY <2>3, <2>4
  <2>6. Join(c, field) = FlattenSeq(g)
    <3> HIDE DEF c, g
    <3> QED BY <2>5 DEF Join
  <2>7. Share(t) = c  BY <1>4 DEF Share
  <2> HIDE DEF c, g
  <2>8. Join(c, field) \in Seq(ElementOf[field])  BY <2>2, FieldTyped, JoinTyped
  <2> QED BY <2>6, <2>7, <2>8, <1>3
<1>5. CASE ~Dispatched(t)
  <2>1. \A i \in DOMAIN r : g[i] = <<>>  BY <1>2, <1>5 DEF Settled, Given
  <2>2. Share(t) = <<>>  BY <1>5 DEF Share
  <2>3. DOMAIN g = DOMAIN r /\ g = [i \in DOMAIN r |-> g[i]]  OBVIOUS
  <2> HIDE DEF g
  <2>10. <<>> \in Seq({})  OBVIOUS
  <2>4. \A i \in DOMAIN r : g[i] \in Seq({})  BY <2>1, <2>10
  <2>5. g \in Seq(Seq({}))
    <3> HIDE DEF r
    <3> QED BY <1>1, <2>3, <2>4, SeqOfTyped
  <2>6. FlattenSeq(g) \in Seq({})  BY <2>5, FlattenType
  <2>7. FlattenSeq(g) = <<>>
    <3> DEFINE x == FlattenSeq(g)
    <3>1. x \in Seq({})  BY <2>6
    <3> HIDE DEF x
    <3>2. Len(x) = 0
      <4> SUFFICES ASSUME Len(x) # 0 PROVE FALSE  OBVIOUS
      <4>1. 1 \in 1..Len(x)  BY <3>1
      <4> QED BY <4>1, <3>1
    <3> QED BY <3>1, <3>2 DEF x
  <2>8. Part(t, field) = <<>>  BY <2>7, <1>3
  <2>9. <<>> \in Seq(ElementOf[field])  OBVIOUS
  <2> QED BY <2>8, <2>2, <2>9, JoinNone
<1> QED BY <1>4, <1>5

\* FlattenSeq of four lists.
LEMMA FlattenFour ==
  ASSUME NEW S, NEW ss \in Seq(Seq(S)), Len(ss) = 4
  PROVE  FlattenSeq(ss) = ((ss[1] \o ss[2]) \o ss[3]) \o ss[4]
<1> DEFINE a == ss[1]
           b == ss[2]
           c == ss[3]
           d == ss[4]
<1>1. a \in Seq(S)  OBVIOUS
<1> HIDE DEF b, c, d
<1>2. PICK g : FlatOf(g, ss, S) /\ FlattenSeq(ss) = g[Len(ss)]  BY FlattenLoop
<1>3. 1 \in 1..Len(ss) /\ 2 \in 1..Len(ss) /\ 3 \in 1..Len(ss) /\ 4 \in 1..Len(ss)
      /\ 1 - 1 = 0 /\ 2 - 1 = 1 /\ 3 - 1 = 2 /\ 4 - 1 = 3
  OBVIOUS
<1>4. g[1] = <<>> \o a  BY <1>1, <1>2, <1>3 DEF FlatOf
<1>5. g[1] = a  BY <1>1, <1>4, ConcatEmptySeq
<1>6. g[2] = a \o b  BY <1>1, <1>2, <1>3, <1>5 DEF FlatOf, b
<1>7. g[3] = (a \o b) \o c  BY <1>1, <1>2, <1>3, <1>6 DEF FlatOf, c
<1>8. g[4] = ((a \o b) \o c) \o d  BY <1>1, <1>2, <1>3, <1>7 DEF FlatOf, d
<1> QED BY <1>2, <1>8 DEF b, c, d

\* What the enrichers offered is the four tiers' parts in order.
LEMMA OfferedParts ==
  ASSUME TypeOK, \A t \in DOMAIN Registry : Settled(t), NEW field \in DOMAIN ElementOf
  PROVE  Offered(field) =
            ((Part("tier1", field) \o Part("tier2", field)) \o Part("tier3", field)) \o Part("tier4", field)
<1> DEFINE a == Part("tier1", field)
           b == Part("tier2", field)
           c == Part("tier3", field)
           d == Part("tier4", field)
           S == ElementOf[field]
<1>1. a \in Seq(S) /\ b \in Seq(S) /\ c \in Seq(S) /\ d \in Seq(S)  BY RegistryFacts, PartJoin
<1>2. Offered(field) = FlattenSeq([t \in 1..4 |-> Part(Tiers[t], field)])  BY DEF Offered, Part
<1>3. Tiers[1] = "tier1" /\ Tiers[2] = "tier2" /\ Tiers[3] = "tier3" /\ Tiers[4] = "tier4"  BY DEF Tiers
<1>4. Part(Tiers[1], field) = a /\ Part(Tiers[2], field) = b
      /\ Part(Tiers[3], field) = c /\ Part(Tiers[4], field) = d  BY <1>3
<1> HIDE DEF a, b, c, d, S
<1>5. [t \in 1..4 |-> Part(Tiers[t], field)] = <<a, b, c, d>>
  <2>1. \A t \in 1..4 : t = 1 \/ t = 2 \/ t = 3 \/ t = 4  OBVIOUS
  <2>2. \A t \in 1..4 : Part(Tiers[t], field) = <<a, b, c, d>>[t]  BY <2>1, <1>4
  <2>3. <<a, b, c, d>> = [t \in 1..4 |-> <<a, b, c, d>>[t]]  OBVIOUS
  <2>4. [t \in 1..4 |-> Part(Tiers[t], field)] = [t \in 1..4 |-> <<a, b, c, d>>[t]]  BY <2>2, Zenon
  <2> QED BY <2>3, <2>4
<1>6. FlattenSeq(<<a, b, c, d>>) = ((a \o b) \o c) \o d
  <2> DEFINE Q == Seq(S)
             ss == <<a, b, c, d>>
  <2>1. a \in Q /\ b \in Q /\ c \in Q /\ d \in Q  BY <1>1
  <2> HIDE DEF Q
  <2>2. ss \in Seq(Q)  BY <2>1
  <2>3. Len(ss) = 4 /\ ss[1] = a /\ ss[2] = b /\ ss[3] = c /\ ss[4] = d  OBVIOUS
  <2>4. ss \in Seq(Seq(S))  BY <2>2 DEF Q
  <2> HIDE DEF ss
  <2>5. FlattenSeq(ss) = ((ss[1] \o ss[2]) \o ss[3]) \o ss[4]  BY <2>3, <2>4, FlattenFour
  <2>6. FlattenSeq(ss) = ((a \o b) \o c) \o d  BY <2>3, <2>5
  <2> QED BY <2>6 DEF ss
<1>7. Offered(field) = ((a \o b) \o c) \o d  BY <1>2, <1>5, <1>6
<1> QED BY <1>7 DEF a, b, c, d

\* To flatten empty lists gives nothing.
LEMMA FlattenNothing ==
  ASSUME NEW ss \in Seq(Seq({}))
  PROVE  FlattenSeq(ss) = <<>>
<1> DEFINE x == FlattenSeq(ss)
<1>1. x \in Seq({})  BY FlattenType
<1> HIDE DEF x
<1>2. Len(x) = 0
  <2> SUFFICES ASSUME Len(x) # 0 PROVE FALSE  OBVIOUS
  <2>1. 1 \in 1..Len(x)  BY <1>1
  <2> QED BY <2>1, <1>1
<1> QED BY <1>1, <1>2 DEF x

\* A list of fragments without verdicts joins to no verdicts.
LEMMA JoinWithout ==
  ASSUME NEW list, list \in Seq(Fragment), NEW field, \A i \in DOMAIN list : list[i][field] = <<>>
  PROVE  Join(list, field) = <<>>
<1> DEFINE g == [i \in DOMAIN list |-> list[i][field]]
<1>1. DOMAIN g = DOMAIN list /\ g = [i \in DOMAIN list |-> g[i]]  OBVIOUS
<1>2. \A i \in DOMAIN list : g[i] \in Seq({})
  <2>1. <<>> \in Seq({})  OBVIOUS
  <2> QED BY <2>1
<1>3. Join(list, field) = FlattenSeq(g)  BY DEF Join
<1> HIDE DEF g
<1>4. g \in Seq(Seq({}))  BY <1>1, <1>2, SeqOfTyped
<1> QED BY <1>3, <1>4, FlattenNothing

\* The verification adds its results and no handle, e-mail or job.
LEMMA VerifyShareTyped ==
  ASSUME TypeOK
  PROVE  /\ VerifyShare \in Seq(Fragment)
         /\ \A field \in {"handles", "emails", "jobs"} : Join(VerifyShare, field) = <<>>
         /\ Join(VerifyShare, "verified") = verified
<1>1. CASE verified = <<>>
  <2>1. VerifyShare = <<>>  BY <1>1 DEF VerifyShare
  <2> QED BY <1>1, <2>1, JoinNone
<1>2. CASE verified # <<>>
  <2> DEFINE f == [Empty EXCEPT !.verified = verified, !.sources = {"email_verify"}]
  <2>1. VerifyShare = <<f>>  BY <1>2 DEF VerifyShare
  <2>2. f \in Fragment
    <3>1. verified \in Seq(Verification)  BY DEF TypeOK
    <3>2. Empty \in Fragment  BY EmptyTyped
    <3>3. \A v \in Seq(Verification) : [Empty EXCEPT !.verified = v] \in Fragment
      BY <3>2 DEF Fragment
    <3>4. \A g \in Fragment : [g EXCEPT !.sources = {"email_verify"}] \in Fragment
      BY DEF Fragment
    <3>5. [[Empty EXCEPT !.verified = verified] EXCEPT !.sources = {"email_verify"}] \in Fragment
      BY <3>1, <3>3, <3>4
    <3> QED BY <3>5
  <2>3. f.handles = <<>> /\ f.emails = <<>> /\ f.jobs = <<>> /\ f.verified = verified
    BY DEF Empty
  <2> HIDE DEF f
  <2>4. \A field \in DOMAIN ElementOf : Join(VerifyShare, field) = f[field]  BY <2>1, <2>2, JoinOne
  <2>5. VerifyShare \in Seq(Fragment)  BY <2>1, <2>2
  <2>6. DOMAIN ElementOf = {"handles", "emails", "jobs", "verified"}  BY DEF ElementOf
  <2> QED BY <2>3, <2>4, <2>5, <2>6
<1> QED BY <1>1, <1>2

\* Once every tier has answered, the payloads hold all that was offered.
LEMMA PayloadsOffered ==
  ASSUME TypeOK, \A t \in DOMAIN Registry : Settled(t), payloads = SharesM,
         NEW field \in {"handles", "emails", "jobs"}
  PROVE  Join(payloads, field) = Offered(field)
<1> DEFINE S1 == Share("tier1")
           S2 == Share("tier2")
           S3 == Share("tier3")
           S4 == Share("tier4")
           V == VerifyShare
           J(s) == Join(s, field)
           E == ElementOf[field]
<1>0. field \in DOMAIN ElementOf  BY DEF ElementOf
<1>1. S1 \in Seq(Fragment) /\ S2 \in Seq(Fragment) /\ S3 \in Seq(Fragment) /\ S4 \in Seq(Fragment)
  BY ShareTyped, RegistryFacts
<1>2. V \in Seq(Fragment) /\ J(V) = <<>>  BY VerifyShareTyped
<1>3. Part("tier1", field) = J(S1) /\ Part("tier2", field) = J(S2)
      /\ Part("tier3", field) = J(S3) /\ Part("tier4", field) = J(S4)
  BY <1>0, PartJoin, RegistryFacts
<1>4. Offered(field) = ((J(S1) \o J(S2)) \o J(S3)) \o J(S4)  BY <1>0, <1>3, OfferedParts
<1>5. payloads = (((S1 \o S2) \o S3) \o V) \o S4  BY DEF SharesM, Shares4, SharesV, Shares3, Shares2
<1>6. \A f \in Fragment : f[field] \in Seq(E)  BY <1>0, FieldTyped
<1> HIDE DEF S1, S2, S3, S4, V, E, J
<1>7. \A a \in Seq(Fragment), b \in Seq(Fragment) : a \o b \in Seq(Fragment) /\ J(a \o b) = J(a) \o J(b)
  <2> TAKE a \in Seq(Fragment), b \in Seq(Fragment)
  <2>1. a \o b \in Seq(Fragment)  BY ConcatProperties
  <2>2. J(a \o b) = J(a) \o J(b)  BY <1>6, JoinConcat DEF J
  <2> QED BY <2>1, <2>2
<1>8. \A a \in Seq(Fragment) : J(a) \in Seq(E)
  BY <1>6, JoinTyped DEF J
<1> DEFINE A == S1 \o S2
           B == A \o S3
           C == B \o V
<1>9. A \in Seq(Fragment) /\ J(A) = J(S1) \o J(S2)  BY <1>1, <1>7
<1> HIDE DEF A
<1>10. B \in Seq(Fragment) /\ J(B) = J(A) \o J(S3)  BY <1>1, <1>7, <1>9
<1> HIDE DEF B
<1>11. C \in Seq(Fragment) /\ J(C) = J(B) \o <<>>  BY <1>2, <1>7, <1>10
<1>12. J(B) \o <<>> = J(B)
  <2>1. J(B) \in Seq(E)  BY <1>8, <1>10
  <2> DEFINE x == J(B)
  <2> HIDE DEF x
  <2>2. x \in Seq(E)  BY <2>1 DEF x
  <2>3. x \o <<>> = x  BY <2>2, ConcatEmptySeq
  <2> QED BY <2>3 DEF x
<1> HIDE DEF C
<1>13. J(C \o S4) = J(C) \o J(S4)  BY <1>1, <1>7, <1>11
<1>14. payloads = C \o S4  BY <1>5 DEF A, B, C
<1>15. J(payloads) = ((J(S1) \o J(S2)) \o J(S3)) \o J(S4)
  BY <1>9, <1>10, <1>11, <1>12, <1>13, <1>14
<1> QED BY <1>4, <1>15 DEF J

\* The tiers add no verdict.
LEMMA ShareWithoutVerdicts ==
  ASSUME TypeOK, AnswersInv, NEW t \in DOMAIN Registry, Settled(t)
  PROVE  Join(Share(t), "verified") = <<>>
<1>1. Share(t) \in Seq(Fragment)  BY ShareTyped
<1>2. CASE ~Dispatched(t)
  <2>1. Share(t) = <<>>  BY <1>2 DEF Share
  <2> QED BY <2>1, JoinNone
<1>3. CASE Dispatched(t)
  <2> DEFINE s == Share(t)
  <2>1. s = Collected(t)  BY <1>3 DEF Share
  <2>2. \A i \in DOMAIN s : s[i]["verified"] = <<>>
    <3> TAKE i \in DOMAIN s
    <3>1. i \in DOMAIN Registry[t] /\ s[i] = answer[Registry[t][i]]  BY <2>1 DEF Collected
    <3>2. Registry[t][i] \in ToSet(Registry[t])  BY <3>1 DEF ToSet
    <3>3. Registry[t][i] \in Enrichers  BY <3>2, RegistryPartition
    <3>4. answer[Registry[t][i]] # Pending  BY <3>2, <1>3 DEF Settled
    <3>5. answer[Registry[t][i]].verified = <<>>  BY <3>3, <3>4 DEF AnswersInv
    <3> QED BY <3>1, <3>5
  <2>3. s \in Seq(Fragment)  BY <1>1
  <2> HIDE DEF s
  <2>4. Join(s, "verified") = <<>>  BY <2>2, <2>3, JoinWithout
  <2> QED BY <2>4 DEF s
<1> QED BY <1>2, <1>3

\* So the verdicts in the payloads are the verifier's, in order.
LEMMA PayloadsVerified ==
  ASSUME TypeOK, AnswersInv, \A t \in DOMAIN Registry : Settled(t), payloads = SharesM
  PROVE  Join(payloads, "verified") = verified
<1> DEFINE S1 == Share("tier1")
           S2 == Share("tier2")
           S3 == Share("tier3")
           S4 == Share("tier4")
           V == VerifyShare
           J(s) == Join(s, "verified")
           E == Verification
<1>0. "verified" \in DOMAIN ElementOf /\ ElementOf["verified"] = E  BY DEF ElementOf
<1>1. S1 \in Seq(Fragment) /\ S2 \in Seq(Fragment) /\ S3 \in Seq(Fragment) /\ S4 \in Seq(Fragment)
  BY ShareTyped, RegistryFacts
<1>2. V \in Seq(Fragment) /\ J(V) = verified  BY VerifyShareTyped
<1>3. J(S1) = <<>> /\ J(S2) = <<>> /\ J(S3) = <<>> /\ J(S4) = <<>>
  BY ShareWithoutVerdicts, RegistryFacts
<1>5. payloads = (((S1 \o S2) \o S3) \o V) \o S4  BY DEF SharesM, Shares4, SharesV, Shares3, Shares2
<1>6. \A f \in Fragment : f["verified"] \in Seq(E)  BY <1>0, FieldTyped
<1> HIDE DEF S1, S2, S3, S4, V, J
<1>7. \A a \in Seq(Fragment), b \in Seq(Fragment) : a \o b \in Seq(Fragment) /\ J(a \o b) = J(a) \o J(b)
  <2> TAKE a \in Seq(Fragment), b \in Seq(Fragment)
  <2>1. a \o b \in Seq(Fragment)  BY ConcatProperties
  <2>2. J(a \o b) = J(a) \o J(b)  BY <1>6, JoinConcat DEF J
  <2> QED BY <2>1, <2>2
<1>8. <<>> \o <<>> = <<>>  OBVIOUS
<1>16. verified \in Seq(E)  BY DEF TypeOK
<1>17. <<>> \o verified = verified /\ verified \o <<>> = verified  BY <1>16, ConcatEmptySeq
<1> DEFINE A == S1 \o S2
           B == A \o S3
           C == B \o V
<1>9. A \in Seq(Fragment) /\ J(A) = <<>>  BY <1>1, <1>3, <1>7, <1>8
<1> HIDE DEF A
<1>10. B \in Seq(Fragment) /\ J(B) = <<>>  BY <1>1, <1>3, <1>7, <1>8, <1>9
<1> HIDE DEF B
<1>11. C \in Seq(Fragment) /\ J(C) = verified  BY <1>2, <1>7, <1>10, <1>17
<1> HIDE DEF C
<1>13. J(C \o S4) = verified  BY <1>1, <1>3, <1>7, <1>11, <1>17
<1>14. payloads = C \o S4  BY <1>5 DEF A, B, C
<1> QED BY <1>13, <1>14 DEF J

-----------------------------------------------------------------------------
(* The candidates for verification.                                        *)

\* The addresses of a list of e-mails.
LEMMA AddressesTyped ==
  ASSUME NEW l \in Seq(Email)
  PROVE  /\ Addresses(l) \in Seq(STRING) /\ Len(Addresses(l)) = Len(l)
         /\ \A i \in DOMAIN l : l[i].addr \in ToSet(Addresses(l))
<1> DEFINE a == Addresses(l)
<1>1. DOMAIN a = DOMAIN l /\ a = [i \in DOMAIN l |-> a[i]]  BY DEF Addresses
<1>2. \A i \in DOMAIN l : a[i] = l[i].addr  BY DEF Addresses
<1>3. \A i \in DOMAIN l : a[i] \in STRING
  <2> TAKE i \in DOMAIN l
  <2>1. l[i] \in Email  OBVIOUS
  <2> QED BY <2>1, <1>2 DEF Email
<1> HIDE DEF a
<1>4. a \in Seq(STRING) /\ Len(a) = Len(l)  BY <1>1, <1>3, SeqOfTyped
<1>5. \A i \in DOMAIN l : l[i].addr \in ToSet(a)  BY <1>1, <1>2 DEF ToSet
<1> QED BY <1>4, <1>5 DEF a

\* The cap on candidates is at least one.
LEMMA MaxTyped == MaxCandidates \in Nat /\ MaxCandidates >= 1
BY DossierAssumption DEF MaxCandidates

\* To cut a list at a maximum takes a prefix, and all of a shorter list.
LEMMA CutFacts ==
  ASSUME NEW S, NEW list \in Seq(S), NEW max \in Nat, max >= 1, NEW c,
         c = IF Len(list) > max THEN SubSeq(list, 1, max) ELSE list
  PROVE  /\ c \in Seq(S) /\ Len(c) <= max
         /\ \A i \in DOMAIN c : i \in DOMAIN list /\ c[i] = list[i]
         /\ Len(c) = max \/ c = list
<1>1. Len(list) \in Nat /\ DOMAIN list = 1..Len(list)  OBVIOUS
<1>2. CASE Len(list) > max
  <2>1. c = SubSeq(list, 1, max)  BY <1>2
  <2>2. c \in Seq(S) /\ Len(c) = max /\ \A i \in 1..max : c[i] = list[i]
    BY <2>1, <1>1, <1>2
  <2>3. DOMAIN c = 1..max  BY <2>2
  <2> QED BY <2>2, <2>3, <1>1, <1>2
<1>3. CASE ~(Len(list) > max)
  <2>1. c = list  BY <1>3
  <2> QED BY <2>1, <1>1, <1>3
<1> QED BY <1>2, <1>3

\* _collect_email_candidates: within the cap, no address twice, the person's
\* own address first if it has an "@", and an address left out only for a full
\* list.
LEMMA CandidatesFacts ==
  ASSUME setup.request \in Submitted,
         NEW discovered, discovered \in Seq(Fragment), NEW c, c = CollectCandidates(discovered)
  PROVE  /\ c \in Seq(STRING) /\ Len(c) <= MaxCandidates
         /\ \A i, j \in DOMAIN c : c[i] = c[j] => i = j
         /\ "email" \in setup.request.has /\ setup.request.email \notin Junk
               => c # <<>> /\ c[1] = setup.request.email
         /\ \A e \in ToSet(Join(discovered, "emails")) :
               e.addr \in Junk \/ e.addr \in ToSet(c) \/ Len(c) = MaxCandidates
<1> DEFINE own == IF "email" \in setup.request.has THEN <<setup.request.email>> ELSE <<>>
           emails == Join(discovered, "emails")
           named == Addresses(emails)
           all == own \o named
           found == Without(all, Junk)
           source == IF found = <<>> /\ "username" \in setup.request.has THEN Patterns ELSE found
           list == Distinct(source)
<1>1. c = IF Len(list) > MaxCandidates THEN SubSeq(list, 1, MaxCandidates) ELSE list
  BY DEF CollectCandidates
<1>2. setup.request.email \in STRING /\ Patterns \in Seq(STRING)
  BY DossierAssumption
<1>3. own \in Seq(STRING)
  <2>1. CASE "email" \in setup.request.has
    <3>1. own = <<setup.request.email>>  BY <2>1
    <3>2. <<setup.request.email>> \in Seq(STRING)  BY <1>2
    <3> HIDE DEF own
    <3> QED BY <3>1, <3>2
  <2>2. CASE "email" \notin setup.request.has
    <3>1. own = <<>>  BY <2>2
    <3>2. <<>> \in Seq(STRING)  OBVIOUS
    <3> HIDE DEF own
    <3> QED BY <3>1, <3>2
  <2> QED BY <2>1, <2>2
<1>4. emails \in Seq(Email)
  <2>1. "emails" \in DOMAIN ElementOf /\ ElementOf["emails"] = Email  BY DEF ElementOf
  <2>2. \A f \in Fragment : f["emails"] \in Seq(Email)  BY <2>1, FieldTyped
  <2> QED BY <2>2, JoinTyped
<1>5. "email" \in setup.request.has => own = <<setup.request.email>>  OBVIOUS
<1> HIDE DEF own, emails
<1>6. named \in Seq(STRING) /\ \A i \in DOMAIN emails : emails[i].addr \in ToSet(named)
  BY <1>4, AddressesTyped
<1> HIDE DEF named
<1>7. all \in Seq(STRING) /\ ToSet(all) = ToSet(own) \cup ToSet(named)
      /\ (Len(own) > 0 => Len(all) > 0 /\ all[1] = own[1])
  <2>1. all \in Seq(STRING)  BY <1>3, <1>6, ConcatProperties
  <2>2. ToSet(all) = ToSet(own) \cup ToSet(named)  BY <1>3, <1>6, ConcatFacts
  <2>3. Len(own) > 0 => Len(all) > 0 /\ all[1] = own[1]  BY <1>3, <1>6, ConcatFacts
  <2> QED BY <2>1, <2>2, <2>3
<1> HIDE DEF all
<1>8. found \in Seq(STRING) /\ ToSet(found) = ToSet(all) \ Junk
      /\ (Len(all) > 0 /\ all[1] \notin Junk => Len(found) > 0 /\ found[1] = all[1])
  <2>1. found \in Seq(STRING)  BY <1>7, WithoutFacts
  <2>2. ToSet(found) = ToSet(all) \ Junk  BY <1>7, WithoutFacts
  <2>3. Len(all) > 0 /\ all[1] \notin Junk => Len(found) > 0 /\ found[1] = all[1]
    BY <1>7, WithoutFacts
  <2> QED BY <2>1, <2>2, <2>3
<1> HIDE DEF found
<1>9. source \in Seq(STRING) /\ (Len(found) > 0 => source = found)  BY <1>2, <1>8
<1> HIDE DEF source
<1>10. list \in Seq(STRING) /\ (\A i, j \in DOMAIN list : list[i] = list[j] => i = j)
       /\ ToSet(list) = ToSet(source) /\ (Len(source) > 0 => Len(list) > 0 /\ list[1] = source[1])
  <2>1. list \in Seq(STRING)  BY <1>9, DistinctFacts
  <2>2. \A i, j \in DOMAIN list : list[i] = list[j] => i = j  BY <1>9, DistinctFacts
  <2>3. ToSet(list) = ToSet(source)  BY <1>9, DistinctFacts
  <2>4. Len(source) > 0 => Len(list) > 0 /\ list[1] = source[1]  BY <1>9, DistinctFacts
  <2> QED BY <2>1, <2>2, <2>3, <2>4
<1> HIDE DEF list
<1>11. c \in Seq(STRING) /\ Len(c) <= MaxCandidates
       /\ (\A i \in DOMAIN c : i \in DOMAIN list /\ c[i] = list[i])
       /\ (Len(c) = MaxCandidates \/ c = list)
  <2> DEFINE max == MaxCandidates
  <2>1. max \in Nat /\ max >= 1  BY MaxTyped
  <2>2. c = IF Len(list) > max THEN SubSeq(list, 1, max) ELSE list  BY <1>1
  <2>3. list \in Seq(STRING)  BY <1>10
  <2> HIDE DEF max
  <2>4. /\ c \in Seq(STRING) /\ Len(c) <= max
        /\ \A i \in DOMAIN c : i \in DOMAIN list /\ c[i] = list[i]
        /\ Len(c) = max \/ c = list
    BY <2>1, <2>2, <2>3, CutFacts
  <2> QED BY <2>4 DEF max
<1>12. \A i, j \in DOMAIN c : c[i] = c[j] => i = j  BY <1>10, <1>11
<1>13. ASSUME "email" \in setup.request.has, setup.request.email \notin Junk
       PROVE  c # <<>> /\ c[1] = setup.request.email
  <2>1. own = <<setup.request.email>>  BY <1>5, <1>13
  <2>2. Len(own) = 1 /\ own[1] = setup.request.email  BY <2>1
  <2>3. Len(all) > 0 /\ all[1] = setup.request.email  BY <1>7, <2>2
  <2>4. Len(found) > 0 /\ found[1] = setup.request.email  BY <1>8, <1>13, <2>3
  <2>5. list[1] = setup.request.email  BY <1>9, <1>10, <2>4
  <2>6. Len(c) > 0
    <3>1. Len(list) > 0  BY <1>9, <1>10, <2>4
    <3> QED BY <3>1, <1>11, MaxTyped
  <2>7. 1 \in DOMAIN c /\ c # <<>>  BY <2>6, <1>11
  <2> QED BY <2>5, <2>7, <1>11
<1>14. ASSUME NEW e \in ToSet(emails)
       PROVE  e.addr \in Junk \/ e.addr \in ToSet(c) \/ Len(c) = MaxCandidates
  <2> SUFFICES ASSUME e.addr \notin Junk, Len(c) # MaxCandidates PROVE e.addr \in ToSet(c)  OBVIOUS
  <2>1. PICK i \in DOMAIN emails : e = emails[i]  BY DEF ToSet
  <2>2. e.addr \in ToSet(named)  BY <2>1, <1>6
  <2>3. e.addr \in ToSet(found)  BY <2>2, <1>7, <1>8
  <2>4. Len(found) > 0
    <3>1. DOMAIN found # {}  BY <2>3 DEF ToSet
    <3> QED BY <3>1, <1>8
  <2>5. e.addr \in ToSet(list)  BY <2>3, <2>4, <1>9, <1>10
  <2> QED BY <2>5, <1>11
<1> QED BY <1>11, <1>12, <1>13, <1>14 DEF emails

-----------------------------------------------------------------------------
(* Stages and payloads.                                                    *)

\* What depends on the request and the answers alone.
LEMMA SameShares ==
  ASSUME setup' = setup, answer' = answer
  PROVE  /\ \A t \in DOMAIN Registry : (Dispatched(t)' <=> Dispatched(t))
         /\ \A t \in DOMAIN Registry : Share(t)' = Share(t)
         /\ Collected("tier3")' = Collected("tier3")
         /\ Shares2' = Shares2 /\ Shares3' = Shares3 /\ SharesV' = SharesV
         /\ verified' = verified => Shares4' = Shares4 /\ SharesM' = SharesM
<1>1. \A t \in DOMAIN Registry : (Dispatched(t)' <=> Dispatched(t))  BY DEF Dispatched
<1>2. \A t \in DOMAIN Registry : Collected(t)' = Collected(t)  BY DEF Collected
<1>3. \A t \in DOMAIN Registry : Share(t)' = Share(t)  BY <1>1, <1>2 DEF Share
<1>4. Share("tier1")' = Share("tier1") /\ Share("tier2")' = Share("tier2")
      /\ Share("tier3")' = Share("tier3") /\ Share("tier4")' = Share("tier4")
  BY <1>3, RegistryFacts
<1>5. Collected("tier3")' = Collected("tier3")  BY <1>2, RegistryFacts
<1>6. Shares2' = Shares2 /\ Shares3' = Shares3 /\ SharesV' = SharesV
  BY <1>4 DEF Shares2, Shares3, SharesV
<1>7. ASSUME verified' = verified PROVE Shares4' = Shares4 /\ SharesM' = SharesM
  <2>1. VerifyShare' = VerifyShare  BY <1>7 DEF VerifyShare
  <2>2. Shares4' = Shares4  BY <2>1, <1>6 DEF Shares4
  <2> QED BY <2>2, <1>4 DEF SharesM
<1> QED BY <1>1, <1>3, <1>5, <1>6, <1>7

\* The payloads at the stage that follows, whichever tiers are skipped.
LEMMA StagePayloads ==
  ASSUME NEW n \in 1..5, NEW p, p \in Seq(Fragment),
         n = 1 => p = <<>>, n = 2 => p = Shares2, n = 3 => p = Shares3,
         n = 4 => p = Shares4, n = 5 => p = SharesM,
         ~Dispatched("tier3") => verified = <<>>
  PROVE  /\ StageFrom(n) = "tier1" => p = <<>>
         /\ StageFrom(n) = "tier2" => p = Shares2
         /\ StageFrom(n) = "tier3" => p = Shares3
         /\ StageFrom(n) = "tier4" => p = Shares4
         /\ StageFrom(n) = "merge" => p = SharesM
<1> DEFINE q == StageFrom(n)
           D(t) == Dispatched(t)
<1>0. /\ q \in {"tier1", "tier2", "tier3", "tier4", "merge"}
      /\ n = 1 /\ q # "tier1" => ~D("tier1")
      /\ n <= 2 /\ q \notin {"tier1", "tier2"} => ~D("tier2")
      /\ n <= 3 /\ q \in {"tier4", "merge"} => ~D("tier3")
      /\ n <= 4 /\ q = "merge" => ~D("tier4")
      /\ n > 1 => q # "tier1"
      /\ n > 2 => q # "tier2"
      /\ n > 3 => q # "tier3"
      /\ n > 4 => q = "merge"
  BY StageFromFacts
<1>1. p \o <<>> = p /\ <<>> \o p = p  BY ConcatEmptySeq
<1>2. \A t : ~D(t) => Share(t) = <<>>  BY DEF Share
<1>3. ~D("tier3") => VerifyShare = <<>>  BY DEF VerifyShare
<1> HIDE DEF q, D
<1>4. q # "tier1" /\ n <= 2 => p = Shares2
  BY <1>0, <1>2 DEF Shares2
<1>5. q \notin {"tier1", "tier2"} /\ n <= 3 => p = Shares3
  <2> SUFFICES ASSUME q \notin {"tier1", "tier2"}, n <= 3 PROVE p = Shares3  OBVIOUS
  <2>1. CASE n = 3  BY <2>1
  <2>2. CASE n # 3
    <3>1. p = Shares2 /\ Share("tier2") = <<>>  BY <2>2, <1>0, <1>2, <1>4
    <3> QED BY <3>1, <1>1 DEF Shares3
  <2> QED BY <2>1, <2>2
<1>6. q \in {"tier4", "merge"} /\ n <= 4 => p = Shares4
  <2> SUFFICES ASSUME q \in {"tier4", "merge"}, n <= 4 PROVE p = Shares4  OBVIOUS
  <2>1. CASE n = 4  BY <2>1
  <2>2. CASE n # 4
    <3>1. p = Shares3 /\ Share("tier3") = <<>> /\ VerifyShare = <<>>  BY <2>2, <1>0, <1>2, <1>3, <1>5
    <3>2. SharesV = p  BY <3>1, <1>1 DEF SharesV
    <3> QED BY <3>1, <3>2, <1>1 DEF Shares4
  <2> QED BY <2>1, <2>2
<1>7. q = "merge" => p = SharesM
  <2> SUFFICES ASSUME q = "merge" PROVE p = SharesM  OBVIOUS
  <2>1. CASE n = 5  BY <2>1
  <2>2. CASE n # 5
    <3>1. p = Shares4 /\ Share("tier4") = <<>>  BY <2>2, <1>0, <1>2, <1>6
    <3> QED BY <3>1, <1>1 DEF SharesM
  <2> QED BY <2>1, <2>2
<1>8. /\ q = "tier1" => p = <<>>
      /\ q = "tier2" => p = Shares2
      /\ q = "tier3" => p = Shares3
      /\ q = "tier4" => p = Shares4
  BY <1>0, <1>4, <1>5, <1>6
<1> QED BY <1>7, <1>8 DEF q

\* The tiers before the n-th have answered, the others not.
Reached(n) ==
    \A m \in 1..4 : \A e \in ToSet(Registry[Tiers[m]]) :
        /\ m < n /\ Dispatched(Tiers[m]) => answer[e] # Pending
        /\ m >= n \/ ~Dispatched(Tiers[m]) => answer[e] = Pending

\* The tiers in order.
LEMMA TiersFacts ==
  /\ Tiers[1] = "tier1" /\ Tiers[2] = "tier2" /\ Tiers[3] = "tier3" /\ Tiers[4] = "tier4"
  /\ \A t \in DOMAIN Registry : \E m \in 1..4 : t = Tiers[m]
<1>1. Tiers[1] = "tier1" /\ Tiers[2] = "tier2" /\ Tiers[3] = "tier3" /\ Tiers[4] = "tier4"  BY DEF Tiers
<1> QED BY <1>1, RegistryFacts

\* The stages after each tier.
LEMMA LaterFacts ==
  /\ Later["tier1"] = {"tier2", "tier3", "verify", "tier4", "merge", "judge", "done"}
  /\ Later["tier2"] = {"tier3", "verify", "tier4", "merge", "judge", "done"}
  /\ Later["tier3"] = {"verify", "tier4", "merge", "judge", "done"}
  /\ Later["tier4"] = {"merge", "judge", "done"}
BY DEF Later

\* When the n-th tier is next, the pipeline is at a stage that fits it.
LEMMA StagePlaced ==
  ASSUME NEW n \in 1..5, Reached(n)
  PROVE  Placed(StageFrom(n))
<1> DEFINE q == StageFrom(n)
<1>0. /\ q \in {"tier1", "tier2", "tier3", "tier4", "merge"}
      /\ q # "merge" => Dispatched(q)
      /\ n = 1 /\ q # "tier1" => ~Dispatched("tier1")
      /\ n <= 2 /\ q \notin {"tier1", "tier2"} => ~Dispatched("tier2")
      /\ n <= 3 /\ q \in {"tier4", "merge"} => ~Dispatched("tier3")
      /\ n <= 4 /\ q = "merge" => ~Dispatched("tier4")
      /\ n > 1 => q # "tier1"
      /\ n > 2 => q # "tier2"
      /\ n > 3 => q # "tier3"
      /\ n > 4 => q = "merge"
  BY StageFromFacts
<1> HIDE DEF q
<1>1. q \in DOMAIN Registry => Dispatched(q)  BY <1>0, RegistryFacts
<1>2. q # "verify"  BY <1>0
<1>3. ASSUME NEW e \in ToSet(Registry["tier1"])
      PROVE  /\ q \in Later["tier1"] /\ Dispatched("tier1") => answer[e] # Pending
             /\ ~Dispatched("tier1") \/ q \notin Later["tier1"] \cup {"tier1", "failed"} => answer[e] = Pending
  <2>1. 1 \in 1..4 /\ e \in ToSet(Registry[Tiers[1]])  BY TiersFacts
  <2>2. /\ 1 < n /\ Dispatched("tier1") => answer[e] # Pending
        /\ 1 >= n \/ ~Dispatched("tier1") => answer[e] = Pending
    BY <2>1, TiersFacts DEF Reached
  <2> QED BY <2>2, <1>0, LaterFacts
<1>4. ASSUME NEW e \in ToSet(Registry["tier2"])
      PROVE  /\ q \in Later["tier2"] /\ Dispatched("tier2") => answer[e] # Pending
             /\ ~Dispatched("tier2") \/ q \notin Later["tier2"] \cup {"tier2", "failed"} => answer[e] = Pending
  <2>1. 2 \in 1..4 /\ e \in ToSet(Registry[Tiers[2]])  BY TiersFacts
  <2>2. /\ 2 < n /\ Dispatched("tier2") => answer[e] # Pending
        /\ 2 >= n \/ ~Dispatched("tier2") => answer[e] = Pending
    BY <2>1, TiersFacts DEF Reached
  <2> QED BY <2>2, <1>0, LaterFacts
<1>5. ASSUME NEW e \in ToSet(Registry["tier3"])
      PROVE  /\ q \in Later["tier3"] /\ Dispatched("tier3") => answer[e] # Pending
             /\ ~Dispatched("tier3") \/ q \notin Later["tier3"] \cup {"tier3", "failed"} => answer[e] = Pending
  <2>1. 3 \in 1..4 /\ e \in ToSet(Registry[Tiers[3]])  BY TiersFacts
  <2>2. /\ 3 < n /\ Dispatched("tier3") => answer[e] # Pending
        /\ 3 >= n \/ ~Dispatched("tier3") => answer[e] = Pending
    BY <2>1, TiersFacts DEF Reached
  <2> QED BY <2>2, <1>0, LaterFacts
<1>6. ASSUME NEW e \in ToSet(Registry["tier4"])
      PROVE  /\ q \in Later["tier4"] /\ Dispatched("tier4") => answer[e] # Pending
             /\ ~Dispatched("tier4") \/ q \notin Later["tier4"] \cup {"tier4", "failed"} => answer[e] = Pending
  <2>1. 4 \in 1..4 /\ e \in ToSet(Registry[Tiers[4]])  BY TiersFacts
  <2>2. /\ 4 < n /\ Dispatched("tier4") => answer[e] # Pending
        /\ 4 >= n \/ ~Dispatched("tier4") => answer[e] = Pending
    BY <2>1, TiersFacts DEF Reached
  <2> QED BY <2>2, <1>0, LaterFacts
<1>7. ASSUME NEW t \in DOMAIN Registry, NEW e \in ToSet(Registry[t])
      PROVE  /\ q \in Later[t] /\ Dispatched(t) => answer[e] # Pending
             /\ ~Dispatched(t) \/ q \notin Later[t] \cup {t, "failed"} => answer[e] = Pending
  <2>1. CASE t = "tier1"  BY <2>1, <1>3
  <2>2. CASE t = "tier2"  BY <2>2, <1>4
  <2>3. CASE t = "tier3"  BY <2>3, <1>5
  <2>4. CASE t = "tier4"  BY <2>4, <1>6
  <2> QED BY <2>1, <2>2, <2>3, <2>4, RegistryFacts
<1>8. Placed(q)  BY <1>1, <1>2, <1>7 DEF Placed
<1> QED BY <1>8 DEF q

-----------------------------------------------------------------------------
(* The steps: acceptance, answers and the ends of tiers.                   *)

\* A submitted request satisfies the invariant.
LEMMA InitInvariant == ASSUME Init PROVE Invariant
<1> USE DEF Init
<1>1. TypeOK
  <2>1. \A e \in Enrichers : answer[e] = Pending  OBVIOUS
  <2>2. answer \in [Enrichers -> Fragment \cup {Pending}]  OBVIOUS
  <2>3. Len(<<>>) = 0 /\ <<>> \in Seq(STRING) /\ <<>> \in Seq(Verification)
        /\ <<>> \in Seq(Fragment) /\ <<>> \in Seq(HandleRecord)
    OBVIOUS
  <2>4. dossier \in Fragment  BY EmptyTyped
  <2>5. Judged <= Len(dossier.handles)
    <3>1. dossier.handles = <<>>  BY DEF Empty
    <3> QED BY <3>1 DEF Judged
  <2>6. pc \in Stages  BY DEF Stages
  <2> QED BY <2>2, <2>3, <2>4, <2>5, <2>6 DEF TypeOK
<1>2. PlaceInv
  <2>1. pc \notin DOMAIN Registry /\ pc # "verify"  BY RegistryFacts
  <2>2. \A t \in DOMAIN Registry : pc \notin Later[t] /\ pc # t
    <3>1. pc \notin Later["tier1"] /\ pc \notin Later["tier2"]
          /\ pc \notin Later["tier3"] /\ pc \notin Later["tier4"]
      BY LaterFacts
    <3> QED BY <3>1, RegistryFacts
  <2>3. \A t \in DOMAIN Registry : \A e \in ToSet(Registry[t]) : answer[e] = Pending
    BY RegistryPartition
  <2> QED BY <2>1, <2>2, <2>3 DEF PlaceInv, Placed
<1>3. AnswersInv  BY DEF AnswersInv
<1>4. PayloadsInv  BY DEF PayloadsInv
<1>5. CandidatesInv  BY DEF CandidatesInv
<1>6. JudgedInv  BY DEF JudgedInv
<1>7. VerdictsHold
  <2>1. dossier.verified = <<>>  BY EmptyTyped
  <2>2. DOMAIN <<>> = {}  OBVIOUS
  <2> QED BY <2>1, <2>2 DEF VerdictsHold
<1>8. Vouched /\ StatusTruthful  BY DEF Vouched, StatusTruthful
<1> QED BY <1>1, <1>2, <1>3, <1>4, <1>5, <1>6, <1>7, <1>8 DEF Invariant

\* Without candidates nothing is tried or verified.
LEMMA NoVerdicts ==
  ASSUME TypeOK, candidates = <<>>
  PROVE  verified = <<>> /\ tried = 0
<1>1. Len(candidates) = 0  BY DEF TypeOK
<1>2. tried = 0 /\ Len(verified) = 0 /\ verified \in Seq(Verification)  BY <1>1 DEF TypeOK
<1> QED BY <1>2

\* The pipeline leaves a stage for the first dispatched tier from the n-th on.
LEMMA MoveOn ==
  ASSUME Invariant, NEW n \in 1..5, Reached(n),
         pc \notin {"judge", "done", "failed"}, pc' = StageFrom(n),
         payloads' \in Seq(Fragment),
         n = 1 => payloads' = <<>>, n = 2 => payloads' = Shares2, n = 3 => payloads' = Shares3,
         n = 4 => payloads' = Shares4, n = 5 => payloads' = SharesM,
         n <= 3 => candidates = <<>>,
         UNCHANGED <<setup, answer, candidates, tried, verified, dossier, kept, dropped, outcome>>
  PROVE  Invariant'
<1> DEFINE q == StageFrom(n)
<1>0. q \in {"tier1", "tier2", "tier3", "tier4", "merge"}  BY StageFromFacts
<1>1. n > 3 => q \notin {"tier1", "tier2", "tier3"}
  BY StageFromFacts
<1>2. Placed(q)  BY StagePlaced
<1>3. TypeOK /\ PlaceInv /\ AnswersInv /\ CandidatesInv /\ JudgedInv /\ VerdictsHold  BY DEF Invariant
<1>4. ~Dispatched("tier3") => verified = <<>>
  BY <1>3, NoVerdicts DEF CandidatesInv
<1>5. /\ q = "tier1" => payloads' = <<>>
      /\ q = "tier2" => payloads' = Shares2
      /\ q = "tier3" => payloads' = Shares3
      /\ q = "tier4" => payloads' = Shares4
      /\ q = "merge" => payloads' = SharesM
  <2> DEFINE p == payloads'
  <2>1. p \in Seq(Fragment) /\ (n = 1 => p = <<>>) /\ (n = 2 => p = Shares2) /\ (n = 3 => p = Shares3)
        /\ (n = 4 => p = Shares4) /\ (n = 5 => p = SharesM)
    OBVIOUS
  <2> HIDE DEF p, q
  <2>2. /\ StageFrom(n) = "tier1" => p = <<>>
        /\ StageFrom(n) = "tier2" => p = Shares2
        /\ StageFrom(n) = "tier3" => p = Shares3
        /\ StageFrom(n) = "tier4" => p = Shares4
        /\ StageFrom(n) = "merge" => p = SharesM
    BY <1>4, <2>1, StagePayloads
  <2> QED BY <2>2 DEF p, q
<1>6. pc' = q  OBVIOUS
<1> HIDE DEF q
<1>7. TypeOK'
  <2>1. q \in Stages  BY <1>0 DEF Stages, Tiers, ToSet
  <2> QED BY <2>1, <1>3, <1>6 DEF TypeOK, Judged
<1>8. PlaceInv'
  <2>1. \A t \in DOMAIN Registry : (Dispatched(t)' <=> Dispatched(t))  BY SameShares
  <2>2. Dispatched("tier3")' <=> Dispatched("tier3")  BY <2>1, RegistryFacts
  <2> QED BY <2>1, <2>2, <1>2, <1>6 DEF Placed, PlaceInv
<1>9. AnswersInv'  BY <1>3 DEF AnswersInv
<1>10. PayloadsInv'
  <2>1. Shares2' = Shares2 /\ Shares3' = Shares3 /\ Shares4' = Shares4 /\ SharesM' = SharesM
    BY SameShares
  <2> QED BY <2>1, <1>0, <1>5, <1>6 DEF PayloadsInv
<1>11. CandidatesInv'
  <2>1. Collected("tier3")' = Collected("tier3")  BY SameShares
  <2>2. Dispatched("tier3")' <=> Dispatched("tier3")  BY SameShares, RegistryFacts
  <2>3. CollectCandidates(Collected("tier3"))' = CollectCandidates(Collected("tier3"))
    BY <2>1 DEF CollectCandidates
  <2>4. ASSUME candidates # <<>>
        PROVE  /\ \A e \in ToSet(Registry["tier3"]) : answer[e] # Pending
               /\ candidates = CollectCandidates(Collected("tier3"))
    BY <2>4, <1>3 DEF CandidatesInv
  <2>5. q \in {"submitted", "rejected", "tier1", "tier2", "tier3"} \/ ~Dispatched("tier3") =>
          candidates = <<>>
    <3>1. ~Dispatched("tier3") => candidates = <<>>  BY <1>3 DEF CandidatesInv
    <3> QED BY <3>1, <1>0, <1>1
  <2> QED BY <1>0, <2>2, <2>3, <2>4, <2>5, <1>6 DEF CandidatesInv
<1>12. JudgedInv'
  BY <1>0, <1>3, <1>6 DEF JudgedInv
<1>13. VerdictsHold'  BY <1>3 DEF VerdictsHold
<1>14. Vouched' /\ StatusTruthful'  BY <1>0, <1>6 DEF Vouched, StatusTruthful
<1> QED BY <1>7, <1>8, <1>9, <1>10, <1>11, <1>12, <1>13, <1>14 DEF Invariant

\* Accepting or refusing a request keeps the invariant.
LEMMA AcceptKeeps == ASSUME Invariant, Accept PROVE Invariant'
<1>1. TypeOK /\ PlaceInv /\ AnswersInv /\ PayloadsInv /\ CandidatesInv /\ JudgedInv /\ VerdictsHold
  BY DEF Invariant
<1>2. pc = "submitted" /\ payloads = <<>> /\ candidates = <<>>
  BY <1>1 DEF Accept, PayloadsInv, CandidatesInv
<1>3. \A t \in DOMAIN Registry : \A e \in ToSet(Registry[t]) : answer[e] = Pending
  <2>1. "submitted" \notin Later["tier1"] \cup {"tier1", "failed"}
        /\ "submitted" \notin Later["tier2"] \cup {"tier2", "failed"}
        /\ "submitted" \notin Later["tier3"] \cup {"tier3", "failed"}
        /\ "submitted" \notin Later["tier4"] \cup {"tier4", "failed"}
    BY LaterFacts
  <2>2. \A t \in DOMAIN Registry : pc \notin Later[t] \cup {t, "failed"}
    BY <1>2, <2>1, RegistryFacts
  <2> QED BY <1>1, <2>2 DEF PlaceInv, Placed
<1>4. CASE Valid(setup.request)
  <2>1. pc' = StageFrom(1)  BY <1>4 DEF Accept
  <2>2. Reached(1)
    <3>1. \A m \in 1..4 : Tiers[m] \in DOMAIN Registry  BY TiersFacts, RegistryFacts
    <3> QED BY <1>3, <3>1 DEF Reached
  <2>3. payloads' = payloads /\ <<>> \in Seq(Fragment)  BY DEF Accept
  <2> QED BY <1>2, <2>1, <2>2, <2>3, MoveOn DEF Accept
<1>5. CASE ~Valid(setup.request)
  <2>1. pc' = "rejected"  BY <1>5 DEF Accept
  <2>2. UNCHANGED <<setup, answer, candidates, tried, verified, payloads, dossier, kept, dropped, outcome>>
    BY DEF Accept
  <2>3. TypeOK'  BY <1>1, <1>2, <2>1, <2>2 DEF TypeOK, Judged, Stages
  <2>4. PlaceInv'
    <3>1. "rejected" \notin DOMAIN Registry  BY RegistryFacts
    <3>2. "rejected" \notin Later["tier1"] /\ "rejected" \notin Later["tier2"]
          /\ "rejected" \notin Later["tier3"] /\ "rejected" \notin Later["tier4"]
      BY LaterFacts
    <3>3. \A t \in DOMAIN Registry : "rejected" \notin Later[t]  BY <3>2, RegistryFacts
    <3> QED BY <3>1, <3>3, <1>3, <2>1, <2>2 DEF PlaceInv, Placed
  <2>5. AnswersInv'  BY <1>1, <2>2 DEF AnswersInv
  <2>6. PayloadsInv'  BY <2>1 DEF PayloadsInv
  <2>7. CandidatesInv'  BY <1>2, <2>1, <2>2 DEF CandidatesInv
  <2>8. JudgedInv'  BY <1>1, <1>2, <2>1, <2>2 DEF JudgedInv
  <2>9. VerdictsHold'  BY <1>1, <2>2 DEF VerdictsHold
  <2>10. Vouched' /\ StatusTruthful'  BY <2>1 DEF Vouched, StatusTruthful
  <2> QED BY <2>3, <2>4, <2>5, <2>6, <2>7, <2>8, <2>9, <2>10 DEF Invariant
<1> QED BY <1>4, <1>5

\* An enricher's answer keeps the invariant: its tier is not yet collected.
LEMMA AnswerKeeps == ASSUME Invariant, NEW e \in Enrichers, Answer(e) PROVE Invariant'
<1>1. TypeOK /\ PlaceInv /\ AnswersInv /\ PayloadsInv /\ CandidatesInv /\ JudgedInv /\ VerdictsHold
  BY DEF Invariant
<1>2. pc \in DOMAIN Registry /\ e \in ToSet(Registry[pc]) /\ answer[e] = Pending
      /\ UNCHANGED <<setup, pc, candidates, tried, verified, payloads, dossier, kept, dropped, outcome>>
  BY DEF Answer
<1>3. PICK a \in Find : answer' = [answer EXCEPT ![e] = a] /\ (a # Empty => a.sources = {e})
  <2>1. CASE answer' = [answer EXCEPT ![e] = Empty]  BY <2>1, EmptyFind
  <2>2. CASE \E f \in Fragments(e) : answer' = [answer EXCEPT ![e] = Tagged(e, f)]
    BY <2>2, TaggedTyped
  <2> QED BY <2>1, <2>2 DEF Answer
<1>4. a \in Fragment /\ a.verified = <<>> /\ a # Pending  BY FragmentNotPending DEF Find
<1>5. answer \in [Enrichers -> Fragment \cup {Pending}]  BY <1>1 DEF TypeOK
<1>6. answer' \in [Enrichers -> Fragment \cup {Pending}]  BY <1>3, <1>4, <1>5
<1>7. answer'[e] = a /\ \A d \in Enrichers : d # e => answer'[d] = answer[d]  BY <1>3, <1>5
<1>8. pc \in {"tier1", "tier2", "tier3", "tier4"}  BY <1>2, RegistryFacts
<1>9. pc \notin Later[pc]  BY <1>8, LaterFacts
<1>10. TypeOK'  BY <1>1, <1>2, <1>6 DEF TypeOK, Judged
<1>11. \A t \in DOMAIN Registry : (Dispatched(t)' <=> Dispatched(t))  BY <1>2 DEF Dispatched
<1>12. \A t \in DOMAIN Registry : t # pc => \A d \in ToSet(Registry[t]) : d # e
  BY <1>2, RegistryPartition
<1>13. PlaceInv'
  <2>1. \A t \in DOMAIN Registry : \A d \in ToSet(Registry[t]) :
          /\ pc' \in Later[t] /\ Dispatched(t)' => answer'[d] # Pending
          /\ ~Dispatched(t)' \/ pc' \notin Later[t] \cup {t, "failed"} => answer'[d] = Pending
    <3> TAKE t \in DOMAIN Registry
    <3> TAKE d \in ToSet(Registry[t])
    <3>0. d \in Enrichers  BY RegistryPartition
    <3>1. CASE t = pc
      <4>1. Dispatched(pc)  BY <1>1, <1>2 DEF PlaceInv, Placed
      <4> QED BY <3>1, <4>1, <1>2, <1>9, <1>11
    <3>2. CASE t # pc
      <4>1. answer'[d] = answer[d]  BY <3>0, <3>2, <1>7, <1>12
      <4> QED BY <4>1, <1>1, <1>2, <1>11 DEF PlaceInv, Placed
    <3> QED BY <3>1, <3>2
  <2>2. (pc \in DOMAIN Registry => Dispatched(pc))'  BY <1>1, <1>2 DEF PlaceInv, Placed, Dispatched
  <2>3. pc' # "verify"  BY <1>2, <1>8
  <2> QED BY <2>1, <2>2, <2>3 DEF PlaceInv, Placed
<1>14. AnswersInv'
  BY <1>1, <1>3, <1>4, <1>7 DEF AnswersInv
<1>15. \A t \in DOMAIN Registry : t # pc => Collected(t)' = Collected(t)
  <2> TAKE t \in DOMAIN Registry
  <2> SUFFICES ASSUME t # pc PROVE Collected(t)' = Collected(t)  OBVIOUS
  <2>1. \A i \in DOMAIN Registry[t] : answer'[Registry[t][i]] = answer[Registry[t][i]]
    <3> TAKE i \in DOMAIN Registry[t]
    <3>1. Registry[t][i] \in ToSet(Registry[t])  BY DEF ToSet
    <3>2. Registry[t][i] \in Enrichers /\ Registry[t][i] # e  BY <3>1, <1>12, RegistryPartition
    <3> QED BY <3>2, <1>7
  <2> QED BY <2>1 DEF Collected
<1>16. \A t \in DOMAIN Registry : t # pc => Share(t)' = Share(t)  BY <1>11, <1>15 DEF Share
<1>17. PayloadsInv'
  <2>1. VerifyShare' = VerifyShare  BY <1>2 DEF VerifyShare
  <2>2. CASE pc = "tier1"  BY <2>2, <1>1, <1>2 DEF PayloadsInv
  <2>3. CASE pc = "tier2"
    <3>1. Share("tier1")' = Share("tier1")  BY <2>3, <1>16, RegistryFacts
    <3> QED BY <2>3, <3>1, <1>1, <1>2 DEF PayloadsInv, Shares2
  <2>4. CASE pc = "tier3"
    <3>1. Share("tier1")' = Share("tier1") /\ Share("tier2")' = Share("tier2")
      BY <2>4, <1>16, RegistryFacts
    <3> QED BY <2>4, <3>1, <1>1, <1>2 DEF PayloadsInv, Shares2, Shares3
  <2>5. CASE pc = "tier4"
    <3>1. Share("tier1")' = Share("tier1") /\ Share("tier2")' = Share("tier2")
          /\ Share("tier3")' = Share("tier3")
      BY <2>5, <1>16, RegistryFacts
    <3>2. Shares4' = Shares4  BY <3>1, <2>1 DEF Shares2, Shares3, SharesV, Shares4
    <3> QED BY <2>5, <3>2, <1>1, <1>2 DEF PayloadsInv
  <2> QED BY <2>2, <2>3, <2>4, <2>5, <1>8
<1>18. CandidatesInv'
  <2>1. CASE candidates = <<>>
    <3>1. pc \notin {"verify"}  BY <1>8, RegistryFacts
    <3> QED BY <2>1, <3>1, <1>2 DEF CandidatesInv
  <2>2. CASE candidates # <<>>
    <3>1. pc # "tier3"  BY <2>2, <1>1 DEF CandidatesInv
    <3>2. Collected("tier3")' = Collected("tier3")  BY <3>1, <1>15, RegistryFacts
    <3>3. CollectCandidates(Collected("tier3"))' = CollectCandidates(Collected("tier3"))
      BY <3>2, <1>2 DEF CollectCandidates
    <3>4. Dispatched("tier3")' <=> Dispatched("tier3")  BY <1>11, RegistryFacts
    <3>5. \A d \in ToSet(Registry["tier3"]) : answer'[d] # Pending
      <4> TAKE d \in ToSet(Registry["tier3"])
      <4>1. d \in Enrichers /\ d # e  BY <3>1, <1>12, RegistryPartition, RegistryFacts
      <4> QED BY <4>1, <2>2, <1>1, <1>7 DEF CandidatesInv
    <3> QED BY <3>3, <3>4, <3>5, <1>1, <1>2 DEF CandidatesInv
  <2> QED BY <2>1, <2>2
<1>19. JudgedInv'  BY <1>1, <1>2, <1>8 DEF JudgedInv
<1>20. VerdictsHold'  BY <1>1, <1>2 DEF VerdictsHold
<1>21. Vouched' /\ StatusTruthful'  BY <1>2, <1>8 DEF Vouched, StatusTruthful
<1> QED BY <1>10, <1>13, <1>14, <1>17, <1>18, <1>19, <1>20, <1>21 DEF Invariant

\* How far the pipeline has come when a tier ends.
LEMMA TierReached ==
  ASSUME PlaceInv, pc \in DOMAIN Registry, \A e \in ToSet(Registry[pc]) : answer[e] # Pending
  PROVE  /\ pc = "tier1" => Reached(2)
         /\ pc = "tier2" => Reached(3)
         /\ pc = "tier3" => Reached(4)
         /\ pc = "tier4" => Reached(5)
<1>1. \A t \in DOMAIN Registry : \A e \in ToSet(Registry[t]) :
          /\ pc \in Later[t] /\ Dispatched(t) => answer[e] # Pending
          /\ ~Dispatched(t) \/ pc \notin Later[t] \cup {t, "failed"} => answer[e] = Pending
  BY DEF PlaceInv, Placed
<1>2. Dispatched(pc)  BY DEF PlaceInv, Placed
<1> DEFINE Before(t) == \A e \in ToSet(Registry[t]) :
               /\ Dispatched(t) => answer[e] # Pending
               /\ ~Dispatched(t) => answer[e] = Pending
           After0(t) == \A e \in ToSet(Registry[t]) : answer[e] = Pending
<1>3. \A t \in DOMAIN Registry : pc \in Later[t] \/ t = pc => Before(t)
  BY <1>1, <1>2
<1>4. \A t \in DOMAIN Registry : pc \notin Later[t] \cup {t, "failed"} => After0(t)
  BY <1>1
<1> HIDE DEF Before, After0
<1>5. ASSUME NEW n \in 2..5,
             1 < n => Before("tier1"), 2 < n => Before("tier2"), 3 < n => Before("tier3"), 4 < n => Before("tier4"),
             2 >= n => After0("tier2"), 3 >= n => After0("tier3"), 4 >= n => After0("tier4")
      PROVE  Reached(n)
  <2> SUFFICES ASSUME NEW m \in 1..4, NEW e \in ToSet(Registry[Tiers[m]])
               PROVE  /\ m < n /\ Dispatched(Tiers[m]) => answer[e] # Pending
                      /\ m >= n \/ ~Dispatched(Tiers[m]) => answer[e] = Pending
    BY DEF Reached
  <2>1. m = 1 \/ m = 2 \/ m = 3 \/ m = 4  OBVIOUS
  <2>2. m < n => Before(Tiers[m])  BY <1>5, <2>1, TiersFacts
  <2>3. m >= n => After0(Tiers[m])  BY <1>5, <2>1, TiersFacts
  <2> QED BY <2>1, <2>2, <2>3 DEF Before, After0
<1>6. CASE pc = "tier1"
  <2>1. Before("tier1")  BY <1>3, <1>6, RegistryFacts
  <2>2. After0("tier2")  BY <1>4, <1>6, RegistryFacts, LaterFacts
  <2>3. After0("tier3")  BY <1>4, <1>6, RegistryFacts, LaterFacts
  <2>4. After0("tier4")  BY <1>4, <1>6, RegistryFacts, LaterFacts
  <2>5. Reached(2)  BY <2>1, <2>2, <2>3, <2>4, <1>5
  <2> QED BY <2>5, <1>6
<1>7. CASE pc = "tier2"
  <2>1. Before("tier1")  BY <1>3, <1>7, RegistryFacts, LaterFacts
  <2>2. Before("tier2")  BY <1>3, <1>7, RegistryFacts
  <2>3. After0("tier3")  BY <1>4, <1>7, RegistryFacts, LaterFacts
  <2>4. After0("tier4")  BY <1>4, <1>7, RegistryFacts, LaterFacts
  <2>5. Reached(3)  BY <2>1, <2>2, <2>3, <2>4, <1>5
  <2> QED BY <2>5, <1>7
<1>8. CASE pc = "tier3"
  <2>1. Before("tier1")  BY <1>3, <1>8, RegistryFacts, LaterFacts
  <2>2. Before("tier2")  BY <1>3, <1>8, RegistryFacts, LaterFacts
  <2>3. Before("tier3")  BY <1>3, <1>8, RegistryFacts
  <2>4. After0("tier4")  BY <1>4, <1>8, RegistryFacts, LaterFacts
  <2>5. Reached(4)  BY <2>1, <2>2, <2>3, <2>4, <1>5
  <2> QED BY <2>5, <1>8
<1>9. CASE pc = "tier4"
  <2>1. Before("tier1")  BY <1>3, <1>9, RegistryFacts, LaterFacts
  <2>2. Before("tier2")  BY <1>3, <1>9, RegistryFacts, LaterFacts
  <2>3. Before("tier3")  BY <1>3, <1>9, RegistryFacts, LaterFacts
  <2>4. Before("tier4")  BY <1>3, <1>9, RegistryFacts
  <2>5. Reached(5)  BY <2>1, <2>2, <2>3, <2>4, <1>5
  <2> QED BY <2>5, <1>9
<1> QED BY <1>6, <1>7, <1>8, <1>9, RegistryFacts

\* When the verification runs, the first three tiers have answered.
LEMMA VerifyReached ==
  ASSUME PlaceInv, pc = "verify"
  PROVE  Reached(4) /\ Dispatched("tier3")
<1>1. \A t \in DOMAIN Registry : \A e \in ToSet(Registry[t]) :
          /\ pc \in Later[t] /\ Dispatched(t) => answer[e] # Pending
          /\ ~Dispatched(t) \/ pc \notin Later[t] \cup {t, "failed"} => answer[e] = Pending
  BY DEF PlaceInv, Placed
<1>2. pc \in Later["tier1"] /\ pc \in Later["tier2"] /\ pc \in Later["tier3"]
      /\ pc \notin Later["tier4"] \cup {"tier4", "failed"}
  BY LaterFacts
<1>3. ASSUME NEW m \in 1..4, NEW e \in ToSet(Registry[Tiers[m]])
      PROVE  /\ m < 4 /\ Dispatched(Tiers[m]) => answer[e] # Pending
             /\ m >= 4 \/ ~Dispatched(Tiers[m]) => answer[e] = Pending
  <2>1. m = 1 \/ m = 2 \/ m = 3 \/ m = 4  OBVIOUS
  <2>2. Tiers[m] \in DOMAIN Registry  BY TiersFacts, RegistryFacts
  <2>3. m < 4 => pc \in Later[Tiers[m]]  BY <2>1, <1>2, TiersFacts
  <2>4. m = 4 => pc \notin Later[Tiers[m]] \cup {Tiers[m], "failed"}  BY <1>2, TiersFacts
  <2> QED BY <2>1, <2>2, <2>3, <2>4, <1>1
<1> QED BY <1>3 DEF Reached, PlaceInv, Placed

\* The stage after each stage.
LEMMA AfterFacts == After["tier1"] = 2 /\ After["tier2"] = 3 /\ After["verify"] = 4 /\ After["tier4"] = 5
BY DEF After

\* The end of a tier keeps the invariant: its share is appended.
LEMMA EndTierKeeps == ASSUME Invariant, EndTier PROVE Invariant'
<1>1. TypeOK /\ PlaceInv /\ AnswersInv /\ PayloadsInv /\ CandidatesInv /\ JudgedInv /\ VerdictsHold
  BY DEF Invariant
<1>2. pc \in DOMAIN Registry /\ (\A e \in ToSet(Registry[pc]) : answer[e] # Pending)
      /\ payloads' = payloads \o Collected(pc)
      /\ UNCHANGED <<setup, answer, tried, verified, dossier, kept, dropped, outcome>>
  BY DEF EndTier
<1>3. pc \in {"tier1", "tier2", "tier3", "tier4"}  BY <1>2, RegistryFacts
<1>4. Share(pc) = Collected(pc) /\ Collected(pc) \in Seq(Fragment)
  <2>1. Dispatched(pc)  BY <1>1, <1>2 DEF PlaceInv, Placed
  <2>2. Collected(pc) \in Seq(Fragment)  BY <1>1, <1>2, CollectedTyped
  <2> QED BY <2>1, <2>2 DEF Share
<1>5. payloads' = payloads \o Share(pc)  BY <1>2, <1>4
<1>6. payloads \in Seq(Fragment)  BY <1>1 DEF TypeOK
<1>7. payloads' \in Seq(Fragment)
  <2>1. Share(pc) \in Seq(Fragment)  BY <1>4
  <2> QED BY <2>1, <1>5, <1>6, ConcatProperties
<1>8. pc \notin {"judge", "done", "failed"}  BY <1>3
<1>9. CASE pc = "tier1"
  <2>1. Reached(2)  BY <1>1, <1>2, <1>9, TierReached
  <2>2. payloads' = Shares2
    <3>1. payloads = <<>>  BY <1>1, <1>9 DEF PayloadsInv
    <3>2. <<>> \o Share("tier1") = Share("tier1")  BY <1>4, <1>9, ConcatEmptySeq
    <3> QED BY <3>1, <3>2, <1>5, <1>9 DEF Shares2
  <2>3. candidates = <<>>  BY <1>1, <1>9 DEF CandidatesInv
  <2>4. pc' = StageFrom(2) /\ candidates' = candidates  BY <1>9, AfterFacts DEF EndTier
  <2>5. 2 \in 1..5  OBVIOUS
  <2> QED BY <2>1, <2>2, <2>3, <2>4, <2>5, <1>2, <1>7, <1>8, MoveOn
<1>10. CASE pc = "tier2"
  <2>1. Reached(3)  BY <1>1, <1>2, <1>10, TierReached
  <2>2. payloads' = Shares3
    <3>1. payloads = Shares2  BY <1>1, <1>10 DEF PayloadsInv
    <3> QED BY <3>1, <1>5, <1>10 DEF Shares3
  <2>3. candidates = <<>>  BY <1>1, <1>10 DEF CandidatesInv
  <2>4. pc' = StageFrom(3) /\ candidates' = candidates  BY <1>10, AfterFacts DEF EndTier
  <2>5. 3 \in 1..5  OBVIOUS
  <2> QED BY <2>1, <2>2, <2>3, <2>4, <2>5, <1>2, <1>7, <1>8, MoveOn
<1>11. CASE pc = "tier4"
  <2>1. Reached(5)  BY <1>1, <1>2, <1>11, TierReached
  <2>2. payloads' = SharesM
    <3>1. payloads = Shares4  BY <1>1, <1>11 DEF PayloadsInv
    <3> QED BY <3>1, <1>5, <1>11 DEF SharesM
  <2>4. pc' = StageFrom(5) /\ candidates' = candidates  BY <1>11, AfterFacts DEF EndTier
  <2>5. 5 \in 1..5  OBVIOUS
  <2> QED BY <2>1, <2>2, <2>4, <2>5, <1>2, <1>7, <1>8, MoveOn
<1>12. CASE pc = "tier3"
  <2>1. pc' = "verify" /\ candidates' = CollectCandidates(Collected("tier3"))  BY <1>12 DEF EndTier
  <2>2. candidates = <<>>  BY <1>1, <1>12 DEF CandidatesInv
  <2>3. verified = <<>> /\ tried = 0  BY <1>1, <2>2, NoVerdicts
  <2>4. Collected("tier3") \in Seq(Fragment)  BY <1>4, <1>12
  <2>5. candidates' \in Seq(STRING)
    <3> DEFINE c == CollectCandidates(Collected("tier3"))
    <3>1. setup.request \in Submitted  BY <1>1 DEF TypeOK
    <3>2. c \in Seq(STRING)  BY <2>4, <3>1, CandidatesFacts
    <3> QED BY <3>2, <2>1
  <2>6. TypeOK'
    <3>1. Len(candidates') \in Nat  BY <2>5
    <3>2. 0 \in 0..Len(candidates') /\ Len(verified) <= 0  BY <3>1, <2>3
    <3>3. Judged <= Len(dossier.handles)  BY <1>1, <1>12 DEF TypeOK
    <3> QED BY <1>1, <1>2, <1>7, <2>1, <2>3, <2>5, <3>2, <3>3 DEF TypeOK, Judged, Stages
  <2>7. Dispatched("tier3")  BY <1>1, <1>2, <1>12 DEF PlaceInv, Placed
  <2>8. \A t \in DOMAIN Registry : (Dispatched(t)' <=> Dispatched(t))  BY <1>2, SameShares
  <2>9. Reached(4)  BY <1>1, <1>2, <1>12, TierReached
  <2>10. PlaceInv'
    <3>1. "verify" \notin DOMAIN Registry  BY RegistryFacts
    <3>2. Dispatched("tier3")'  BY <2>7, <2>8, RegistryFacts
    <3>3. ASSUME NEW t \in DOMAIN Registry, NEW e \in ToSet(Registry[t])
          PROVE  /\ "verify" \in Later[t] /\ Dispatched(t) => answer[e] # Pending
                 /\ ~Dispatched(t) \/ "verify" \notin Later[t] \cup {t, "failed"} => answer[e] = Pending
      <4>1. PICK m \in 1..4 : t = Tiers[m]  BY TiersFacts
      <4>2. /\ m < 4 /\ Dispatched(t) => answer[e] # Pending
            /\ m >= 4 \/ ~Dispatched(t) => answer[e] = Pending
        BY <4>1, <2>9 DEF Reached
      <4>3. m < 4 => "verify" \in Later[t]
        <5>1. m = 1 \/ m = 2 \/ m = 3 \/ m = 4  OBVIOUS
        <5> QED BY <5>1, <4>1, TiersFacts, LaterFacts
      <4>4. m = 4 => "verify" \notin Later[t]  BY <4>1, TiersFacts, LaterFacts
      <4> QED BY <4>2, <4>3, <4>4
    <3> QED BY <3>1, <3>2, <3>3, <1>2, <2>1, <2>8 DEF PlaceInv, Placed
  <2>11. AnswersInv'  BY <1>1, <1>2 DEF AnswersInv
  <2>12. PayloadsInv'
    <3>1. payloads = Shares3  BY <1>1, <1>12 DEF PayloadsInv
    <3>2. payloads' = SharesV  BY <3>1, <1>5, <1>12 DEF SharesV
    <3>3. SharesV' = SharesV  BY <1>2, SameShares
    <3> QED BY <3>2, <3>3, <2>1 DEF PayloadsInv
  <2>13. CandidatesInv'
    <3>1. Collected("tier3")' = Collected("tier3")  BY <1>2, SameShares
    <3>2. CollectCandidates(Collected("tier3"))' = CollectCandidates(Collected("tier3"))
      BY <3>1, <1>2 DEF CollectCandidates
    <3>3. Dispatched("tier3")'  BY <2>7, <2>8, RegistryFacts
    <3> QED BY <3>2, <3>3, <1>2, <1>12, <2>1 DEF CandidatesInv
  <2>14. JudgedInv'  BY <1>1, <1>2, <1>8, <2>1 DEF JudgedInv
  <2>15. VerdictsHold'  BY <1>1, <1>2 DEF VerdictsHold
  <2>16. Vouched' /\ StatusTruthful'  BY <2>1 DEF Vouched, StatusTruthful
  <2> QED BY <2>6, <2>10, <2>11, <2>12, <2>13, <2>14, <2>15, <2>16 DEF Invariant
<1> QED BY <1>3, <1>9, <1>10, <1>11, <1>12

-----------------------------------------------------------------------------
(* The steps: verification.                                                *)

\* EmailVerifier.verify never overrides a verdict Reacher is sure of, and
\* only Reacher verifies.
LEMMA VerdictTyped ==
  ASSUME NEW addr \in STRING, NEW said \in Said, NEW v, v = Verdict(addr, said)
  PROVE  /\ v \in Verification
         /\ v.reacher \in Conclusive => v.status = v.reacher
         /\ v.status = "verified" => v.reacher = "verified"
<1> DEFINE reacher == IF setup.mode.smtp THEN said.reacher ELSE "none"
           Statuses == Conclusive \cup {"unknown", "deliverable", "disposable"}
           Sources == {"reacher", "aftership", "mx", "syntax", "mailchecker"}
           Words == Conclusive \cup {"unknown", "none"}
           Good(status, source) ==
             /\ status \in Statuses /\ source \in Sources /\ reacher \in Words
             /\ reacher \in Conclusive => status = reacher
             /\ status = "verified" => reacher = "verified"
<1>1. reacher \in Words /\ said.mx \in {"yes", "no", "none"}
      /\ said.aftership \in {"deliverable", "risky", "none"}
  BY DEF Said
<1>2. v = IF reacher \in Conclusive THEN Result(addr, reacher, "reacher", reacher)
          ELSE IF said.aftership # "none" THEN Result(addr, said.aftership, "aftership", reacher)
          ELSE IF reacher # "none" THEN Result(addr, reacher, "reacher", reacher)
          ELSE Result(addr, ByMx[said.mx], IF said.mx = "none" THEN "syntax" ELSE "mx", reacher)
  BY DEF Verdict
<1> HIDE DEF reacher
<1>3. ASSUME NEW status, NEW source, Good(status, source), v = Result(addr, status, source, reacher)
      PROVE  /\ v \in Verification
             /\ v.reacher \in Conclusive => v.status = v.reacher
             /\ v.status = "verified" => v.reacher = "verified"
  BY <1>3 DEF Verification, Result
<1>4. CASE reacher \in Conclusive
  <2>1. v = Result(addr, reacher, "reacher", reacher)  BY <1>2, <1>4
  <2>2. Good(reacher, "reacher")  BY <1>1, <1>4
  <2> HIDE DEF Good
  <2> QED BY <1>3, <2>1, <2>2
<1>5. CASE reacher \notin Conclusive /\ said.aftership # "none"
  <2>1. v = Result(addr, said.aftership, "aftership", reacher)  BY <1>2, <1>5
  <2>2. Good(said.aftership, "aftership")  BY <1>1, <1>5 DEF Conclusive
  <2> HIDE DEF Good
  <2> QED BY <1>3, <2>1, <2>2
<1>6. CASE reacher \notin Conclusive /\ said.aftership = "none" /\ reacher # "none"
  <2>1. v = Result(addr, reacher, "reacher", reacher)  BY <1>2, <1>6
  <2>2. Good(reacher, "reacher")  BY <1>1, <1>6 DEF Conclusive
  <2> HIDE DEF Good
  <2> QED BY <1>3, <2>1, <2>2
<1>7. CASE reacher \notin Conclusive /\ said.aftership = "none" /\ reacher = "none"
  <2> DEFINE source == IF said.mx = "none" THEN "syntax" ELSE "mx"
  <2>1. v = Result(addr, ByMx[said.mx], source, reacher)  BY <1>2, <1>7
  <2>2. ByMx[said.mx] \in {"deliverable", "undeliverable", "unknown"}  BY <1>1 DEF ByMx
  <2>3. Good(ByMx[said.mx], source)  BY <1>1, <1>7, <2>2 DEF Conclusive
  <2> HIDE DEF Good, source
  <2> QED BY <1>3, <2>1, <2>3
<1> QED BY <1>4, <1>5, <1>6, <1>7

\* The result for a disposable address claims nothing of Reacher.
LEMMA DisposableTyped ==
  ASSUME NEW addr \in STRING, NEW v, v = Result(addr, "disposable", "mailchecker", "none")
  PROVE  /\ v \in Verification
         /\ v.reacher \in Conclusive => v.status = v.reacher
         /\ v.status = "verified" => v.reacher = "verified"
BY DEF Verification, Result, Conclusive

\* A list with one more element.
LEMMA AppendOne ==
  ASSUME NEW S, NEW s \in Seq(S), NEW x \in S
  PROVE  /\ Append(s, x) \in Seq(S) /\ Len(Append(s, x)) = Len(s) + 1
         /\ \A i \in DOMAIN Append(s, x) :
               \/ i \in DOMAIN s /\ Append(s, x)[i] = s[i]
               \/ i = Len(s) + 1 /\ Append(s, x)[i] = x
         /\ \A i \in DOMAIN s : i \in DOMAIN Append(s, x) /\ Append(s, x)[i] = s[i]
         /\ Len(s) + 1 \in DOMAIN Append(s, x) /\ Append(s, x)[Len(s) + 1] = x
OBVIOUS

\* Verifying one address keeps the invariant.
LEMMA VerifyKeeps == ASSUME Invariant, Verify PROVE Invariant'
<1>1. TypeOK /\ PlaceInv /\ AnswersInv /\ PayloadsInv /\ CandidatesInv /\ JudgedInv /\ VerdictsHold
  BY DEF Invariant
<1>2. pc = "verify" /\ tried < Len(candidates) /\ tried' = tried + 1
      /\ UNCHANGED <<setup, pc, answer, candidates, payloads, dossier, kept, dropped, outcome>>
  BY DEF Verify
<1>3. candidates \in Seq(STRING) /\ tried \in 0..Len(candidates)
      /\ verified \in Seq(Verification) /\ Len(verified) <= tried
  BY <1>1 DEF TypeOK
<1>4. candidates[tried + 1] \in STRING  BY <1>2, <1>3
<1>5. \/ verified' = verified
      \/ \E v \in Verification :
            /\ verified' = Append(verified, v)
            /\ v.reacher \in Conclusive => v.status = v.reacher
            /\ v.status = "verified" => v.reacher = "verified"
  <2> DEFINE addr == candidates[tried + 1]
  <2>1. CASE verified' = verified  BY <2>1
  <2>2. CASE verified' = Append(verified, Result(addr, "disposable", "mailchecker", "none"))
    <3> DEFINE v == Result(addr, "disposable", "mailchecker", "none")
    <3>1. /\ v \in Verification
          /\ v.reacher \in Conclusive => v.status = v.reacher
          /\ v.status = "verified" => v.reacher = "verified"
      <4> HIDE DEF addr
      <4>1. addr \in STRING  BY <1>4 DEF addr
      <4> QED BY <4>1, DisposableTyped
    <3> HIDE DEF v
    <3>2. verified' = Append(verified, v)  BY <2>2 DEF v
    <3> QED BY <3>1, <3>2
  <2>3. CASE \E said \in Said : verified' = Append(verified, Verdict(addr, said))
    <3>1. PICK said \in Said : verified' = Append(verified, Verdict(addr, said))  BY <2>3
    <3> DEFINE v == Verdict(addr, said)
    <3>2. /\ v \in Verification
          /\ v.reacher \in Conclusive => v.status = v.reacher
          /\ v.status = "verified" => v.reacher = "verified"
      <4> HIDE DEF addr
      <4>1. addr \in STRING  BY <1>4 DEF addr
      <4> QED BY <4>1, VerdictTyped
    <3> HIDE DEF v
    <3>3. verified' = Append(verified, v)  BY <3>1 DEF v
    <3> QED BY <3>2, <3>3
  <2> QED BY <2>1, <2>2, <2>3 DEF Verify
<1>6. verified' \in Seq(Verification) /\ Len(verified') <= tried + 1
      /\ \A i \in DOMAIN verified' :
            /\ verified'[i].reacher \in Conclusive => verified'[i].status = verified'[i].reacher
            /\ verified'[i].status = "verified" => verified'[i].reacher = "verified"
  <2>0. \A i \in DOMAIN verified :
            /\ verified[i].reacher \in Conclusive => verified[i].status = verified[i].reacher
            /\ verified[i].status = "verified" => verified[i].reacher = "verified"
    BY <1>1 DEF VerdictsHold
  <2>1. CASE verified' = verified  BY <2>0, <2>1, <1>3
  <2>2. CASE verified' # verified
    <3>1. PICK v \in Verification :
            /\ verified' = Append(verified, v)
            /\ v.reacher \in Conclusive => v.status = v.reacher
            /\ v.status = "verified" => v.reacher = "verified"
      BY <2>2, <1>5
    <3>2. verified' \in Seq(Verification) /\ Len(verified') = Len(verified) + 1
      BY <3>1, <1>3, AppendOne
    <3>3. \A i \in DOMAIN verified' :
             (i \in DOMAIN verified /\ verified'[i] = verified[i]) \/ verified'[i] = v
      BY <3>1, <1>3, AppendOne
    <3> QED BY <2>0, <3>1, <3>2, <3>3, <1>3
  <2> QED BY <2>1, <2>2
<1>7. TypeOK'
  <2>1. tried + 1 \in 0..Len(candidates)  BY <1>2, <1>3
  <2> QED BY <1>1, <1>2, <1>6, <2>1 DEF TypeOK, Judged
<1>8. PlaceInv'
  <2>1. \A t \in DOMAIN Registry : (Dispatched(t)' <=> Dispatched(t))  BY <1>2, SameShares
  <2>2. Dispatched("tier3")' <=> Dispatched("tier3")  BY <2>1, RegistryFacts
  <2> QED BY <1>1, <1>2, <2>1, <2>2 DEF PlaceInv, Placed
<1>9. AnswersInv'  BY <1>1, <1>2 DEF AnswersInv
<1>10. PayloadsInv'
  <2>1. SharesV' = SharesV  BY <1>2, SameShares
  <2> QED BY <1>1, <1>2, <2>1 DEF PayloadsInv
<1>11. CandidatesInv'
  <2>1. Collected("tier3")' = Collected("tier3")  BY <1>2, SameShares
  <2>2. Dispatched("tier3")' <=> Dispatched("tier3")  BY <1>2, SameShares, RegistryFacts
  <2>3. CollectCandidates(Collected("tier3"))' = CollectCandidates(Collected("tier3"))
    BY <2>1, <1>2 DEF CollectCandidates
  <2> QED BY <1>1, <1>2, <2>2, <2>3 DEF CandidatesInv
<1>12. JudgedInv'  BY <1>1, <1>2 DEF JudgedInv
<1>13. VerdictsHold'
  <2>1. \A i \in DOMAIN dossier.verified :
            /\ dossier.verified[i].reacher \in Conclusive => dossier.verified[i].status = dossier.verified[i].reacher
            /\ dossier.verified[i].status = "verified" => dossier.verified[i].reacher = "verified"
    BY <1>1 DEF VerdictsHold
  <2> QED BY <2>1, <1>2, <1>6 DEF VerdictsHold
<1>14. Vouched' /\ StatusTruthful'  BY <1>2 DEF Vouched, StatusTruthful
<1> QED BY <1>7, <1>8, <1>9, <1>10, <1>11, <1>12, <1>13, <1>14 DEF Invariant

\* The run stops where it is: nothing of what was collected changes.
LEMMA FailKeeps ==
  ASSUME Invariant, pc \in {"verify", "judge"}, pc' = "failed",
         UNCHANGED <<setup, answer, candidates, tried, verified, payloads, dossier, kept, dropped, outcome>>
  PROVE  Invariant'
<1>1. TypeOK /\ PlaceInv /\ AnswersInv /\ PayloadsInv /\ CandidatesInv /\ JudgedInv /\ VerdictsHold
  BY DEF Invariant
<1>2. TypeOK'  BY <1>1 DEF TypeOK, Judged, Stages
<1>3. PlaceInv'
  <2>1. \A t \in DOMAIN Registry : (Dispatched(t)' <=> Dispatched(t))  BY SameShares
  <2>2. "failed" \notin DOMAIN Registry  BY RegistryFacts
  <2>3. \A t \in DOMAIN Registry : "failed" \notin Later[t]
    <3>1. "failed" \notin Later["tier1"] /\ "failed" \notin Later["tier2"]
          /\ "failed" \notin Later["tier3"] /\ "failed" \notin Later["tier4"]
      BY LaterFacts
    <3> QED BY <3>1, RegistryFacts
  <2> QED BY <1>1, <2>1, <2>2, <2>3 DEF PlaceInv, Placed
<1>4. AnswersInv'  BY <1>1 DEF AnswersInv
<1>5. PayloadsInv'  BY DEF PayloadsInv
<1>6. CandidatesInv'
  <2>1. Collected("tier3")' = Collected("tier3")  BY SameShares
  <2>2. Dispatched("tier3")' <=> Dispatched("tier3")  BY SameShares, RegistryFacts
  <2>3. CollectCandidates(Collected("tier3"))' = CollectCandidates(Collected("tier3"))
    BY <2>1 DEF CollectCandidates
  <2> QED BY <1>1, <2>2, <2>3 DEF CandidatesInv
<1>7. JudgedInv'  BY <1>1 DEF JudgedInv
<1>8. VerdictsHold'  BY <1>1 DEF VerdictsHold
<1>9. Vouched' /\ StatusTruthful'  BY DEF Vouched, StatusTruthful
<1> QED BY <1>2, <1>3, <1>4, <1>5, <1>6, <1>7, <1>8, <1>9 DEF Invariant

\* The end of the verification keeps the invariant.
LEMMA EndVerifyKeeps == ASSUME Invariant, EndVerify PROVE Invariant'
<1>1. TypeOK /\ PlaceInv /\ PayloadsInv  BY DEF Invariant
<1>2. pc = "verify" /\ pc' = StageFrom(4)
      /\ UNCHANGED <<setup, answer, candidates, tried, verified, dossier, kept, dropped, outcome>>
  BY AfterFacts DEF EndVerify
<1>3. Reached(4)  BY <1>1, <1>2, VerifyReached
<1>4. payloads = SharesV /\ payloads \in Seq(Fragment)  BY <1>1, <1>2 DEF PayloadsInv, TypeOK
<1>5. payloads' = Shares4
  <2>1. CASE verified = <<>>
    <3>1. VerifyShare = <<>>  BY <2>1 DEF VerifyShare
    <3>2. payloads \o <<>> = payloads  BY <1>4, ConcatEmptySeq
    <3>3. payloads' = payloads  BY <2>1 DEF EndVerify
    <3> QED BY <3>1, <3>2, <3>3, <1>4 DEF Shares4
  <2>2. CASE verified # <<>>
    <3> DEFINE f == [Empty EXCEPT !.verified = verified, !.sources = {"email_verify"}]
    <3>1. payloads' = Append(payloads, f)  BY <2>2 DEF EndVerify
    <3>2. VerifyShare = <<f>>  BY <2>2 DEF VerifyShare
    <3>3. f \in Fragment
      <4> HIDE DEF f
      <4>1. VerifyShare \in Seq(Fragment)  BY <1>1, VerifyShareTyped
      <4>2. Len(<<f>>) = 1 /\ <<f>>[1] = f  OBVIOUS
      <4> DEFINE x == VerifyShare
      <4>3. x \in Seq(Fragment) /\ Len(x) = 1 /\ x[1] = f  BY <4>1, <4>2, <3>2
      <4> HIDE DEF x
      <4> QED BY <4>3
    <3> HIDE DEF f
    <3>4. Append(payloads, f) = payloads \o <<f>>  BY <1>4, <3>3, AppendIsConcat
    <3> QED BY <3>1, <3>2, <3>4, <1>4 DEF Shares4
  <2> QED BY <2>1, <2>2
<1>6. payloads' \in Seq(Fragment)
  <2>1. Shares4 = payloads \o VerifyShare  BY <1>4 DEF Shares4
  <2>2. VerifyShare \in Seq(Fragment)  BY <1>1, VerifyShareTyped
  <2> QED BY <1>4, <1>5, <2>1, <2>2, ConcatProperties
<1>7. 4 \in 1..5 /\ pc \notin {"judge", "done", "failed"}  BY <1>2
<1> QED BY <1>2, <1>3, <1>5, <1>6, <1>7, MoveOn

-----------------------------------------------------------------------------
(* What the merge computes.                                                *)

\* The merge of the handles: each profile once, in its best version.
BestOf(M, offers) ==
    /\ Len(M) = Cardinality({Key(offers[i]) : i \in DOMAIN offers})
    /\ \A i, j \in DOMAIN M : Key(M[i]) = Key(M[j]) => i = j
    /\ \A h \in ToSet(offers) : \E i \in DOMAIN M : Key(M[i]) = Key(h)
    /\ \A i \in DOMAIN M : \E o \in DOMAIN offers :
          /\ offers[o] = M[i]
          /\ \A p \in DOMAIN offers : Key(offers[p]) = Key(M[i]) =>
                /\ offers[p].conf <= M[i].conf
                /\ p < o => offers[p].conf < M[i].conf

\* merge_payloads gives each profile once, as its surest finder found it.
LEMMA HandlesMerged ==
  ASSUME NEW offers, offers \in Seq(HandleRecord), NEW M, M = MergeHandles(offers)
  PROVE  /\ M \in Seq(HandleRecord)
         /\ M = <<>> <=> offers = <<>>
         /\ BestOf(M, offers)
<1> DEFINE K == {Key(offers[i]) : i \in DOMAIN offers}
           keys == Keys(offers)
           ranks == [i \in DOMAIN offers |-> offers[i].conf]
<1>1. DOMAIN offers = 1..Len(offers) /\ Len(offers) \in Nat /\ \A i \in DOMAIN offers : offers[i] \in HandleRecord
  OBVIOUS
<1>2. keys \in Seq(K) /\ Len(keys) = Len(offers)
  <2>1. DOMAIN keys = DOMAIN offers /\ keys = [i \in DOMAIN offers |-> keys[i]]  BY DEF Keys
  <2>2. \A i \in DOMAIN offers : keys[i] \in K  BY DEF Keys
  <2> HIDE DEF keys, K
  <2> QED BY <2>1, <2>2, SeqOfTyped
<1>3. ranks \in [1..Len(offers) -> Int]
  <2>1. \A i \in DOMAIN offers : offers[i].conf \in Int  BY <1>1 DEF HandleRecord
  <2> QED BY <1>1, <2>1
<1>4. M = Merged(offers, keys, ranks)  BY DEF MergeHandles
<1>5. \A i \in DOMAIN offers : keys[i] = Key(offers[i]) /\ ranks[i] = offers[i].conf  BY DEF Keys
<1>6. ToSet(keys) = K
  <2>1. DOMAIN keys = DOMAIN offers  BY <1>1, <1>2
  <2> HIDE DEF keys
  <2> QED BY <2>1, <1>5 DEF ToSet
<1> HIDE DEF K, keys, ranks
<1>7. M \in Seq(HandleRecord) /\ (offers = <<>> <=> M = <<>>)
      /\ Len(M) = Cardinality(ToSet(keys))
  <2> DEFINE N == Merged(offers, keys, ranks)
  <2>1. N \in Seq(HandleRecord)  BY <1>2, <1>3, MergedMembers
  <2>2. ToSet(N) \subseteq ToSet(offers)  BY <1>2, <1>3, MergedMembers
  <2>3. offers = <<>> <=> N = <<>>  BY <1>2, <1>3, MergedMembers
  <2>4. Len(N) = Cardinality(ToSet(keys))  BY <1>2, <1>3, MergedMembers
  <2> HIDE DEF N
  <2>5. M = N  BY <1>4 DEF N
  <2> QED BY <2>1, <2>2, <2>3, <2>4, <2>5
<1>8. Len(M) = Cardinality(K)  BY <1>6, <1>7
<1>9. PICK best \in Seq(DOMAIN offers) :
           /\ Listing(best, Len(offers), keys, ranks)
           /\ M = [i \in DOMAIN best |-> offers[best[i]]]
           /\ DOMAIN best = 1..Len(best)
           /\ Len(best) \in Nat
  BY <1>2, <1>3, <1>4, MergedFacts
<1>10. DOMAIN M = DOMAIN best
       /\ \A i \in DOMAIN best : best[i] \in DOMAIN offers /\ M[i] = offers[best[i]]
                                 /\ keys[best[i]] = Key(M[i])
  BY <1>5, <1>9
<1>11. \A i, j \in DOMAIN M : Key(M[i]) = Key(M[j]) => i = j
  <2> SUFFICES ASSUME NEW i \in DOMAIN best, NEW j \in DOMAIN best, keys[best[i]] = keys[best[j]]
               PROVE  i = j
    BY <1>10
  <2> QED BY <1>9 DEF Listing
<1>12. \A h \in ToSet(offers) : \E i \in DOMAIN M : Key(M[i]) = Key(h)
  <2> TAKE h \in ToSet(offers)
  <2>1. PICK n \in 1..Len(offers) : h = offers[n]  BY <1>1 DEF ToSet
  <2>2. PICK i \in DOMAIN best : keys[best[i]] = keys[n]  BY <2>1, <1>9 DEF Listing
  <2> QED BY <2>1, <2>2, <1>1, <1>5, <1>10
<1>13. ASSUME NEW i \in DOMAIN M
       PROVE  \E o \in DOMAIN offers :
               /\ offers[o] = M[i]
               /\ \A p \in DOMAIN offers : Key(offers[p]) = Key(M[i]) =>
                     /\ offers[p].conf <= M[i].conf
                     /\ p < o => offers[p].conf < M[i].conf
  <2> DEFINE o == best[i]
  <2>1. i \in DOMAIN best /\ o \in DOMAIN offers /\ offers[o] = M[i] /\ keys[o] = Key(M[i])  BY <1>10
  <2>2. \A p \in 1..Len(offers) : keys[p] = keys[o] =>
            ranks[p] <= ranks[o] /\ (p < o => ranks[p] < ranks[o])
    BY <2>1, <1>9 DEF Listing
  <2> HIDE DEF o
  <2>3. ranks[o] = M[i].conf  BY <2>1, <1>5
  <2>4. ASSUME NEW p \in DOMAIN offers, Key(offers[p]) = Key(M[i])
        PROVE  offers[p].conf <= M[i].conf /\ (p < o => offers[p].conf < M[i].conf)
    <3>1. keys[p] = keys[o]  BY <2>1, <2>4, <1>5
    <3>2. ranks[p] <= ranks[o] /\ (p < o => ranks[p] < ranks[o])  BY <3>1, <2>2, <1>1
    <3> QED BY <3>2, <2>3, <1>5
  <2> QED BY <2>1, <2>4
<1>14. BestOf(M, offers)  BY <1>8, <1>11, <1>12, <1>13 DEF K, BestOf
<1> QED BY <1>7, <1>14

\* The merge of the addresses: each once, as it was first spelled.
FirstOf(M, offers) ==
    /\ ToSet(M) \subseteq ToSet(offers)
    /\ Len(M) = Cardinality({offers[i].addr : i \in DOMAIN offers})
    /\ \A m \in ToSet(M) : \E i \in DOMAIN offers :
          offers[i] = m /\ \A j \in 1..(i - 1) : offers[j].addr # m.addr

\* It gives each address once, as first spelled.
LEMMA EmailsMerged ==
  ASSUME NEW T, NEW offers, offers \in Seq(T), NEW M, M = MergeEmails(offers)
  PROVE  /\ M \in Seq(T)
         /\ M = <<>> <=> offers = <<>>
         /\ FirstOf(M, offers)
<1> DEFINE K == {offers[i].addr : i \in DOMAIN offers}
           keys == Addresses(offers)
           ranks == Unranked(offers)
<1>1. DOMAIN offers = 1..Len(offers) /\ Len(offers) \in Nat
  OBVIOUS
<1>2. keys \in Seq(K) /\ Len(keys) = Len(offers)
  <2>1. DOMAIN keys = DOMAIN offers /\ keys = [i \in DOMAIN offers |-> keys[i]]  BY DEF Addresses
  <2>2. \A i \in DOMAIN offers : keys[i] \in K  BY DEF Addresses
  <2> HIDE DEF keys, K
  <2> QED BY <2>1, <2>2, SeqOfTyped
<1>3. ranks \in [1..Len(offers) -> Int]
  BY <1>1 DEF Unranked
<1>4. M = Merged(offers, keys, ranks)  BY DEF MergeEmails
<1>5. \A i \in DOMAIN offers : keys[i] = offers[i].addr /\ ranks[i] = 0  BY DEF Addresses, Unranked
<1>6. ToSet(keys) = K
  <2>1. DOMAIN keys = DOMAIN offers  BY <1>1, <1>2
  <2> HIDE DEF keys
  <2> QED BY <2>1, <1>5 DEF ToSet
<1> HIDE DEF K, keys, ranks
<1>7. M \in Seq(T) /\ (offers = <<>> <=> M = <<>>) /\ ToSet(M) \subseteq ToSet(offers)
      /\ Len(M) = Cardinality(ToSet(keys))
  <2> DEFINE N == Merged(offers, keys, ranks)
  <2>1. N \in Seq(T)  BY <1>2, <1>3, MergedMembers
  <2>2. ToSet(N) \subseteq ToSet(offers)  BY <1>2, <1>3, MergedMembers
  <2>3. offers = <<>> <=> N = <<>>  BY <1>2, <1>3, MergedMembers
  <2>4. Len(N) = Cardinality(ToSet(keys))  BY <1>2, <1>3, MergedMembers
  <2> HIDE DEF N
  <2>5. M = N  BY <1>4 DEF N
  <2> QED BY <2>1, <2>2, <2>3, <2>4, <2>5
<1>8. Len(M) = Cardinality(K)  BY <1>6, <1>7
<1>9. PICK best \in Seq(DOMAIN offers) :
           /\ Listing(best, Len(offers), keys, ranks)
           /\ M = [i \in DOMAIN best |-> offers[best[i]]]
           /\ DOMAIN best = 1..Len(best)
           /\ Len(best) \in Nat
  BY <1>2, <1>3, <1>4, MergedFacts
<1>10. ASSUME NEW m \in ToSet(M)
       PROVE  \E i \in DOMAIN offers : offers[i] = m /\ \A j \in 1..(i - 1) : offers[j].addr # m.addr
  <2>1. PICK k \in DOMAIN best : m = offers[best[k]]  BY <1>9 DEF ToSet
  <2> DEFINE o == best[k]
  <2>2. o \in DOMAIN offers /\ offers[o] = m  BY <2>1, <1>9
  <2>3. \A p \in 1..Len(offers) : keys[p] = keys[o] => (p < o => ranks[p] < ranks[o])
    BY <2>1, <1>9 DEF Listing
  <2> HIDE DEF o
  <2>4. \A j \in 1..(o - 1) : j \in DOMAIN offers /\ j < o  BY <2>2, <1>1
  <2>5. \A j \in 1..(o - 1) : offers[j].addr # m.addr
    <3> SUFFICES ASSUME NEW j \in 1..(o - 1), offers[j].addr = m.addr PROVE FALSE  OBVIOUS
    <3>1. keys[j] = keys[o]  BY <2>2, <2>4, <1>5
    <3>2. ranks[j] < ranks[o]  BY <3>1, <2>3, <2>4, <1>1
    <3>3. ranks[j] = 0 /\ ranks[o] = 0  BY <2>2, <2>4, <1>5
    <3> QED BY <3>2, <3>3
  <2> QED BY <2>2, <2>5
<1>11. FirstOf(M, offers)  BY <1>7, <1>8, <1>10 DEF K, FirstOf
<1> QED BY <1>7, <1>11

\* The merge of the jobs: each once, with its most detailed location.
MostDetailedOf(M, offers) ==
    /\ Len(M) = Cardinality({offers[i].key : i \in DOMAIN offers})
    /\ \A b \in ToSet(M) : \E i \in DOMAIN offers :
          /\ offers[i] = b
          /\ \A j \in DOMAIN offers : offers[j].key = b.key =>
                offers[j].detail < b.detail \/ (offers[j].detail = b.detail /\ i <= j)

\* It gives each job once, with the most detailed location.
LEMMA JobsMerged ==
  ASSUME NEW offers, offers \in Seq(JobRecord), NEW M, M = MergeJobs(offers)
  PROVE  /\ M \in Seq(JobRecord)
         /\ M = <<>> <=> offers = <<>>
         /\ MostDetailedOf(M, offers)
<1> DEFINE K == {offers[i].key : i \in DOMAIN offers}
           keys == JobKeys(offers)
           ranks == [i \in DOMAIN offers |-> offers[i].detail]
<1>1. DOMAIN offers = 1..Len(offers) /\ Len(offers) \in Nat /\ \A i \in DOMAIN offers : offers[i] \in JobRecord
  OBVIOUS
<1>2. keys \in Seq(K) /\ Len(keys) = Len(offers)
  <2>1. DOMAIN keys = DOMAIN offers /\ keys = [i \in DOMAIN offers |-> keys[i]]  BY DEF JobKeys
  <2>2. \A i \in DOMAIN offers : keys[i] \in K  BY DEF JobKeys
  <2> HIDE DEF keys, K
  <2> QED BY <2>1, <2>2, SeqOfTyped
<1>3. ranks \in [1..Len(offers) -> Int]
  <2>1. \A i \in DOMAIN offers : offers[i].detail \in Int  BY <1>1 DEF JobRecord
  <2> QED BY <1>1, <2>1
<1>4. M = Merged(offers, keys, ranks)  BY DEF MergeJobs
<1>5. \A i \in DOMAIN offers : keys[i] = offers[i].key /\ ranks[i] = offers[i].detail /\ ranks[i] \in Int
  BY <1>1 DEF JobKeys, JobRecord
<1>6. ToSet(keys) = K
  <2>1. DOMAIN keys = DOMAIN offers  BY <1>1, <1>2
  <2> HIDE DEF keys
  <2> QED BY <2>1, <1>5 DEF ToSet
<1> HIDE DEF K, keys, ranks
<1>7. M \in Seq(JobRecord) /\ (offers = <<>> <=> M = <<>>)
      /\ Len(M) = Cardinality(ToSet(keys))
  <2> DEFINE N == Merged(offers, keys, ranks)
  <2>1. N \in Seq(JobRecord)  BY <1>2, <1>3, MergedMembers
  <2>2. ToSet(N) \subseteq ToSet(offers)  BY <1>2, <1>3, MergedMembers
  <2>3. offers = <<>> <=> N = <<>>  BY <1>2, <1>3, MergedMembers
  <2>4. Len(N) = Cardinality(ToSet(keys))  BY <1>2, <1>3, MergedMembers
  <2> HIDE DEF N
  <2>5. M = N  BY <1>4 DEF N
  <2> QED BY <2>1, <2>2, <2>3, <2>4, <2>5
<1>8. Len(M) = Cardinality(K)  BY <1>6, <1>7
<1>9. PICK best \in Seq(DOMAIN offers) :
           /\ Listing(best, Len(offers), keys, ranks)
           /\ M = [i \in DOMAIN best |-> offers[best[i]]]
           /\ DOMAIN best = 1..Len(best)
           /\ Len(best) \in Nat
  BY <1>2, <1>3, <1>4, MergedFacts
<1>10. ASSUME NEW b \in ToSet(M)
       PROVE  \E i \in DOMAIN offers :
               /\ offers[i] = b
               /\ \A j \in DOMAIN offers : offers[j].key = b.key =>
                     offers[j].detail < b.detail \/ (offers[j].detail = b.detail /\ i <= j)
  <2>1. PICK k \in DOMAIN best : b = offers[best[k]]  BY <1>9 DEF ToSet
  <2> DEFINE o == best[k]
  <2>2. o \in DOMAIN offers /\ offers[o] = b  BY <2>1, <1>9
  <2>3. \A p \in 1..Len(offers) : keys[p] = keys[o] =>
            ranks[p] <= ranks[o] /\ (p < o => ranks[p] < ranks[o])
    BY <2>1, <1>9 DEF Listing
  <2> HIDE DEF o
  <2>4. ASSUME NEW j \in DOMAIN offers, offers[j].key = b.key
        PROVE  offers[j].detail < b.detail \/ (offers[j].detail = b.detail /\ o <= j)
    <3>1. keys[j] = keys[o]  BY <2>2, <2>4, <1>5
    <3>2. ranks[j] <= ranks[o] /\ (j < o => ranks[j] < ranks[o])  BY <3>1, <2>3, <1>1
    <3>3. ranks[j] = offers[j].detail /\ ranks[o] = b.detail /\ ranks[j] \in Int /\ ranks[o] \in Int
      BY <2>2, <1>5
    <3>4. j \in Nat /\ o \in Nat  BY <2>2, <1>1
    <3> QED BY <3>2, <3>3, <3>4
  <2> QED BY <2>2, <2>4
<1>11. MostDetailedOf(M, offers)  BY <1>8, <1>10 DEF K, MostDetailedOf
<1> QED BY <1>7, <1>11

\* The names of the parts of a merged dossier.
LEMMA MergedParts ==
  ASSUME NEW h, NEW e, NEW j, NEW v, NEW d, d = MergePayloads(h, e, j, v)
  PROVE  /\ d.handles = MergeHandles(h) /\ d.emails = MergeEmails(e) /\ d.jobs = MergeJobs(j)
         /\ d.verified = MergeEmails(v)
         /\ d.found = UNION {payloads[i].found : i \in DOMAIN payloads}
         /\ d.sources = UNION {payloads[i].sources : i \in DOMAIN payloads}
         /\ d = [handles |-> d.handles, emails |-> d.emails, jobs |-> d.jobs,
                 verified |-> d.verified, found |-> d.found, sources |-> d.sources]
BY DEF MergePayloads

\* The merged dossier is a fragment with only the payloads' verdicts.
LEMMA MergeTyped ==
  ASSUME payloads \in Seq(Fragment), NEW d,
         d = MergePayloads(Join(payloads, "handles"), Join(payloads, "emails"),
                           Join(payloads, "jobs"), Join(payloads, "verified"))
  PROVE  /\ d \in Fragment
         /\ ToSet(d.verified) \subseteq ToSet(Join(payloads, "verified"))
<1> DEFINE h == Join(payloads, "handles")
           e == Join(payloads, "emails")
           j == Join(payloads, "jobs")
           v == Join(payloads, "verified")
<1>1. h \in Seq(HandleRecord) /\ e \in Seq(Email) /\ j \in Seq(JobRecord) /\ v \in Seq(Verification)
  <2>1. DOMAIN ElementOf = {"handles", "emails", "jobs", "verified"}
        /\ ElementOf["handles"] = HandleRecord /\ ElementOf["emails"] = Email
        /\ ElementOf["jobs"] = JobRecord /\ ElementOf["verified"] = Verification
    BY DEF ElementOf
  <2>2. \A f \in Fragment : f["handles"] \in Seq(HandleRecord)  BY <2>1, FieldTyped
  <2>3. \A f \in Fragment : f["emails"] \in Seq(Email)  BY <2>1, FieldTyped
  <2>4. \A f \in Fragment : f["jobs"] \in Seq(JobRecord)  BY <2>1, FieldTyped
  <2>5. \A f \in Fragment : f["verified"] \in Seq(Verification)  BY <2>1, FieldTyped
  <2>6. h \in Seq(HandleRecord)  BY <2>2, JoinTyped
  <2>7. e \in Seq(Email)  BY <2>3, JoinTyped
  <2>8. j \in Seq(JobRecord)  BY <2>4, JoinTyped
  <2>9. v \in Seq(Verification)  BY <2>5, JoinTyped
  <2> QED BY <2>6, <2>7, <2>8, <2>9
<1>2. d = MergePayloads(h, e, j, v)  OBVIOUS
<1> HIDE DEF h, e, j, v
<1>3. /\ d.handles = MergeHandles(h) /\ d.emails = MergeEmails(e) /\ d.jobs = MergeJobs(j)
      /\ d.verified = MergeEmails(v)
      /\ d.found = UNION {payloads[i].found : i \in DOMAIN payloads}
      /\ d.sources = UNION {payloads[i].sources : i \in DOMAIN payloads}
      /\ d = [handles |-> d.handles, emails |-> d.emails, jobs |-> d.jobs,
              verified |-> d.verified, found |-> d.found, sources |-> d.sources]
  BY <1>2, MergedParts
<1>4. d.handles \in Seq(HandleRecord)  BY <1>1, <1>3, HandlesMerged
<1>5. d.emails \in Seq(Email)  BY <1>1, <1>3, EmailsMerged
<1>6. d.jobs \in Seq(JobRecord)  BY <1>1, <1>3, JobsMerged
<1>7. d.verified \in Seq(Verification) /\ ToSet(d.verified) \subseteq ToSet(v)
  <2>1. d.verified \in Seq(Verification)  BY <1>1, <1>3, EmailsMerged
  <2>2. ToSet(d.verified) \subseteq ToSet(v)  BY <1>1, <1>3, EmailsMerged DEF FirstOf
  <2> QED BY <2>1, <2>2
<1>8. \A i \in DOMAIN payloads : payloads[i] \in Fragment  OBVIOUS
<1>9. d.found \in SUBSET {"photo", "github", "coworkers", "business"}
  <2>1. \A i \in DOMAIN payloads : payloads[i].found \in SUBSET {"photo", "github", "coworkers", "business"}
    BY <1>8 DEF Fragment
  <2> QED BY <2>1, <1>3
<1>10. d.sources \in SUBSET (Enrichers \cup {"email_verify"})
  <2>1. \A i \in DOMAIN payloads : payloads[i].sources \in SUBSET (Enrichers \cup {"email_verify"})
    BY <1>8 DEF Fragment
  <2> QED BY <2>1, <1>3
<1>11. d \in Fragment
  <2> DEFINE a1 == d.handles
             a2 == d.emails
             a3 == d.jobs
             a4 == d.verified
             a5 == d.found
             a6 == d.sources
  <2>1. d = [handles |-> a1, emails |-> a2, jobs |-> a3, verified |-> a4, found |-> a5, sources |-> a6]
    BY <1>3
  <2>2. a1 \in Seq(HandleRecord) /\ a2 \in Seq(Email) /\ a3 \in Seq(JobRecord) /\ a4 \in Seq(Verification)
        /\ a5 \in SUBSET {"photo", "github", "coworkers", "business"}
        /\ a6 \in SUBSET (Enrichers \cup {"email_verify"})
    BY <1>4, <1>5, <1>6, <1>7, <1>9, <1>10
  <2> HIDE DEF a1, a2, a3, a4, a5, a6
  <2> QED BY <2>1, <2>2 DEF Fragment
<1> QED BY <1>7, <1>11 DEF v

\* From the merge on every tier has answered.
LEMMA AllSettled ==
  ASSUME PlaceInv, pc \in {"merge", "judge", "done"}
  PROVE  \A t \in DOMAIN Registry : Settled(t)
<1>1. pc \in Later["tier1"] /\ pc \in Later["tier2"] /\ pc \in Later["tier3"] /\ pc \in Later["tier4"]
  BY LaterFacts
<1>2. \A t \in DOMAIN Registry : pc \in Later[t]  BY <1>1, RegistryFacts
<1> QED BY <1>2 DEF PlaceInv, Placed, Settled

\* The payloads at the merge, fragment by fragment.
LEMMA PayloadMembers ==
  ASSUME TypeOK, \A t \in DOMAIN Registry : Settled(t), payloads = SharesM
  PROVE  ToSet(payloads) = ToSet(Share("tier1")) \cup ToSet(Share("tier2")) \cup ToSet(Share("tier3"))
                             \cup ToSet(VerifyShare) \cup ToSet(Share("tier4"))
<1> DEFINE S1 == Share("tier1")
           S2 == Share("tier2")
           S3 == Share("tier3")
           S4 == Share("tier4")
           V == VerifyShare
           A == S1 \o S2
           B == A \o S3
           C == B \o V
<1>1. S1 \in Seq(Fragment) /\ S2 \in Seq(Fragment) /\ S3 \in Seq(Fragment) /\ S4 \in Seq(Fragment)
  BY ShareTyped, RegistryFacts
<1>2. V \in Seq(Fragment)  BY VerifyShareTyped
<1>3. payloads = C \o S4  BY DEF SharesM, Shares4, SharesV, Shares3, Shares2
<1> HIDE DEF S1, S2, S3, S4, V
<1>4. A \in Seq(Fragment) /\ ToSet(A) = ToSet(S1) \cup ToSet(S2)
  BY <1>1, ConcatProperties, ConcatFacts
<1> HIDE DEF A
<1>5. B \in Seq(Fragment) /\ ToSet(B) = ToSet(A) \cup ToSet(S3)
  BY <1>1, <1>4, ConcatProperties, ConcatFacts
<1> HIDE DEF B
<1>6. C \in Seq(Fragment) /\ ToSet(C) = ToSet(B) \cup ToSet(V)
  BY <1>2, <1>5, ConcatProperties, ConcatFacts
<1> HIDE DEF C
<1>7. ToSet(C \o S4) = ToSet(C) \cup ToSet(S4)  BY <1>1, <1>6, ConcatFacts
<1>8. ToSet(payloads) = ToSet(S1) \cup ToSet(S2) \cup ToSet(S3) \cup ToSet(V) \cup ToSet(S4)
  BY <1>3, <1>4, <1>5, <1>6, <1>7
<1> QED BY <1>8 DEF S1, S2, S3, S4, V

\* The members of a tier's share are its enrichers' answers.
LEMMA ShareMembers ==
  ASSUME NEW t \in DOMAIN Registry, Settled(t)
  PROVE  /\ \A e \in ToSet(Registry[t]) : answer[e] # Pending => answer[e] \in ToSet(Share(t))
         /\ \A f \in ToSet(Share(t)) : \E e \in Enrichers : f = answer[e] /\ answer[e] # Pending
<1>1. CASE ~Dispatched(t)
  <2>1. Share(t) = <<>>  BY <1>1 DEF Share
  <2>2. ToSet(Share(t)) = {}  BY <2>1 DEF ToSet
  <2> QED BY <2>2, <1>1 DEF Settled
<1>2. CASE Dispatched(t)
  <2>1. Share(t) = [i \in DOMAIN Registry[t] |-> answer[Registry[t][i]]]  BY <1>2 DEF Share, Collected
  <2>2. ToSet(Share(t)) = {answer[Registry[t][i]] : i \in DOMAIN Registry[t]}  BY <2>1 DEF ToSet
  <2>3. \A e \in ToSet(Registry[t]) : \E i \in DOMAIN Registry[t] : e = Registry[t][i]  BY DEF ToSet
  <2>4. \A i \in DOMAIN Registry[t] : Registry[t][i] \in ToSet(Registry[t])  BY DEF ToSet
  <2> QED BY <2>2, <2>3, <2>4, <1>2, RegistryPartition DEF Settled
<1> QED BY <1>1, <1>2

\* Every answer is among the payloads, and nothing else but the verification.
LEMMA AnswersCollected ==
  ASSUME TypeOK, \A t \in DOMAIN Registry : Settled(t), payloads = SharesM
  PROVE  /\ \A e \in Enrichers : answer[e] # Pending => \E i \in DOMAIN payloads : payloads[i] = answer[e]
         /\ verified # <<>> => \E i \in DOMAIN payloads : "email_verify" \in payloads[i].sources
         /\ verified = <<>> => \A i \in DOMAIN payloads :
               \E e \in Enrichers : payloads[i] = answer[e] /\ answer[e] # Pending
<1>0. ToSet(payloads) = ToSet(Share("tier1")) \cup ToSet(Share("tier2")) \cup ToSet(Share("tier3"))
                             \cup ToSet(VerifyShare) \cup ToSet(Share("tier4"))
  BY PayloadMembers
<1>1. ToSet(payloads) = {payloads[i] : i \in DOMAIN payloads}  BY DEF ToSet
<1>2. \A t \in DOMAIN Registry : ToSet(Share(t)) \subseteq ToSet(payloads)  BY <1>0, RegistryFacts
<1>3. ASSUME NEW e \in Enrichers, answer[e] # Pending
      PROVE  \E i \in DOMAIN payloads : payloads[i] = answer[e]
  <2>1. PICK t \in DOMAIN Registry : e \in ToSet(Registry[t])  BY RegistryPartition
  <2>2. answer[e] \in ToSet(Share(t))  BY <1>3, <2>1, ShareMembers
  <2> QED BY <2>2, <1>1, <1>2
<1>4. ASSUME verified # <<>>
      PROVE  \E i \in DOMAIN payloads : "email_verify" \in payloads[i].sources
  <2> DEFINE f == [Empty EXCEPT !.verified = verified, !.sources = {"email_verify"}]
  <2>1. VerifyShare = <<f>>  BY <1>4 DEF VerifyShare
  <2>2. f.sources = {"email_verify"}  BY DEF Empty
  <2> HIDE DEF f
  <2>3. f \in ToSet(VerifyShare)
    <3>1. ToSet(<<f>>) = {f}  BY DEF ToSet
    <3> QED BY <3>1, <2>1
  <2>4. f \in ToSet(payloads)  BY <2>3, <1>0
  <2> QED BY <2>2, <2>4, <1>1
<1>5. ASSUME verified = <<>>, NEW i \in DOMAIN payloads
      PROVE  \E e \in Enrichers : payloads[i] = answer[e] /\ answer[e] # Pending
  <2>1. VerifyShare = <<>>  BY <1>5 DEF VerifyShare
  <2>2. ToSet(VerifyShare) = {}  BY <2>1 DEF ToSet
  <2>3. payloads[i] \in ToSet(payloads)  BY <1>1
  <2>4. \E t \in DOMAIN Registry : payloads[i] \in ToSet(Share(t))  BY <2>2, <2>3, <1>0, RegistryFacts
  <2> QED BY <2>4, ShareMembers
<1> QED BY <1>3, <1>4, <1>5

-----------------------------------------------------------------------------
(* The steps: merge, disambiguation and the status.                        *)

\* The merge keeps the invariant.
LEMMA MergeKeeps == ASSUME Invariant, Merge PROVE Invariant'
<1>1. TypeOK /\ PlaceInv /\ AnswersInv /\ PayloadsInv /\ CandidatesInv /\ JudgedInv /\ VerdictsHold
  BY DEF Invariant
<1>2. pc = "merge" /\ pc' = "judge"
      /\ UNCHANGED <<setup, answer, candidates, tried, verified, payloads, kept, dropped, outcome>>
      /\ dossier' = MergePayloads(Join(payloads, "handles"), Join(payloads, "emails"),
                                  Join(payloads, "jobs"), Join(payloads, "verified"))
  BY DEF Merge
<1>3. \A t \in DOMAIN Registry : Settled(t)  BY <1>1, <1>2, AllSettled
<1>4. payloads = SharesM /\ payloads \in Seq(Fragment)  BY <1>1, <1>2 DEF PayloadsInv, TypeOK
<1>5. Join(payloads, "verified") = verified  BY <1>1, <1>3, <1>4, PayloadsVerified
<1>6. dossier' \in Fragment /\ ToSet(dossier'.verified) \subseteq ToSet(verified)
  <2> DEFINE d == dossier'
  <2>1. d = MergePayloads(Join(payloads, "handles"), Join(payloads, "emails"),
                          Join(payloads, "jobs"), Join(payloads, "verified"))
    BY <1>2
  <2> HIDE DEF d
  <2>2. d \in Fragment /\ ToSet(d.verified) \subseteq ToSet(Join(payloads, "verified"))
    BY <1>4, <2>1, MergeTyped
  <2> QED BY <2>2, <1>5 DEF d
<1>7. kept = <<>> /\ dropped = 0  BY <1>1, <1>2 DEF JudgedInv
<1>8. Judged' = 0
  <2>1. Len(<<>>) = 0  OBVIOUS
  <2> QED BY <2>1, <1>2, <1>7 DEF Judged
<1>9. TypeOK'
  <2>1. Len(dossier'.handles) \in Nat  BY <1>6 DEF Fragment
  <2> QED BY <1>1, <1>2, <1>6, <1>8, <2>1 DEF TypeOK, Stages
<1>10. PlaceInv'
  <2>1. \A t \in DOMAIN Registry : (Dispatched(t)' <=> Dispatched(t))  BY <1>2, SameShares
  <2>2. "judge" \notin DOMAIN Registry  BY RegistryFacts
  <2>3. \A t \in DOMAIN Registry : "judge" \in Later[t]
    <3>1. "judge" \in Later["tier1"] /\ "judge" \in Later["tier2"]
          /\ "judge" \in Later["tier3"] /\ "judge" \in Later["tier4"]
      BY LaterFacts
    <3> QED BY <3>1, RegistryFacts
  <2> QED BY <1>2, <1>3, <2>1, <2>2, <2>3 DEF PlaceInv, Placed, Settled
<1>11. AnswersInv'  BY <1>1, <1>2 DEF AnswersInv
<1>12. PayloadsInv'
  <2>1. SharesM' = SharesM  BY <1>2, SameShares
  <2> QED BY <1>2, <1>4, <2>1 DEF PayloadsInv
<1>13. CandidatesInv'
  <2>1. Collected("tier3")' = Collected("tier3")  BY <1>2, SameShares
  <2>2. Dispatched("tier3")' <=> Dispatched("tier3")  BY <1>2, SameShares, RegistryFacts
  <2>3. CollectCandidates(Collected("tier3"))' = CollectCandidates(Collected("tier3"))
    BY <2>1, <1>2 DEF CollectCandidates
  <2> QED BY <1>1, <1>2, <2>2, <2>3 DEF CandidatesInv
<1>14. JudgedInv'
  <2>1. (MergePayloads(Join(payloads, "handles"), Join(payloads, "emails"),
                       Join(payloads, "jobs"), Join(payloads, "verified")))' = dossier'
    BY <1>2 DEF MergePayloads
  <2>2. DOMAIN kept' = {}  BY <1>2, <1>7
  <2>3. \A i \in 1..Judged' : FALSE  BY <1>8
  <2> QED BY <1>2, <2>1, <2>2, <2>3 DEF JudgedInv
<1>15. VerdictsHold'
  <2>1. \A x \in ToSet(verified) :
           /\ x.reacher \in Conclusive => x.status = x.reacher
           /\ x.status = "verified" => x.reacher = "verified"
    BY <1>1 DEF VerdictsHold, ToSet
  <2>2. \A list \in {verified', dossier'.verified} : \A i \in DOMAIN list : list[i] \in ToSet(verified)
    <3>1. \A i \in DOMAIN dossier'.verified : dossier'.verified[i] \in ToSet(verified)
      <4>1. \A i \in DOMAIN dossier'.verified : dossier'.verified[i] \in ToSet(dossier'.verified)
        BY DEF ToSet
      <4> QED BY <4>1, <1>6
    <3>2. \A i \in DOMAIN verified : verified[i] \in ToSet(verified)  BY DEF ToSet
    <3> QED BY <3>1, <3>2, <1>2
  <2> QED BY <2>1, <2>2 DEF VerdictsHold
<1>16. Vouched' /\ StatusTruthful'  BY <1>2 DEF Vouched, StatusTruthful
<1> QED BY <1>9, <1>10, <1>11, <1>12, <1>13, <1>14, <1>15, <1>16 DEF Invariant

\* Confidences are integers.
LEMMA NumberFacts == Threshold \in Int /\ \A x \in Opinions : x \in Int
<1>1. Threshold \in 0..100 /\ Opinions \subseteq 0..100  BY DossierAssumption
<1> QED BY <1>1

\* So is the confidence of every decision.
LEMMA DecisionTyped ==
  ASSUME NEW h, NEW d \in Decisions(h)
  PROVE  d.conf \in Int
<1>1. CASE d = Heuristic(h)  BY <1>1 DEF Heuristic
<1>2. CASE d \in [same : BOOLEAN, conf : Opinions]  BY <1>2, NumberFacts
<1> QED BY <1>1, <1>2 DEF Decisions

\* Judging one handle keeps the invariant: a sure handle is kept, and every
\* handle kept is sure.
LEMMA JudgeKeeps == ASSUME Invariant, Judge PROVE Invariant'
<1>1. TypeOK /\ PlaceInv /\ AnswersInv /\ PayloadsInv /\ CandidatesInv /\ JudgedInv /\ VerdictsHold
  BY DEF Invariant
<1>2. pc = "judge" /\ Judged < Len(dossier.handles)
      /\ UNCHANGED <<setup, pc, answer, candidates, tried, verified, payloads, dossier, outcome>>
  BY DEF Judge
<1> DEFINE h == dossier.handles[Judged + 1]
<1>3. kept \in Seq(HandleRecord) /\ dropped \in Nat /\ dossier \in Fragment  BY <1>1 DEF TypeOK
<1>4. Len(kept) \in Nat /\ Judged = Len(kept) + dropped /\ Judged \in Nat  BY <1>3 DEF Judged
<1>5. dossier.handles \in Seq(HandleRecord) /\ Len(dossier.handles) \in Nat  BY <1>3 DEF Fragment
<1>6. h \in HandleRecord
  <2>1. Judged + 1 \in 1..Len(dossier.handles)  BY <1>2, <1>4, <1>5
  <2> QED BY <2>1, <1>5
<1>7. h.conf \in Int /\ Threshold \in Int  BY <1>6, NumberFacts DEF HandleRecord
<1>8. \/ /\ dropped' = dropped + 1 /\ kept' = kept /\ h.conf < Threshold
      \/ \E k \in HandleRecord :
            /\ kept' = Append(kept, k) /\ dropped' = dropped
            /\ k.conf >= Threshold /\ Key(k) = Key(h)
  <2>1. CASE h.conf >= Threshold
    <3>1. kept' = Append(kept, h) /\ dropped' = dropped  BY <2>1 DEF Judge
    <3> HIDE DEF h
    <3> QED BY <3>1, <2>1, <1>6
  <2>2. CASE ~(h.conf >= Threshold)
    <3>1. PICK d \in Decisions(h) :
            IF d.same /\ d.conf >= Threshold
            THEN /\ kept' = Append(kept, [h EXCEPT !.conf = IF d.conf > h.conf THEN d.conf ELSE h.conf])
                 /\ UNCHANGED dropped
            ELSE dropped' = dropped + 1 /\ UNCHANGED kept
      BY <2>2 DEF Judge
    <3>2. d.conf \in Int  BY DecisionTyped
    <3> HIDE DEF h
    <3>3. h.conf < Threshold  BY <2>2, <1>7
    <3>4. CASE d.same /\ d.conf >= Threshold
      <4> DEFINE conf == IF d.conf > h.conf THEN d.conf ELSE h.conf
                 k == [h EXCEPT !.conf = conf]
      <4>1. conf \in Int /\ conf >= Threshold  BY <3>2, <3>3, <3>4, <1>7
      <4>2. kept' = Append(kept, k) /\ dropped' = dropped  BY <3>1, <3>4
      <4> HIDE DEF conf
      <4>3. k \in HandleRecord /\ k.conf = conf  BY <4>1, <1>6 DEF HandleRecord
      <4>4. k.platform = h.platform /\ k.user = h.user  BY <1>6 DEF HandleRecord
      <4>5. Key(k) = Key(h)  BY <4>4 DEF Key
      <4> HIDE DEF k
      <4> QED BY <4>1, <4>2, <4>3, <4>5
    <3>5. CASE ~(d.same /\ d.conf >= Threshold)
      <4>1. dropped' = dropped + 1 /\ kept' = kept  BY <3>1, <3>5
      <4> QED BY <4>1, <3>3
    <3> QED BY <3>4, <3>5
  <2> QED BY <2>1, <2>2
<1>9. \A i \in DOMAIN kept : kept[i].conf >= Threshold  BY <1>1, <1>2 DEF JudgedInv
<1>10. \A i \in 1..Judged : dossier.handles[i].conf >= Threshold =>
          \E k \in DOMAIN kept : Key(kept[k]) = Key(dossier.handles[i])
  BY <1>1, <1>2 DEF JudgedInv
<1>11. /\ kept' \in Seq(HandleRecord) /\ dropped' \in Nat /\ Judged' = Judged + 1
       /\ \A i \in DOMAIN kept' : kept'[i].conf >= Threshold
       /\ \A i \in 1..Judged + 1 : dossier.handles[i].conf >= Threshold =>
             \E k \in DOMAIN kept' : Key(kept'[k]) = Key(dossier.handles[i])
  <2>0. \A i \in 1..Judged + 1 : i \in 1..Judged \/ i = Judged + 1  BY <1>4
  <2>1. CASE dropped' = dropped + 1 /\ kept' = kept /\ h.conf < Threshold
    <3>1. Judged' = Judged + 1  BY <2>1, <1>3, <1>4 DEF Judged
    <3>2. ASSUME NEW i \in 1..Judged + 1, dossier.handles[i].conf >= Threshold
          PROVE  \E k \in DOMAIN kept' : Key(kept'[k]) = Key(dossier.handles[i])
      <4>1. i # Judged + 1  BY <2>1, <3>2, <1>7
      <4>2. i \in 1..Judged  BY <4>1, <2>0
      <4> QED BY <4>2, <2>1, <3>2, <1>10
    <3> QED BY <2>1, <3>1, <3>2, <1>3, <1>9
  <2>2. CASE \E k \in HandleRecord :
            /\ kept' = Append(kept, k) /\ dropped' = dropped
            /\ k.conf >= Threshold /\ Key(k) = Key(h)
    <3>1. PICK k \in HandleRecord :
            /\ kept' = Append(kept, k) /\ dropped' = dropped
            /\ k.conf >= Threshold /\ Key(k) = Key(h)
      BY <2>2
    <3> HIDE DEF h
    <3>2. kept' \in Seq(HandleRecord) /\ Len(kept') = Len(kept) + 1  BY <3>1, <1>3, AppendOne
    <3>3. \A i \in DOMAIN kept' : (i \in DOMAIN kept /\ kept'[i] = kept[i]) \/ kept'[i] = k
      BY <3>1, <1>3, AppendOne
    <3>4. \A i \in DOMAIN kept : i \in DOMAIN kept' /\ kept'[i] = kept[i]  BY <3>1, <1>3, AppendOne
    <3>5. Len(kept) + 1 \in DOMAIN kept' /\ kept'[Len(kept) + 1] = k  BY <3>1, <1>3, AppendOne
    <3>6. Judged' = Judged + 1  BY <3>1, <3>2, <1>3, <1>4 DEF Judged
    <3>7. \A i \in DOMAIN kept' : kept'[i].conf >= Threshold  BY <3>1, <3>3, <1>9
    <3>8. ASSUME NEW i \in 1..Judged + 1, dossier.handles[i].conf >= Threshold
          PROVE  \E m \in DOMAIN kept' : Key(kept'[m]) = Key(dossier.handles[i])
      <4>1. CASE i = Judged + 1
        <5>1. Key(k) = Key(dossier.handles[i])  BY <3>1, <4>1 DEF h
        <5> QED BY <5>1, <3>5
      <4>2. CASE i # Judged + 1
        <5>1. i \in 1..Judged  BY <4>2, <2>0
        <5>2. PICK m \in DOMAIN kept : Key(kept[m]) = Key(dossier.handles[i])  BY <5>1, <3>8, <1>10
        <5> QED BY <5>2, <3>4
      <4> QED BY <4>1, <4>2
    <3> QED BY <3>1, <3>2, <3>6, <3>7, <3>8, <1>3
  <2> QED BY <2>1, <2>2, <1>8
<1> HIDE DEF h
<1>12. TypeOK'
  <2>1. Judged' <= Len(dossier'.handles)  BY <1>2, <1>4, <1>5, <1>11
  <2> QED BY <1>1, <1>2, <1>11, <2>1 DEF TypeOK
<1>13. PlaceInv'
  <2>1. \A t \in DOMAIN Registry : (Dispatched(t)' <=> Dispatched(t))  BY <1>2, SameShares
  <2>2. "judge" \notin DOMAIN Registry  BY RegistryFacts
  <2> QED BY <1>1, <1>2, <2>1, <2>2 DEF PlaceInv, Placed
<1>14. AnswersInv'  BY <1>1, <1>2 DEF AnswersInv
<1>15. PayloadsInv'
  <2>1. SharesM' = SharesM  BY <1>2, SameShares
  <2> QED BY <1>1, <1>2, <2>1 DEF PayloadsInv
<1>16. CandidatesInv'
  <2>1. Collected("tier3")' = Collected("tier3")  BY <1>2, SameShares
  <2>2. Dispatched("tier3")' <=> Dispatched("tier3")  BY <1>2, SameShares, RegistryFacts
  <2>3. CollectCandidates(Collected("tier3"))' = CollectCandidates(Collected("tier3"))
    BY <2>1, <1>2 DEF CollectCandidates
  <2> QED BY <1>1, <1>2, <2>2, <2>3 DEF CandidatesInv
<1>17. JudgedInv'
  <2>1. (MergePayloads(Join(payloads, "handles"), Join(payloads, "emails"),
                       Join(payloads, "jobs"), Join(payloads, "verified")))'
          = MergePayloads(Join(payloads, "handles"), Join(payloads, "emails"),
                       Join(payloads, "jobs"), Join(payloads, "verified"))
    BY <1>2 DEF MergePayloads
  <2>2. \A i \in 1..Judged' : dossier'.handles[i].conf >= Threshold =>
             \E k \in DOMAIN kept' : Key(kept'[k]) = Key(dossier'.handles[i])
    BY <1>2, <1>11
  <2> QED BY <1>1, <1>2, <1>11, <2>1, <2>2 DEF JudgedInv
<1>18. VerdictsHold'  BY <1>1, <1>2 DEF VerdictsHold
<1>19. Vouched' /\ StatusTruthful'  BY <1>2 DEF Vouched, StatusTruthful
<1> QED BY <1>12, <1>13, <1>14, <1>15, <1>16, <1>17, <1>18, <1>19 DEF Invariant

\* What the merge has made of the offers, when the judging starts.
LEMMA MergedOffers ==
  ASSUME Invariant, pc = "judge"
  PROVE  /\ Offered("handles") \in Seq(HandleRecord)
         /\ Offered("emails") \in Seq(Email)
         /\ Offered("jobs") \in Seq(JobRecord)
         /\ dossier.handles = MergeHandles(Offered("handles"))
         /\ dossier.emails = MergeEmails(Offered("emails"))
         /\ dossier.jobs = MergeJobs(Offered("jobs"))
         /\ dossier.verified = MergeEmails(verified)
         /\ dossier.found = UNION {payloads[i].found : i \in DOMAIN payloads}
         /\ dossier.sources = UNION {payloads[i].sources : i \in DOMAIN payloads}
<1>1. TypeOK /\ PlaceInv /\ AnswersInv /\ PayloadsInv /\ JudgedInv  BY DEF Invariant
<1>2. \A t \in DOMAIN Registry : Settled(t)  BY <1>1, AllSettled
<1>3. payloads = SharesM /\ payloads \in Seq(Fragment)  BY <1>1 DEF PayloadsInv, TypeOK
<1>4. Join(payloads, "handles") = Offered("handles")  BY <1>1, <1>2, <1>3, PayloadsOffered
<1>5. Join(payloads, "emails") = Offered("emails")  BY <1>1, <1>2, <1>3, PayloadsOffered
<1>6. Join(payloads, "jobs") = Offered("jobs")  BY <1>1, <1>2, <1>3, PayloadsOffered
<1>7. Join(payloads, "verified") = verified  BY <1>1, <1>2, <1>3, PayloadsVerified
<1>8. dossier = MergePayloads(Offered("handles"), Offered("emails"), Offered("jobs"), verified)
  BY <1>1, <1>4, <1>5, <1>6, <1>7 DEF JudgedInv
<1>9. /\ dossier.handles = MergeHandles(Offered("handles"))
      /\ dossier.emails = MergeEmails(Offered("emails"))
      /\ dossier.jobs = MergeJobs(Offered("jobs"))
      /\ dossier.verified = MergeEmails(verified)
      /\ dossier.found = UNION {payloads[i].found : i \in DOMAIN payloads}
      /\ dossier.sources = UNION {payloads[i].sources : i \in DOMAIN payloads}
  BY <1>8 DEF MergePayloads
<1>10. DOMAIN ElementOf = {"handles", "emails", "jobs", "verified"}
       /\ ElementOf["handles"] = HandleRecord /\ ElementOf["emails"] = Email
       /\ ElementOf["jobs"] = JobRecord
  BY DEF ElementOf
<1>11. \A f \in Fragment : f["handles"] \in Seq(HandleRecord)  BY <1>10, FieldTyped
<1>12. \A f \in Fragment : f["emails"] \in Seq(Email)  BY <1>10, FieldTyped
<1>13. \A f \in Fragment : f["jobs"] \in Seq(JobRecord)  BY <1>10, FieldTyped
<1>14. Offered("handles") \in Seq(HandleRecord)
  <2>1. Join(payloads, "handles") \in Seq(HandleRecord)  BY <1>3, <1>11, JoinTyped
  <2> QED BY <2>1, <1>4
<1>15. Offered("emails") \in Seq(Email)
  <2>1. Join(payloads, "emails") \in Seq(Email)  BY <1>3, <1>12, JoinTyped
  <2> QED BY <2>1, <1>5
<1>16. Offered("jobs") \in Seq(JobRecord)
  <2>1. Join(payloads, "jobs") \in Seq(JobRecord)  BY <1>3, <1>13, JoinTyped
  <2> QED BY <2>1, <1>6
<1> QED BY <1>9, <1>14, <1>15, <1>16

\* Before any handle is dropped the dossier holds all that was offered.
LEMMA AtJudge ==
  ASSUME Invariant, pc = "judge"
  PROVE  /\ BestHandleKept /\ FindsMerged
         /\ Len(dossier.handles)
              = Cardinality({Key(Offered("handles")[i]) : i \in DOMAIN Offered("handles")})
         /\ \A e \in Enrichers : answer[e] # Pending =>
              answer[e].sources \subseteq dossier.sources /\ answer[e].found \subseteq dossier.found
         /\ verified # <<>> => "email_verify" \in dossier.sources
         /\ dossier.verified = <<>> <=> verified = <<>>
<1>0. /\ Offered("handles") \in Seq(HandleRecord)
      /\ Offered("emails") \in Seq(Email)
      /\ Offered("jobs") \in Seq(JobRecord)
      /\ dossier.handles = MergeHandles(Offered("handles"))
      /\ dossier.emails = MergeEmails(Offered("emails"))
      /\ dossier.jobs = MergeJobs(Offered("jobs"))
      /\ dossier.verified = MergeEmails(verified)
      /\ dossier.found = UNION {payloads[i].found : i \in DOMAIN payloads}
      /\ dossier.sources = UNION {payloads[i].sources : i \in DOMAIN payloads}
  BY MergedOffers
<1>1. TypeOK /\ PlaceInv /\ PayloadsInv  BY DEF Invariant
<1>2. \A t \in DOMAIN Registry : Settled(t)  BY <1>1, AllSettled
<1>3. payloads = SharesM  BY <1>1 DEF PayloadsInv
<1> DEFINE H == Offered("handles")
           E == Offered("emails")
           J == Offered("jobs")
           h == dossier.handles
           e == dossier.emails
           j == dossier.jobs
<1>4. H \in Seq(HandleRecord) /\ h = MergeHandles(H)  BY <1>0
<1>5. E \in Seq(Email) /\ e = MergeEmails(E)  BY <1>0
<1>6. J \in Seq(JobRecord) /\ j = MergeJobs(J)  BY <1>0
<1> HIDE DEF H, E, J, h, e, j
<1>7. /\ Len(h) = Cardinality({Key(H[i]) : i \in DOMAIN H})
      /\ \A i, k \in DOMAIN h : Key(h[i]) = Key(h[k]) => i = k
      /\ \A x \in ToSet(H) : \E i \in DOMAIN h : Key(h[i]) = Key(x)
      /\ \A i \in DOMAIN h : \E o \in DOMAIN H :
            /\ H[o] = h[i]
            /\ \A p \in DOMAIN H : Key(H[p]) = Key(h[i]) =>
                  /\ H[p].conf <= h[i].conf
                  /\ p < o => H[p].conf < h[i].conf
  <2>1. BestOf(h, H)  BY <1>4, HandlesMerged
  <2> QED BY <2>1, Zenon DEF BestOf
<1>8. /\ Len(e) = Cardinality({E[i].addr : i \in DOMAIN E})
      /\ \A m \in ToSet(e) : \E i \in DOMAIN E :
            E[i] = m /\ \A k \in 1..(i - 1) : E[k].addr # m.addr
  <2>1. FirstOf(e, E)  BY <1>5, EmailsMerged
  <2> QED BY <2>1, Zenon DEF FirstOf
<1>9. /\ Len(j) = Cardinality({J[i].key : i \in DOMAIN J})
      /\ \A b \in ToSet(j) : \E i \in DOMAIN J :
            /\ J[i] = b
            /\ \A k \in DOMAIN J : J[k].key = b.key =>
                  J[k].detail < b.detail \/ (J[k].detail = b.detail /\ i <= k)
  <2>1. MostDetailedOf(j, J)  BY <1>6, JobsMerged
  <2> QED BY <2>1, Zenon DEF MostDetailedOf
<1>10. ASSUME NEW a \in Enrichers, answer[a] # Pending
       PROVE  answer[a].sources \subseteq dossier.sources /\ answer[a].found \subseteq dossier.found
  <2>1. PICK i \in DOMAIN payloads : payloads[i] = answer[a]  BY <1>1, <1>2, <1>3, <1>10, AnswersCollected
  <2> QED BY <2>1, <1>0
<1>11. verified # <<>> => "email_verify" \in dossier.sources
  BY <1>0, <1>1, <1>2, <1>3, AnswersCollected
<1>12. dossier.verified = <<>> <=> verified = <<>>
  <2>1. verified \in Seq(Verification)  BY <1>1 DEF TypeOK
  <2> DEFINE v == dossier.verified
  <2>2. v = MergeEmails(verified)  BY <1>0
  <2> HIDE DEF v
  <2>3. v = <<>> <=> verified = <<>>  BY <2>1, <2>2, EmailsMerged
  <2> QED BY <2>3 DEF v
<1>13. BestHandleKept  BY <1>7, Zenon DEF BestHandleKept, H, h
<1>14. FindsMerged  BY <1>8, <1>9, <1>10, Zenon DEF FindsMerged, E, J, e, j
<1>15. Len(dossier.handles)
              = Cardinality({Key(Offered("handles")[i]) : i \in DOMAIN Offered("handles")})
  BY <1>7, Zenon DEF H, h
<1> QED BY <1>10, <1>11, <1>12, <1>13, <1>14, <1>15

\* With nothing found and nothing verified the dossier is empty.
LEMMA NothingFound ==
  ASSUME Invariant, pc = "judge", verified = <<>>,
         \A e \in Enrichers : answer[e] \in {Pending, Empty}
  PROVE  /\ dossier.handles = <<>> /\ dossier.emails = <<>> /\ dossier.verified = <<>>
         /\ dossier.found = {} /\ dossier.sources = {}
<1>1. TypeOK /\ PlaceInv /\ PayloadsInv  BY DEF Invariant
<1>2. \A t \in DOMAIN Registry : Settled(t)  BY <1>1, AllSettled
<1>3. payloads = SharesM /\ payloads \in Seq(Fragment)  BY <1>1 DEF PayloadsInv, TypeOK
<1>4. \A i \in DOMAIN payloads : payloads[i] = Empty
  BY <1>1, <1>2, <1>3, AnswersCollected
<1>5. /\ dossier.handles = MergeHandles(Offered("handles"))
      /\ dossier.emails = MergeEmails(Offered("emails"))
      /\ Offered("handles") \in Seq(HandleRecord)
      /\ Offered("emails") \in Seq(Email)
      /\ dossier.found = UNION {payloads[i].found : i \in DOMAIN payloads}
      /\ dossier.sources = UNION {payloads[i].sources : i \in DOMAIN payloads}
  BY MergedOffers
<1>6. Empty.found = {} /\ Empty.sources = {} /\ Empty["handles"] = <<>> /\ Empty["emails"] = <<>>
  BY DEF Empty
<1>7. Join(payloads, "handles") = <<>>  BY <1>3, <1>4, <1>6, JoinWithout
<1>8. Join(payloads, "emails") = <<>>  BY <1>3, <1>4, <1>6, JoinWithout
<1>9. Offered("handles") = <<>>  BY <1>1, <1>2, <1>3, <1>7, PayloadsOffered
<1>10. Offered("emails") = <<>>  BY <1>1, <1>2, <1>3, <1>8, PayloadsOffered
<1>11. dossier.handles = <<>>  BY <1>5, <1>9, HandlesMerged
<1>12. dossier.emails = <<>>  BY <1>5, <1>10, EmailsMerged
<1>13. dossier.verified = <<>>  BY AtJudge
<1>14. dossier.found = {} /\ dossier.sources = {}  BY <1>4, <1>5, <1>6
<1> QED BY <1>11, <1>12, <1>13, <1>14

\* The last step keeps the invariant: the status is that of the answers,
\* although it is computed after handles were dropped.
LEMMA FinishKeeps == ASSUME Invariant, Finish PROVE Invariant'
<1>1. TypeOK /\ PlaceInv /\ AnswersInv /\ PayloadsInv /\ CandidatesInv /\ JudgedInv /\ VerdictsHold
  BY DEF Invariant
<1>2. pc = "judge" /\ Judged = Len(dossier.handles) /\ pc' = "done"
      /\ dossier' = [dossier EXCEPT !.handles = kept]
      /\ outcome' = [status |-> IF HasData([dossier EXCEPT !.handles = kept])
                                THEN "completed" ELSE "completed_no_data",
                     scores |-> Scores([dossier EXCEPT !.handles = kept])]
      /\ UNCHANGED <<setup, answer, candidates, tried, verified, payloads, kept, dropped>>
  BY DEF Finish
<1> DEFINE d == [dossier EXCEPT !.handles = kept]
<1>3. kept \in Seq(HandleRecord) /\ dropped \in Nat /\ dossier \in Fragment  BY <1>1 DEF TypeOK
<1>4. /\ d \in Fragment /\ d.handles = kept /\ d.emails = dossier.emails
      /\ d.verified = dossier.verified /\ d.found = dossier.found /\ d.sources = dossier.sources
  BY <1>3 DEF Fragment
<1>5. dossier' = d  BY <1>2
<1>6. outcome'.status = IF HasData(d) THEN "completed" ELSE "completed_no_data"  BY <1>2
<1> HIDE DEF d
<1>7. TypeOK'  BY <1>1, <1>2, <1>4, <1>5 DEF TypeOK, Stages
<1>8. PlaceInv'
  <2>1. \A t \in DOMAIN Registry : (Dispatched(t)' <=> Dispatched(t))  BY <1>2, SameShares
  <2>2. "done" \notin DOMAIN Registry  BY RegistryFacts
  <2>3. \A t \in DOMAIN Registry : Settled(t)  BY <1>1, <1>2, AllSettled
  <2>4. \A t \in DOMAIN Registry : "done" \in Later[t]
    <3>1. "done" \in Later["tier1"] /\ "done" \in Later["tier2"]
          /\ "done" \in Later["tier3"] /\ "done" \in Later["tier4"]
      BY LaterFacts
    <3> QED BY <3>1, RegistryFacts
  <2> QED BY <1>2, <2>1, <2>2, <2>3, <2>4 DEF PlaceInv, Placed, Settled
<1>9. AnswersInv'  BY <1>1, <1>2 DEF AnswersInv
<1>10. PayloadsInv'
  <2>1. SharesM' = SharesM  BY <1>2, SameShares
  <2> QED BY <1>1, <1>2, <2>1 DEF PayloadsInv
<1>11. CandidatesInv'
  <2>1. Collected("tier3")' = Collected("tier3")  BY <1>2, SameShares
  <2>2. Dispatched("tier3")' <=> Dispatched("tier3")  BY <1>2, SameShares, RegistryFacts
  <2>3. CollectCandidates(Collected("tier3"))' = CollectCandidates(Collected("tier3"))
    BY <2>1, <1>2 DEF CollectCandidates
  <2> QED BY <1>1, <1>2, <2>2, <2>3 DEF CandidatesInv
<1>12. JudgedInv'  BY <1>2 DEF JudgedInv
<1>13. VerdictsHold'
  <2>1. verified' = verified /\ dossier'.verified = dossier.verified  BY <1>2, <1>4, <1>5
  <2> QED BY <1>1, <2>1 DEF VerdictsHold
<1>14. Vouched'
  <2> DEFINE best == Offered("handles")
             sure == {Key(best[i]) : i \in {j \in DOMAIN best : best[j].conf >= Threshold}}
  <2>1. Offered("handles")' = Offered("handles")  BY <1>2 DEF Offered, Given
  <2>2. \A i \in DOMAIN kept : kept[i].conf >= Threshold  BY <1>1, <1>2 DEF JudgedInv
  <2>3. Len(kept) + dropped = Cardinality({Key(best[i]) : i \in DOMAIN best})
    <3>1. Len(dossier.handles) = Cardinality({Key(best[i]) : i \in DOMAIN best})  BY <1>2, AtJudge
    <3> HIDE DEF best
    <3> QED BY <3>1, <1>2 DEF Judged
  <2>4. BestHandleKept  BY <1>2, AtJudge
  <2>5. /\ \A h \in ToSet(best) : \E i \in DOMAIN dossier.handles : Key(dossier.handles[i]) = Key(h)
        /\ \A i \in DOMAIN dossier.handles : \E o \in DOMAIN best :
              /\ best[o] = dossier.handles[i]
              /\ \A p \in DOMAIN best : Key(best[p]) = Key(dossier.handles[i]) =>
                    best[p].conf <= dossier.handles[i].conf
    BY <2>4, <1>2 DEF BestHandleKept
  <2>6. best \in Seq(HandleRecord)  BY <1>2, MergedOffers
  <2> HIDE DEF best
  <2>7. \A s \in sure : \E k \in DOMAIN kept : Key(kept[k]) = s
    <3> TAKE s \in sure
    <3>1. PICK j \in DOMAIN best : best[j].conf >= Threshold /\ s = Key(best[j])  OBVIOUS
    <3>2. best[j] \in ToSet(best)  BY DEF ToSet
    <3>3. PICK i \in DOMAIN dossier.handles : Key(dossier.handles[i]) = s  BY <2>5, <3>1, <3>2
    <3>4. best[j].conf <= dossier.handles[i].conf  BY <2>5, <3>1, <3>3
    <3>5. best[j].conf \in Int /\ dossier.handles[i].conf \in Int /\ Threshold \in Int
      <4>1. dossier.handles \in Seq(HandleRecord)  BY <1>3 DEF Fragment
      <4>2. best[j] \in HandleRecord /\ dossier.handles[i] \in HandleRecord  BY <4>1, <2>6
      <4> QED BY <4>2, NumberFacts DEF HandleRecord
    <3>6. dossier.handles[i].conf >= Threshold  BY <3>1, <3>4, <3>5
    <3>7. i \in 1..Judged
      <4>1. dossier.handles \in Seq(HandleRecord)  BY <1>3 DEF Fragment
      <4> QED BY <4>1, <1>2
    <3> QED BY <3>3, <3>6, <3>7, <1>1, <1>2 DEF JudgedInv
  <2>8. sure \subseteq {Key(kept[k]) : k \in DOMAIN kept}  BY <2>7
  <2>9. dossier'.handles = kept  BY <1>4, <1>5
  <2> QED BY <1>2, <2>1, <2>2, <2>3, <2>8, <2>9 DEF Vouched, best, sure
<1>15. StatusTruthful'
  <2> DEFINE Nothing == (\A e \in Enrichers : answer[e] \in {Pending, Empty}) /\ verified = <<>>
  <2>1. ASSUME Nothing PROVE ~HasData(d)
    <3>1. /\ dossier.handles = <<>> /\ dossier.emails = <<>> /\ dossier.verified = <<>>
          /\ dossier.found = {} /\ dossier.sources = {}
      BY <2>1, <1>2, NothingFound
    <3>2. kept = <<>>
      <4>1. Len(kept) + dropped = 0  BY <3>1, <1>2 DEF Judged
      <4>2. Len(kept) = 0
        <5>1. Len(kept) \in Nat  BY <1>3
        <5> QED BY <4>1, <5>1, <1>3
      <4> QED BY <4>2, <1>3
    <3> QED BY <3>1, <3>2, <1>4 DEF HasData
  <2>2. ASSUME ~HasData(d) PROVE Nothing
    <3>1. d.sources = {}  BY <2>2 DEF HasData
    <3>2. dossier.sources = {}  BY <3>1, <1>4
    <3>3. verified = <<>>  BY <3>2, <1>2, AtJudge
    <3>4. ASSUME NEW e \in Enrichers PROVE answer[e] \in {Pending, Empty}
      <4> SUFFICES ASSUME answer[e] # Pending, answer[e] # Empty PROVE FALSE  OBVIOUS
      <4>1. answer[e].sources = {e}  BY <1>1 DEF AnswersInv
      <4>2. answer[e].sources \subseteq dossier.sources  BY <1>2, AtJudge
      <4> QED BY <4>1, <4>2, <3>2
    <3> QED BY <3>3, <3>4
  <2>3. outcome'.status = "completed_no_data" <=> ~HasData(d)  BY <1>6
  <2>4. Nothing' <=> Nothing  BY <1>2
  <2>5. \E e \in Enrichers : TRUE
    <3>1. "jobspy" \in Enrichers  BY DEF Enrichers, Needs
    <3> QED BY <3>1
  <2> QED BY <2>1, <2>2, <2>3, <2>5, <1>2 DEF StatusTruthful
<1> QED BY <1>7, <1>8, <1>9, <1>10, <1>11, <1>12, <1>13, <1>14, <1>15 DEF Invariant

\* A stuttering step keeps the invariant.
LEMMA StutterKeeps == ASSUME Invariant, UNCHANGED vars PROVE Invariant'
<1> USE DEF vars
<1>0. UNCHANGED <<setup, pc, answer, candidates, tried, verified, payloads, dossier, kept, dropped, outcome>>
  OBVIOUS
<1>1. TypeOK /\ PlaceInv /\ AnswersInv /\ PayloadsInv /\ CandidatesInv /\ JudgedInv /\ VerdictsHold
      /\ Vouched /\ StatusTruthful
  BY DEF Invariant
<1>2. TypeOK'  BY <1>0, <1>1 DEF TypeOK, Judged
<1>3. \A t \in DOMAIN Registry : (Dispatched(t)' <=> Dispatched(t))  BY <1>0, SameShares
<1>4. PlaceInv'
  <2>1. (pc \in DOMAIN Registry => Dispatched(pc))'  BY <1>0, <1>1 DEF PlaceInv, Placed, Dispatched
  <2>2. Dispatched("tier3")' <=> Dispatched("tier3")  BY <1>3, RegistryFacts
  <2> QED BY <1>0, <1>1, <1>3, <2>1, <2>2 DEF PlaceInv, Placed
<1>5. AnswersInv'  BY <1>0, <1>1 DEF AnswersInv
<1>6. PayloadsInv'
  <2>1. Shares2' = Shares2 /\ Shares3' = Shares3 /\ SharesV' = SharesV /\ Shares4' = Shares4 /\ SharesM' = SharesM
    BY <1>0, SameShares
  <2> QED BY <1>0, <1>1, <2>1 DEF PayloadsInv
<1>7. CandidatesInv'
  <2>1. Collected("tier3")' = Collected("tier3")  BY <1>0, SameShares
  <2>2. Dispatched("tier3")' <=> Dispatched("tier3")  BY <1>3, RegistryFacts
  <2>3. CollectCandidates(Collected("tier3"))' = CollectCandidates(Collected("tier3"))
    BY <2>1, <1>0 DEF CollectCandidates
  <2> QED BY <1>0, <1>1, <2>2, <2>3 DEF CandidatesInv
<1>8. JudgedInv'
  <2>1. (MergePayloads(Join(payloads, "handles"), Join(payloads, "emails"),
                       Join(payloads, "jobs"), Join(payloads, "verified")))'
          = MergePayloads(Join(payloads, "handles"), Join(payloads, "emails"),
                       Join(payloads, "jobs"), Join(payloads, "verified"))
    BY <1>0 DEF MergePayloads
  <2>2. Judged' = Judged  BY <1>0 DEF Judged
  <2> QED BY <1>0, <1>1, <2>1, <2>2 DEF JudgedInv
<1>9. VerdictsHold'  BY <1>0, <1>1 DEF VerdictsHold
<1>10. Vouched'
  <2>1. Offered("handles")' = Offered("handles")  BY <1>0 DEF Offered, Given
  <2> QED BY <1>0, <1>1, <2>1 DEF Vouched
<1>11. StatusTruthful'  BY <1>0, <1>1 DEF StatusTruthful
<1> QED BY <1>2, <1>4, <1>5, <1>6, <1>7, <1>8, <1>9, <1>10, <1>11 DEF Invariant

\* The invariant implies the budget: the candidates are what
\* _collect_email_candidates took from tier 3's answers.
LEMMA BudgetHolds == ASSUME Invariant PROVE VerifiedWithinBudget
<1>1. TypeOK /\ CandidatesInv  BY DEF Invariant
<1>0. setup.request \in Submitted  BY <1>1 DEF TypeOK
<1>2. MaxCandidates \in Nat /\ MaxCandidates >= 1  BY MaxTyped
<1>3. CASE pc # "verify" /\ candidates = <<>>
  <2>1. Len(<<>>) = 0 /\ DOMAIN <<>> = {}  OBVIOUS
  <2> QED BY <2>1, <1>2, <1>3 DEF VerifiedWithinBudget
<1>4. CASE pc = "verify" \/ candidates # <<>>
  <2> DEFINE found == Collected("tier3")
  <2>1. \A e \in ToSet(Registry["tier3"]) : answer[e] # Pending  BY <1>1, <1>4 DEF CandidatesInv
  <2>2. candidates = CollectCandidates(found)  BY <1>1, <1>4 DEF CandidatesInv
  <2>3. found \in Seq(Fragment)  BY <1>1, <2>1, CollectedTyped, RegistryFacts
  <2>4. \A e \in ToSet(Registry["tier3"]) : \E i \in DOMAIN found : found[i] = answer[e]
    <3> TAKE e \in ToSet(Registry["tier3"])
    <3>1. PICK i \in DOMAIN Registry["tier3"] : e = Registry["tier3"][i]  BY DEF ToSet
    <3>2. i \in DOMAIN found /\ found[i] = answer[e]  BY <3>1 DEF Collected
    <3> HIDE DEF found
    <3> QED BY <3>2
  <2> HIDE DEF found
  <2>5. /\ candidates \in Seq(STRING) /\ Len(candidates) <= MaxCandidates
        /\ \A i, j \in DOMAIN candidates : candidates[i] = candidates[j] => i = j
        /\ "email" \in setup.request.has /\ setup.request.email \notin Junk
               => candidates # <<>> /\ candidates[1] = setup.request.email
        /\ \A a \in ToSet(Join(found, "emails")) :
               a.addr \in Junk \/ a.addr \in ToSet(candidates) \/ Len(candidates) = MaxCandidates
    BY <1>0, <2>2, <2>3, CandidatesFacts
  <2>6. ASSUME NEW e \in ToSet(Registry["tier3"]), NEW i \in DOMAIN answer[e].emails
        PROVE  answer[e].emails[i] \in ToSet(Join(found, "emails"))
    <3> DEFINE g == [n \in DOMAIN found |-> found[n]["emails"]]
    <3>1. PICK n \in DOMAIN found : found[n] = answer[e]  BY <2>4
    <3>2. DOMAIN g = DOMAIN found /\ g = [m \in DOMAIN found |-> g[m]]
          /\ g[n] = answer[e].emails
      BY <3>1
    <3>3. \A m \in DOMAIN found : g[m] \in Seq(Email)
      <4> TAKE m \in DOMAIN found
      <4>1. found[m] \in Fragment  BY <2>3
      <4>2. found[m]["emails"] \in Seq(Email)  BY <4>1 DEF Fragment
      <4> QED BY <4>2
    <3>4. Join(found, "emails") = FlattenSeq(g)  BY DEF Join
    <3> HIDE DEF g
    <3>5. g \in Seq(Seq(Email))  BY <2>3, <3>2, <3>3, SeqOfTyped
    <3>6. ToSet(g[n]) \subseteq ToSet(FlattenSeq(g))  BY <3>2, <3>5, FlattenMember
    <3>7. answer[e].emails[i] \in ToSet(g[n])  BY <3>2 DEF ToSet
    <3> QED BY <3>4, <3>6, <3>7
  <2> QED BY <2>5, <2>6 DEF VerifiedWithinBudget
<1> QED BY <1>3, <1>4

-----------------------------------------------------------------------------
(* The theorems.                                                           *)

\* Every step keeps the invariant.
LEMMA InvariantInductive == ASSUME Invariant, [Next]_vars PROVE Invariant'
<1>1. CASE Accept  BY <1>1, AcceptKeeps
<1>2. CASE \E e \in Enrichers : Answer(e)  BY <1>2, AnswerKeeps
<1>3. CASE EndTier  BY <1>3, EndTierKeeps
<1>4. CASE Verify  BY <1>4, VerifyKeeps
<1>5. CASE VerifierRaises  BY <1>5, FailKeeps DEF VerifierRaises
<1>6. CASE EndVerify  BY <1>6, EndVerifyKeeps
<1>7. CASE Merge  BY <1>7, MergeKeeps
<1>8. CASE Judge  BY <1>8, JudgeKeeps
<1>9. CASE JudgeRaises  BY <1>9, FailKeeps DEF JudgeRaises
<1>10. CASE Finish  BY <1>10, FinishKeeps
<1>11. CASE UNCHANGED vars  BY <1>11, StutterKeeps
<1> QED BY <1>1, <1>2, <1>3, <1>4, <1>5, <1>6, <1>7, <1>8, <1>9, <1>10, <1>11 DEF Next

\* The pipeline of Pipeline._execute always satisfies the inductive
\* invariant: where it is, which tiers have answered, what the payloads,
\* candidates and dossier are made of.
THEOREM InvariantAlways == Spec => []Invariant
<1>1. Init => Invariant  BY InitInvariant
<1>2. Invariant /\ [Next]_vars => Invariant'  BY InvariantInductive
<1> QED BY <1>1, <1>2, PTL DEF Spec

\* Every variable of the pipeline holds a value of its kind, for any
\* requests, settings and answers: no more addresses are tried than there
\* are, and no more handles judged.
THEOREM TypesHold == Spec => []TypeOK
<1>1. Invariant => TypeOK  BY DEF Invariant
<1> QED BY <1>1, InvariantAlways, PTL

\* Whatever the enrichers answer, in any order, merge_payloads keeps each
\* profile once, in the version of its surest finder, the first of equals.
THEOREM BestHandleAlwaysKept == Spec => []BestHandleKept
<1>1. Invariant => BestHandleKept
  <2>1. CASE pc = "judge"  BY <2>1, AtJudge
  <2>2. CASE pc # "judge"  BY <2>2 DEF BestHandleKept
  <2> QED BY <2>1, <2>2
<1> QED BY <1>1, InvariantAlways, PTL

\* Whatever fails, merge_payloads loses no address, job or source that some
\* enricher found, and lists none twice.
THEOREM FindsAlwaysMerged == Spec => []FindsMerged
<1>1. Invariant => FindsMerged
  <2>1. CASE pc = "judge"  BY <2>1, AtJudge
  <2>2. CASE pc # "judge"  BY <2>2 DEF FindsMerged
  <2> QED BY <2>1, <2>2
<1> QED BY <1>1, InvariantAlways, PTL

\* _collect_email_candidates gives the verifier no more addresses than the
\* cap, none twice, and begins with the person's own address when it has an "@".
THEOREM BudgetAlwaysKept == Spec => []VerifiedWithinBudget
<1>1. Invariant => VerifiedWithinBudget  BY BudgetHolds
<1> QED BY <1>1, InvariantAlways, PTL

\* A verdict Reacher is sure of is the one EmailVerifier.verify reports and
\* the dossier holds, and no address is verified without Reacher.
THEOREM VerdictsAlwaysHold == Spec => []VerdictsHold
<1>1. Invariant => VerdictsHold  BY DEF Invariant
<1> QED BY <1>1, InvariantAlways, PTL

\* disambiguate_handles keeps only handles at the threshold, counts every
\* other, and drops none whose finder was sure of it.
THEOREM AlwaysVouched == Spec => []Vouched
<1>1. Invariant => Vouched  BY DEF Invariant
<1> QED BY <1>1, InvariantAlways, PTL

\* _execute ends a job as completed_no_data exactly when no enricher found
\* anything and nothing was verified, handles dropped on the way or not.
THEOREM StatusAlwaysTruthful == Spec => []StatusTruthful
<1>1. Invariant => StatusTruthful  BY DEF Invariant
<1> QED BY <1>1, InvariantAlways, PTL
=============================================================================
