------------------------------ MODULE RepetitionProofs ------------------------------
(* What Repeat computes.  The library states induction with an operator for the     *)
(* property, which the provers cannot instantiate; here the property is a set of    *)
(* numbers, and what is outside it would have a smallest member.                    *)
EXTENDS Repetition, Integers, WellFoundedInduction, TLAPS

\* The smallest of some numbers.
LEMMA Least ==
    ASSUME NEW T, T \subseteq Nat, T # {}
    PROVE  \E x \in T : \A y \in T : x <= y
<1> DEFINE R == OpToRel(<, Nat)
<1>1. IsWellFoundedOn(R, Nat) BY NatLessThanWellFounded
<1>2. \A x, y \in Nat : x < y => <<x, y>> \in R BY DEF OpToRel
<1> HIDE DEF R
<1>3. PICK x \in T : \A y \in T : ~(<<y, x>> \in R) BY <1>1, WFMin
<1>4. ASSUME NEW y \in T PROVE x <= y
  <2>1. x \in Nat /\ y \in Nat OBVIOUS
  <2>2. ~(y < x) BY <1>2, <1>3, <2>1
  <2> QED BY <2>1, <2>2
<1> QED BY <1>4

\* Induction for a set of numbers.
LEMMA SetInduction ==
    ASSUME NEW S, 0 \in S, \A n \in Nat : n \in S => n + 1 \in S
    PROVE  Nat \subseteq S
<1> SUFFICES ASSUME Nat \ S # {} PROVE FALSE OBVIOUS
<1>1. PICK x \in Nat \ S : \A y \in Nat \ S : x <= y BY Least
<1>2. x # 0 /\ x - 1 \in Nat BY <1>1
<1>3. x - 1 \in S BY <1>1, <1>2
<1> QED BY <1>1, <1>2, <1>3

\* f is the repetition of G from q, up to n.
IsRepetition(f, G, q, n) == /\ f[0] = q
                            /\ \A i \in 0..n : i # 0 => f[i] = G[f[i - 1]]

\* Two repetitions agree as far as both go.
LEMMA RepetitionUnique ==
    ASSUME NEW G, NEW q, NEW n \in Nat, NEW m \in Nat, NEW f, NEW g,
           IsRepetition(f, G, q, n), IsRepetition(g, G, q, m)
    PROVE  \A i \in Nat : i <= n /\ i <= m => f[i] = g[i]
<1> DEFINE S == {i \in Nat : i <= n /\ i <= m => f[i] = g[i]}
<1>1. 0 \in S BY DEF IsRepetition
<1>2. ASSUME NEW i \in Nat, i \in S PROVE i + 1 \in S
  <2> SUFFICES ASSUME i + 1 <= n, i + 1 <= m PROVE f[i + 1] = g[i + 1] OBVIOUS
  <2>1. f[i] = g[i] BY <1>2
  <2>2. i + 1 \in 0..n /\ i + 1 \in 0..m /\ i + 1 # 0 /\ (i + 1) - 1 = i OBVIOUS
  <2>3. f[i + 1] = G[f[i]] BY <2>2 DEF IsRepetition
  <2>4. g[i + 1] = G[g[i]] BY <2>2 DEF IsRepetition
  <2> QED BY <2>1, <2>3, <2>4
<1> HIDE DEF S
<1>3. Nat \subseteq S BY <1>1, <1>2, SetInduction
<1> QED BY <1>3 DEF S

\* There is one up to every number.
LEMMA RepetitionExists ==
    ASSUME NEW G, NEW q
    PROVE  \A n \in Nat : \E f : IsRepetition(f, G, q, n)
<1> DEFINE S == {n \in Nat : \E f : IsRepetition(f, G, q, n)}
<1>1. 0 \in S
  <2>1. IsRepetition([i \in {0} |-> q], G, q, 0) BY DEF IsRepetition
  <2> QED BY <2>1
<1>2. ASSUME NEW n \in Nat, n \in S PROVE n + 1 \in S
  <2>1. PICK f : IsRepetition(f, G, q, n) BY <1>2
  <2> DEFINE g == [i \in 0..(n + 1) |-> IF i = n + 1 THEN G[f[n]] ELSE f[i]]
  <2>2. g[0] = q BY <2>1 DEF IsRepetition
  <2>3. ASSUME NEW i \in 0..(n + 1), i # 0 PROVE g[i] = G[g[i - 1]]
    <3>1. CASE i = n + 1 BY <3>1
    <3>2. CASE i # n + 1
      <4>1. i \in 0..n /\ i - 1 \in 0..n /\ i - 1 # n + 1 BY <2>3, <3>2
      <4>2. f[i] = G[f[i - 1]] BY <2>1, <2>3, <4>1 DEF IsRepetition
      <4> QED BY <4>1, <4>2, <3>2
    <3> QED BY <3>1, <3>2
  <2> HIDE DEF g
  <2>4. IsRepetition(g, G, q, n + 1) BY <2>2, <2>3 DEF IsRepetition
  <2> QED BY <2>4
<1> HIDE DEF S
<1>3. Nat \subseteq S BY <1>1, <1>2, SetInduction
<1> QED BY <1>3 DEF S

\* What Repeat computes.
LEMMA RepeatIs ==
    ASSUME NEW G, NEW q
    PROVE  /\ Repeat(G, q, 0) = q
           /\ \A n \in Nat : Repeat(G, q, n + 1) = G[Repeat(G, q, n)]
<1> DEFINE after == CHOOSE f : f = [i \in Nat |-> IF i = 0 THEN q ELSE G[f[i - 1]]]
           upto(n) == CHOOSE f : IsRepetition(f, G, q, n)
           F == [i \in Nat |-> upto(i)[i]]
<1>1. \A n \in Nat : IsRepetition(upto(n), G, q, n) BY RepetitionExists
<1>2. F = [i \in Nat |-> IF i = 0 THEN q ELSE G[F[i - 1]]]
  <2> HIDE DEF upto
  <2> SUFFICES ASSUME NEW i \in Nat PROVE upto(i)[i] = IF i = 0 THEN q ELSE G[F[i - 1]]
    OBVIOUS
  <2>1. CASE i = 0 BY <1>1, <2>1 DEF IsRepetition
  <2>3. CASE i # 0
    <3>1. i - 1 \in Nat /\ i \in 0..i /\ i - 1 <= i BY <2>3
    <3>2. F[i - 1] = upto(i - 1)[i - 1] BY <3>1
    <3>3. IsRepetition(upto(i), G, q, i) /\ IsRepetition(upto(i - 1), G, q, i - 1)
      BY <1>1, <3>1
    <3> HIDE DEF F
    <3>4. upto(i)[i - 1] = upto(i - 1)[i - 1] BY <3>1, <3>3, RepetitionUnique
    <3>5. upto(i)[i] = G[upto(i)[i - 1]] BY <2>3, <3>1, <3>3 DEF IsRepetition
    <3> QED BY <2>3, <3>2, <3>4, <3>5
  <2> QED BY <2>1, <2>3
<1>3. after = [i \in Nat |-> IF i = 0 THEN q ELSE G[after[i - 1]]]
  <2> HIDE DEF F
  <2> QED BY <1>2
<1>4. \A n \in Nat : Repeat(G, q, n) = after[n] BY DEF Repeat
<1> HIDE DEF after
<1>5. after[0] = q BY <1>3
<1>6. \A n \in Nat : after[n + 1] = G[after[n]]
  <2> SUFFICES ASSUME NEW n \in Nat PROVE after[n + 1] = G[after[n]] OBVIOUS
  <2>1. n + 1 \in Nat /\ n + 1 # 0 /\ (n + 1) - 1 = n OBVIOUS
  <2> QED BY <1>3, <2>1
<1> QED BY <1>4, <1>5, <1>6

\* One application more or less at the start.
LEMMA RepeatShift ==
    ASSUME NEW G, NEW q
    PROVE  \A n \in Nat : Repeat(G, q, n + 1) = Repeat(G, G[q], n)
<1> DEFINE S == {n \in Nat : Repeat(G, q, n + 1) = Repeat(G, G[q], n)}
<1>1. 0 \in S
  <2>1. Repeat(G, q, 0 + 1) = G[Repeat(G, q, 0)] BY RepeatIs
  <2> QED BY <2>1, RepeatIs
<1>2. ASSUME NEW n \in Nat, n \in S PROVE n + 1 \in S
  <2> DEFINE m == n + 1
  <2>0. m \in Nat OBVIOUS
  <2> HIDE DEF m
  <2>1. Repeat(G, q, m + 1) = G[Repeat(G, q, m)] BY <2>0, RepeatIs
  <2>2. Repeat(G, G[q], n + 1) = G[Repeat(G, G[q], n)] BY RepeatIs
  <2>3. Repeat(G, q, m) = Repeat(G, G[q], n) BY <1>2 DEF m
  <2>4. Repeat(G, q, m + 1) = Repeat(G, G[q], m) BY <2>1, <2>2, <2>3 DEF m
  <2> QED BY <2>4 DEF m
<1> HIDE DEF S
<1>3. Nat \subseteq S BY <1>1, <1>2, SetInduction
<1> QED BY <1>3 DEF S

\* A relation that G and H keep between their arguments holds between their repetitions.
LEMMA RepeatsAgree ==
    ASSUME NEW G, NEW H, NEW R,
           \A p \in R : <<G[p[1]], H[p[2]]>> \in R,
           NEW q, NEW s, <<q, s>> \in R
    PROVE  \A n \in Nat : <<Repeat(G, q, n), Repeat(H, s, n)>> \in R
<1> DEFINE S == {n \in Nat : <<Repeat(G, q, n), Repeat(H, s, n)>> \in R}
<1>1. 0 \in S
  <2>1. Repeat(G, q, 0) = q /\ Repeat(H, s, 0) = s BY RepeatIs
  <2> QED BY <2>1
<1>2. ASSUME NEW n \in Nat, n \in S PROVE n + 1 \in S
  <2>1. Repeat(G, q, n + 1) = G[Repeat(G, q, n)] BY RepeatIs
  <2>2. Repeat(H, s, n + 1) = H[Repeat(H, s, n)] BY RepeatIs
  <2>3. <<Repeat(G, q, n), Repeat(H, s, n)>> \in R BY <1>2
  <2>4. <<G[Repeat(G, q, n)], H[Repeat(H, s, n)]>> \in R BY <2>3
  <2> QED BY <2>1, <2>2, <2>4
<1> HIDE DEF S
<1>3. Nat \subseteq S BY <1>1, <1>2, SetInduction
<1> QED BY <1>3 DEF S

\* A set that a step does not leave is not left by repeating it.
LEMMA RepeatStays ==
    ASSUME NEW S, NEW G, \A s \in S : G[s] \in S, NEW q \in S
    PROVE  \A n \in Nat : Repeat(G, q, n) \in S
<1> DEFINE T == {n \in Nat : Repeat(G, q, n) \in S}
<1>1. 0 \in T BY RepeatIs
<1>2. ASSUME NEW n \in Nat, n \in T PROVE n + 1 \in T
  <2>1. Repeat(G, q, n + 1) = G[Repeat(G, q, n)] BY RepeatIs
  <2> QED BY <1>2, <2>1
<1> HIDE DEF T
<1>3. Nat \subseteq T BY <1>1, <1>2, SetInduction
<1> QED BY <1>3 DEF T
====================================================================================
