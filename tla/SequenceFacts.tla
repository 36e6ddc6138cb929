---------------------------- MODULE SequenceFacts ---------------------------
(* Induction on natural numbers, and what a fold of a sequence is.  An          *)
(* induction theorem with a predicate as its parameter cannot be used by the    *)
(* provers at hand; these have a set, a function or an operator's value where   *)
(* that has a predicate.                                                        *)
(*                                                                          *)
(* How a fold over a sequence is reasoned about: FoldLeft is the value of a     *)
(* recursive function on sets of positions, and that is a CHOOSE.  FoldExists   *)
(* says that there is such a function, so that the chosen one is one, and       *)
(* FoldRuns makes of it a run: what is held after each of the elements.         *)
EXTENDS Integers, SequencesExt, WellFoundedInduction, TLAPS

\* A set with 0, and with n + 1 for every n in it, has all natural numbers.
LEMMA NaturalsFrom0 ==
  ASSUME NEW S, 0 \in S, \A n \in Nat : n \in S => n + 1 \in S
  PROVE  \A n \in Nat : n \in S
<1> SUFFICES ASSUME Nat \ S # {} PROVE FALSE
  OBVIOUS
<1>1. PICK x \in Nat \ S : \A y \in Nat \ S : ~ (<<y, x>> \in OpToRel(<, Nat))
  <2>1. Nat \ S \subseteq Nat OBVIOUS
  <2> QED BY <2>1, NatLessThanWellFounded, WFMin
<1>2. \A y \in Nat \ S : ~(y < x)
  BY <1>1 DEF OpToRel
<1>3. x # 0 /\ x - 1 \in Nat /\ x - 1 < x
  OBVIOUS
<1>4. x - 1 \in S BY <1>2, <1>3
<1>5. (x - 1) + 1 = x OBVIOUS
<1> QED BY <1>3, <1>4, <1>5

\* A property of natural numbers up to n, given as a set.
LEMMA UpTo ==
  ASSUME NEW n \in Nat, NEW S, 0 \in S, \A k \in 1 .. n : k - 1 \in S => k \in S
  PROVE  \A k \in 0 .. n : k \in S
<1> DEFINE K == {k \in Nat : k <= n => k \in S}
<1>1. 0 \in K OBVIOUS
<1>2. ASSUME NEW k \in Nat, k \in K PROVE k + 1 \in K
  <2> SUFFICES ASSUME k + 1 <= n PROVE k + 1 \in S
    OBVIOUS
  <2>1. k + 1 \in 1 .. n /\ (k + 1) - 1 = k /\ k \in S BY <1>2
  <2> QED BY <2>1
<1>3. \A k \in Nat : k \in K
  <2> HIDE DEF K
  <2> QED BY <1>1, <1>2, NaturalsFrom0
<1> QED BY <1>3

\* As many positions, the same length.
LEMMA SameLength ==
  ASSUME NEW m \in Nat, NEW n \in Nat, 1 .. m = 1 .. n
  PROVE  m = n
<1>1. m > 0 => m \in 1 .. n OBVIOUS
<1>2. n > 0 => n \in 1 .. m OBVIOUS
<1> QED BY <1>1, <1>2

\* The greatest element, when it is known.
LEMMA MaxIs ==
  ASSUME NEW S \in SUBSET Int, NEW x \in S, \A y \in S : x >= y
  PROVE  Max(S) = x
<1>1. \E m \in S : \A y \in S : m >= y OBVIOUS
<1>2. Max(S) \in S /\ \A y \in S : Max(S) >= y BY <1>1 DEF Max
<1>3. Max(S) \in Int /\ x \in Int /\ Max(S) >= x /\ x >= Max(S) BY <1>2
<1> QED BY <1>3

\* Some positions have a last one.
LEMMA MaxIn ==
  ASSUME NEW n \in Nat, NEW s \in SUBSET (1 .. n), s # {}
  PROVE  Max(s) \in s /\ \A y \in s : Max(s) >= y
<1> DEFINE Has(k) == \A t \in SUBSET (1 .. k) : t # {} => \E m \in t : \A y \in t : m >= y
           K == {k \in Nat : Has(k)}
<1>1. Has(0)
  <2>1. 1 .. 0 = {} OBVIOUS
  <2> QED BY <2>1
<1>2. ASSUME NEW k \in Nat, Has(k) PROVE Has(k + 1)
  <2> SUFFICES ASSUME NEW t \in SUBSET (1 .. k + 1), t # {}
               PROVE  \E m \in t : \A y \in t : m >= y
    OBVIOUS
  <2>1. CASE k + 1 \in t BY <2>1
  <2>2. CASE k + 1 \notin t
    <3>1. t \in SUBSET (1 .. k) BY <2>2
    <3> QED BY <1>2, <3>1
  <2> QED BY <2>1, <2>2
<1>3. Has(n)
  <2> HIDE DEF Has
  <2>1. 0 \in K BY <1>1
  <2>2. \A k \in Nat : k \in K => k + 1 \in K BY <1>2
  <2>3. n \in K
    <3> HIDE DEF K
    <3> QED BY <2>1, <2>2, NaturalsFrom0
  <2> QED BY <2>3
<1>4. \E m \in s : \A y \in s : m >= y BY <1>3
<1> QED BY <1>4 DEF Max

\* The last of some positions, or 0.
LEMMA MaxOr0 ==
  ASSUME NEW n \in Nat, NEW s \in SUBSET (1 .. n)
  PROVE  LET m == Max({0} \union s)
         IN m \in {0} \union s /\ m \in 0 .. n /\ \A y \in s : m >= y
<1>1. CASE s = {}
  <2>1. Max({0} \union s) = 0 BY <1>1, MaxIs
  <2> QED BY <1>1, <2>1
<1>2. CASE s # {}
  <2> DEFINE m == Max(s)
  <2>1. m \in s /\ \A y \in s : m >= y BY <1>2, MaxIn
  <2> HIDE DEF m
  <2>2. {0} \union s \in SUBSET Int /\ m \in {0} \union s /\ \A y \in {0} \union s : m >= y
    BY <2>1
  <2>3. Max({0} \union s) = m BY <2>2, MaxIs
  <2> QED BY <2>1, <2>3
<1> QED BY <1>1, <1>2

\* Some positions have a first one.
LEMMA MinIn ==
  ASSUME NEW n \in Nat, NEW s \in SUBSET (1 .. n), s # {}
  PROVE  Min(s) \in s /\ \A y \in s : Min(s) <= y
<1>1. PICK m \in s : \A y \in s : ~ (<<y, m>> \in OpToRel(<, Nat))
  <2>1. s \subseteq Nat OBVIOUS
  <2> QED BY <2>1, NatLessThanWellFounded, WFMin
<1>2. s \subseteq Nat OBVIOUS
<1>3. \A y \in s : ~(y < m)
  <2> SUFFICES ASSUME NEW y \in s PROVE ~(y < m)
    OBVIOUS
  <2>1. y \in Nat /\ m \in Nat BY <1>2
  <2>2. (y < m) <=> <<y, m>> \in OpToRel(<, Nat) BY <2>1 DEF OpToRel
  <2> QED BY <1>1, <2>2
<1>4. \A y \in s : m <= y BY <1>2, <1>3
<1> QED BY <1>4 DEF Min

\* The first of some positions, when it is known.
LEMMA MinIs ==
  ASSUME NEW S \in SUBSET Int, NEW x \in S, \A y \in S : x <= y
  PROVE  Min(S) = x
<1>1. \E m \in S : \A y \in S : m <= y OBVIOUS
<1>2. Min(S) \in S /\ \A y \in S : Min(S) <= y BY <1>1 DEF Min
<1>3. Min(S) \in Int /\ x \in Int /\ Min(S) <= x /\ x <= Min(S) BY <1>2
<1> QED BY <1>3

\* The last of the first k positions, and those before it.
LEMMA MaxOfFirst ==
  ASSUME NEW k \in Nat, k > 0
  PROVE  Max(1 .. k) = k /\ (1 .. k) \ {k} = 1 .. k - 1 /\ 1 .. k # {}
<1>1. 1 .. k \in SUBSET Int /\ k \in 1 .. k /\ \A y \in 1 .. k : k >= y OBVIOUS
<1>2. Max(1 .. k) = k BY <1>1, MaxIs
<1> QED BY <1>2

\* h folds any of the elements 1 .. n from left to right
IsFold(h, n, base, step) ==
  \A s \in SUBSET (1 .. n) :
    h[s] = IF s = {} THEN base ELSE step[<<Max(s), h[s \ {Max(s)}]>>]

\* g is what is held after each of the elements
IsRun(g, n, base, step, last) ==
  g[0] = base /\ g[n] = last /\ \A k \in 1 .. n : g[k] = step[<<k, g[k - 1]>>]

\* h goes from what is held of k - 1 elements to what is held of k
Follows(h, n, T, base, step) ==
  h[{}] = base /\ \A k \in 1 .. n : h[1 .. k - 1] \in T => h[1 .. k] = step[<<k, h[1 .. k - 1]>>]

\* There is a function that folds.
LEMMA FoldExists ==
  ASSUME NEW n \in Nat, NEW T, NEW base \in T, NEW step \in [(1 .. n) \X T -> T]
  PROVE  \E h \in [SUBSET (1 .. n) -> T] : IsFold(h, n, base, step)
<1> DEFINE Folds(h, k) == IsFold(h, k, base, step)
           Has(k) == k <= n => \E h \in [SUBSET (1 .. k) -> T] : Folds(h, k)
           K == {k \in Nat : Has(k)}
<1>1. Has(0)
  <2> USE DEF IsFold
  <2>1. SUBSET (1 .. 0) = {{}} OBVIOUS
  <2> DEFINE g == [s \in SUBSET (1 .. 0) |-> base]
  <2>2. g \in [SUBSET (1 .. 0) -> T] OBVIOUS
  <2>3. g[{}] = base BY <2>1
  <2> HIDE DEF g
  <2>4. Folds(g, 0) BY <2>1, <2>3
  <2> QED BY <2>2, <2>4
<1>2. ASSUME NEW k \in Nat, Has(k) PROVE Has(k + 1)
  <2> SUFFICES ASSUME k + 1 <= n PROVE \E h \in [SUBSET (1 .. k + 1) -> T] : Folds(h, k + 1)
    OBVIOUS
  <2>1. PICK h \in [SUBSET (1 .. k) -> T] : Folds(h, k)
    <3>1. k <= n OBVIOUS
    <3> HIDE DEF Folds
    <3> QED BY <1>2, <3>1
  <2> DEFINE g == [s \in SUBSET (1 .. k + 1) |->
                     IF k + 1 \in s THEN step[<<k + 1, h[s \ {k + 1}]>>] ELSE h[s]]
  <2>2. \A s \in SUBSET (1 .. k + 1) : k + 1 \in s => Max(s) = k + 1
    BY MaxIs
  <2>3. \A s \in SUBSET (1 .. k + 1) : s \ {k + 1} \in SUBSET (1 .. k)
    OBVIOUS
  <2>4. \A s \in SUBSET (1 .. k + 1) : k + 1 \notin s => s \in SUBSET (1 .. k)
    OBVIOUS
  <2>5. g \in [SUBSET (1 .. k + 1) -> T]
    BY <2>1, <2>3, <2>4
  <2>6. Folds(g, k + 1)
    <3> USE DEF IsFold
    <3> SUFFICES ASSUME NEW s \in SUBSET (1 .. k + 1)
                 PROVE  g[s] = IF s = {} THEN base ELSE step[<<Max(s), g[s \ {Max(s)}]>>]
      OBVIOUS
    <3>1. CASE k + 1 \in s
      BY <2>2, <3>1
    <3>2. CASE k + 1 \notin s
      BY <2>1, <2>4, <3>2
    <3> QED BY <3>1, <3>2
  <2> HIDE DEF g, Folds
  <2> QED BY <2>5, <2>6
<1>3. \A k \in Nat : k \in K
  <2> HIDE DEF Has
  <2>1. 0 \in K BY <1>1
  <2>2. \A k \in Nat : k \in K => k + 1 \in K BY <1>2
  <2> HIDE DEF K
  <2> QED BY <2>1, <2>2, NaturalsFrom0
<1>4. Has(n) BY <1>3
<1>5. n <= n OBVIOUS
<1> QED BY <1>4, <1>5

\* What is held of the first elements, one after the other, is a run.
LEMMA FoldRuns ==
  ASSUME NEW n \in Nat, NEW T, NEW base \in T, NEW step \in [(1 .. n) \X T -> T],
         NEW h, Follows(h, n, T, base, step)
  PROVE  \E g \in [0 .. n -> T] : IsRun(g, n, base, step, h[1 .. n])
<1> USE DEF Follows, IsRun
<1> DEFINE S == {k \in Nat : h[1 .. k] \in T}
<1>1. 0 \in S
  <2>1. 1 .. 0 = {} OBVIOUS
  <2> QED BY <2>1
<1>2. ASSUME NEW k \in 1 .. n, k - 1 \in S PROVE k \in S
  <2>1. h[1 .. k] = step[<<k, h[1 .. k - 1]>>] /\ <<k, h[1 .. k - 1]>> \in (1 .. n) \X T
    BY <1>2
  <2> QED BY <2>1
<1>3. \A k \in 0 .. n : k \in S
  <2> HIDE DEF S
  <2> QED BY <1>1, <1>2, UpTo
<1> DEFINE g == [k \in 0 .. n |-> h[1 .. k]]
<1>4. g \in [0 .. n -> T] BY <1>3
<1>5. g[0] = base /\ g[n] = h[1 .. n]
  <2>1. 1 .. 0 = {} OBVIOUS
  <2> QED BY <2>1
<1>6. \A k \in 1 .. n : g[k] = step[<<k, g[k - 1]>>]
  BY <1>3
<1> QED BY <1>4, <1>5, <1>6

\* There is a run for every way to go on.
LEMMA RunExists ==
  ASSUME NEW n \in Nat, NEW T, NEW base \in T, NEW step \in [(1 .. n) \X T -> T]
  PROVE  \E g \in [0 .. n -> T] : IsRun(g, n, base, step, g[n])
<1>1. PICK h \in [SUBSET (1 .. n) -> T] : IsFold(h, n, base, step)
  BY FoldExists
<1>2. Follows(h, n, T, base, step)
  <2>1. h[{}] = base BY <1>1 DEF IsFold
  <2>2. ASSUME NEW k \in 1 .. n PROVE h[1 .. k] = step[<<k, h[1 .. k - 1]>>]
    <3>1. 1 .. k \in SUBSET (1 .. n) /\ k \in Nat /\ k > 0 OBVIOUS
    <3>2. Max(1 .. k) = k /\ (1 .. k) \ {k} = 1 .. k - 1 /\ 1 .. k # {} BY <3>1, MaxOfFirst
    <3> QED BY <1>1, <3>1, <3>2 DEF IsFold
  <2> QED BY <2>1, <2>2 DEF Follows
<1>3. \E g \in [0 .. n -> T] : IsRun(g, n, base, step, h[1 .. n]) BY <1>2, FoldRuns
<1> QED BY <1>3 DEF IsRun

\* g1 and g2 begin alike, and where they are alike they stay so
Alike(g1, g2, n) ==
  g1[0] = g2[0] /\ \A k \in 1 .. n : g1[k - 1] = g2[k - 1] => g1[k] = g2[k]

\* Two runs with the same steps end alike.
LEMMA RunsAgree ==
  ASSUME NEW n \in Nat, NEW g1, NEW g2, Alike(g1, g2, n)
  PROVE  g1[n] = g2[n]
<1> DEFINE S == {k \in Nat : g1[k] = g2[k]}
<1>1. 0 \in S BY DEF Alike
<1>2. \A k \in 1 .. n : k - 1 \in S => k \in S BY DEF Alike
<1>3. \A k \in 0 .. n : k \in S
  <2> HIDE DEF S
  <2> QED BY <1>1, <1>2, UpTo
<1> QED BY <1>3

\* g is what is held after each of n steps from x
IsLoop(g, n, x, step) == g[0] = x /\ \A k \in 1 .. n : g[k] = step[g[k - 1]]

\* There is a function that holds what each of n steps makes of x.
LEMMA LoopExists ==
  ASSUME NEW n \in Nat, NEW T, NEW x \in T, NEW step \in [T -> T]
  PROVE  \E g \in [0 .. n -> T] : IsLoop(g, n, x, step)
<1> DEFINE each == [p \in (1 .. n) \X T |-> step[p[2]]]
<1>1. each \in [(1 .. n) \X T -> T] OBVIOUS
<1>2. \A k \in 1 .. n, y \in T : each[<<k, y>>] = step[y] OBVIOUS
<1> HIDE DEF each
<1>3. PICK g \in [0 .. n -> T] : IsRun(g, n, x, each, g[n]) BY <1>1, RunExists
<1>4. \A k \in 1 .. n : g[k - 1] \in T OBVIOUS
<1>5. IsLoop(g, n, x, step) BY <1>2, <1>3, <1>4 DEF IsRun, IsLoop
<1> QED BY <1>5
=============================================================================
