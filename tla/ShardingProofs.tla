--------------------------- MODULE ShardingProofs ---------------------------
(***************************************************************************)
(* For any tests, durations, files, shards and workers: no test is lost or *)
(* run by two shards, the results account for every test that was run, and *)
(* the greedy split is as even as it claims.                               *)
(*                                                                         *)
(* The sums of the model are folds, so what they compute is an induction   *)
(* over sets.  The provers cannot instantiate an induction theorem; they   *)
(* can take the smallest set that would contradict the claim (WFMin).      *)
(***************************************************************************)
EXTENDS Sharding, FiniteSetTheorems, SequenceTheorems, WellFoundedInduction, TLAPS

\* A set of numbers has a least one, and a set of finite sets a smallest one.
LEMMA LeastNumber ==
  ASSUME NEW T \in SUBSET Nat, T # {}
  PROVE  \E x \in T : \A y \in T : x <= y
<1> DEFINE R == {s \in Nat \X Nat : s[1] < s[2]}
<1>1. IsWellFoundedOn(R, Nat)
  BY NatLessThanWellFounded DEF OpToRel
<1> HIDE DEF R
<1>2. T \subseteq Nat
  OBVIOUS
<1>3. PICK x \in T : \A y \in T : ~ (<<y, x>> \in R)
  BY <1>1, <1>2, WFMin
<1>4. \A a, b \in Nat : <<b, a>> \in R <=> b < a
  BY DEF R
<1>5. ASSUME NEW y \in T PROVE x <= y
  <2>1. x \in Nat /\ y \in Nat
    OBVIOUS
  <2>2. ~(y < x)
    BY <1>3, <1>4, <2>1
  <2> QED BY <2>1, <2>2
<1> QED BY <1>5

LEMMA SmallestSet ==
  ASSUME NEW S, IsFiniteSet(S), NEW B \in SUBSET SUBSET S, B # {}
  PROVE  \E s \in B : /\ IsFiniteSet(s)
                      /\ \A x \in s : s \ {x} \notin B
<1> DEFINE Sizes == {Cardinality(s) : s \in B}
<1>1. \A s \in SUBSET S : IsFiniteSet(s) /\ Cardinality(s) \in Nat
  BY FS_Subset, FS_CardinalityType
<1>2. Sizes \in SUBSET Nat /\ Sizes # {}
  BY <1>1
<1> HIDE DEF Sizes
<1>3. PICK k \in Sizes : \A m \in Sizes : k <= m
  BY <1>2, LeastNumber
<1>4. PICK s \in B : Cardinality(s) = k
  BY <1>3 DEF Sizes
<1>5. ASSUME NEW x \in s, s \ {x} \in B PROVE FALSE
  <2>1. IsFiniteSet(s) /\ Cardinality(s) \in Nat
    BY <1>1
  <2>2. Cardinality(s \ {x}) = Cardinality(s) - 1
    BY <2>1, FS_RemoveElement
  <2>3. Cardinality(s \ {x}) \in Sizes
    BY <1>5 DEF Sizes
  <2>4. k <= Cardinality(s) - 1
    BY <1>3, <2>2, <2>3
  <2> QED BY <1>4, <2>1, <2>4
<1> QED BY <1>1, <1>5

-----------------------------------------------------------------------------
(* Sums over sets: what the folds of the library compute *)

Choice(s) == CHOOSE x \in s : TRUE

\* f is the sum of w over the subsets of S, an element at a time.
Sums(f, w, S) ==
  \A s \in SUBSET S :
    f[s] = IF s = {} THEN 0 ELSE w[Choice(s)] + f[s \ {Choice(s)}]

SumsOver(f, w, S) ==
  f = [s \in SUBSET S |-> IF s = {} THEN 0 ELSE w[Choice(s)] + f[s \ {Choice(s)}]]

\* There is such a function: one for the small sets goes on to the next size.
LEMMA SumsExist ==
  ASSUME NEW S, IsFiniteSet(S), NEW w
  PROVE  \E f : SumsOver(f, w, S)
<1> DEFINE Small(k) == {s \in SUBSET S : Cardinality(s) <= k}
           Rule(f, s) == IF s = {} THEN 0 ELSE w[Choice(s)] + f[s \ {Choice(s)}]
           Have(k) == \E f : f = [s \in Small(k) |-> Rule(f, s)]
           Lack == {k \in Nat : ~Have(k)}
<1>1. \A s \in SUBSET S : IsFiniteSet(s) /\ Cardinality(s) \in 0..Cardinality(S)
  BY FS_Subset, FS_CardinalityType
<1>2. \A s \in SUBSET S : s # {} =>
        Choice(s) \in s /\ Cardinality(s \ {Choice(s)}) = Cardinality(s) - 1
  <2>1. ASSUME NEW s \in SUBSET S, s # {} PROVE Choice(s) \in s
    BY <2>1 DEF Choice
  <2> QED BY <1>1, <2>1, FS_RemoveElement
<1>3. Have(0)
  <2> DEFINE f == [s \in Small(0) |-> 0]
  <2>1. \A s \in Small(0) : s = {}
    BY <1>1, FS_EmptySet
  <2>2. f = [s \in Small(0) |-> Rule(f, s)]
    BY <2>1
  <2> QED BY <2>2
<1>4. ASSUME NEW k \in Nat, Have(k) PROVE Have(k + 1)
  <2>1. PICK f : f = [s \in Small(k) |-> Rule(f, s)]
    BY <1>4
  <2> DEFINE g == [s \in Small(k + 1) |-> IF s \in Small(k) THEN f[s] ELSE Rule(f, s)]
  <2>2. ASSUME NEW s \in Small(k + 1) PROVE g[s] = Rule(g, s)
    <3>1. g[s] = Rule(f, s)
      BY <2>1
    <3>2. CASE s = {}
      BY <3>1, <3>2
    <3>3. CASE s # {}
      <4> DEFINE t == s \ {Choice(s)}
      <4>1. t \in Small(k) /\ t \in Small(k + 1)
        BY <1>1, <1>2, <3>3
      <4>2. g[t] = f[t]
        BY <4>1
      <4> QED BY <3>1, <3>3, <4>2
    <3> QED BY <3>2, <3>3
  <2>3. g = [s \in Small(k + 1) |-> Rule(g, s)]
    BY <2>2
  <2> QED BY <2>3
<1>5. Lack = {}
  <2> SUFFICES ASSUME Lack # {} PROVE FALSE
    OBVIOUS
  <2> HIDE DEF Have
  <2>1. PICK k \in Lack : \A m \in Lack : k <= m
    BY LeastNumber
  <2>2. k \in Nat /\ k # 0 /\ k - 1 \in Nat /\ k - 1 \notin Lack
    BY <1>3, <2>1
  <2>3. Have(k - 1) /\ (k - 1) + 1 = k
    BY <2>2
  <2>4. Have(k)
    BY <1>4, <2>2, <2>3
  <2> QED BY <2>4
<1>6. Cardinality(S) \in Nat /\ Small(Cardinality(S)) = SUBSET S
  BY <1>1, FS_CardinalityType
<1>7. Have(Cardinality(S))
  BY <1>5, <1>6
<1> QED BY <1>6, <1>7 DEF SumsOver

LEMMA SumsAreNumbers ==
  ASSUME NEW S, IsFiniteSet(S), NEW w, \A x \in S : w[x] \in Nat,
         NEW f, Sums(f, w, S)
  PROVE  \A s \in SUBSET S : f[s] \in Nat
<1> DEFINE Bad == {s \in SUBSET S : f[s] \notin Nat}
<1> SUFFICES ASSUME Bad # {} PROVE FALSE
  OBVIOUS
<1>1. PICK s \in Bad : \A x \in s : s \ {x} \notin Bad
  BY SmallestSet
<1>2. CASE s = {}
  <2>1. f[{}] = 0 /\ f[s] \notin Nat
    BY <1>1 DEF Sums
  <2> QED BY <1>2, <2>1
<1>3. CASE s # {}
  <2> DEFINE c == Choice(s)
  <2>1. c \in s /\ f[s] = w[c] + f[s \ {c}]
    BY <1>1, <1>3 DEF Sums, Choice
  <2> HIDE DEF c
  <2> QED BY <1>1, <2>1
<1> QED BY <1>2, <1>3

\* Whichever element is taken first.
Additive(f, w, S) ==
  \A s \in SUBSET S : f[s] \in Nat /\ \A x \in s : f[s] = w[x] + f[s \ {x}]

LEMMA SumIsAdditive ==
  ASSUME NEW S, IsFiniteSet(S), NEW w, \A x \in S : w[x] \in Nat,
         NEW f, Sums(f, w, S)
  PROVE  Additive(f, w, S)
<1> DEFINE Fine(s) == \A x \in s : f[s] = w[x] + f[s \ {x}]
           Bad == {s \in SUBSET S : ~Fine(s)}
<1>0. \A t \in SUBSET S : f[t] \in Nat
  BY SumsAreNumbers
<1> SUFFICES ASSUME Bad # {} PROVE FALSE
  BY <1>0 DEF Additive
<1>1. PICK s \in Bad : \A x \in s : s \ {x} \notin Bad
  BY SmallestSet
<1>2. s \in SUBSET S /\ \A x \in s : Fine(s \ {x})
  BY <1>1
<1>4. PICK x \in s : f[s] # w[x] + f[s \ {x}]
  BY <1>1
<1> DEFINE c == Choice(s)
           t == (s \ {x}) \ {c}
<1>5. c \in s /\ f[s] = w[c] + f[s \ {c}]
  BY <1>2, <1>4 DEF Sums, Choice
<1> HIDE DEF c
<1>6. x # c
  BY <1>4, <1>5
<1>7. f[s \ {x}] = w[c] + f[t]
  BY <1>2, <1>4, <1>5, <1>6
<1>8. f[s \ {c}] = w[x] + f[t]
  <2>1. f[s \ {c}] = w[x] + f[(s \ {c}) \ {x}]
    BY <1>2, <1>4, <1>5, <1>6
  <2>2. (s \ {c}) \ {x} = t
    OBVIOUS
  <2> QED BY <2>1, <2>2
<1>9. w[x] \in Nat /\ w[c] \in Nat /\ f[t] \in Nat
  BY <1>0, <1>2, <1>4, <1>5
<1> HIDE DEF t
<1> QED BY <1>4, <1>5, <1>7, <1>8, <1>9

\* The sum over a set does not depend on the function it is read from.
LEMMA SumsAgree ==
  ASSUME NEW S, IsFiniteSet(S), NEW w, NEW f, Sums(f, w, S),
         NEW T \in SUBSET S, NEW g, Sums(g, w, T)
  PROVE  \A s \in SUBSET T : g[s] = f[s]
<1> DEFINE Bad == {s \in SUBSET T : g[s] # f[s]}
<1> SUFFICES ASSUME Bad # {} PROVE FALSE
  OBVIOUS
<1>0. IsFiniteSet(T)
  BY FS_Subset
<1>1. PICK s \in Bad : \A x \in s : s \ {x} \notin Bad
  BY <1>0, SmallestSet
<1>2. CASE s = {}
  BY <1>1, <1>2 DEF Sums
<1>3. CASE s # {}
  <2> DEFINE c == Choice(s)
  <2>1. c \in s /\ f[s] = w[c] + f[s \ {c}] /\ g[s] = w[c] + g[s \ {c}]
    BY <1>1, <1>3 DEF Sums, Choice
  <2> HIDE DEF c
  <2> QED BY <1>1, <2>1
<1> QED BY <1>2, <1>3

\* The sum of w over S.
SumOf(w, S) == (CHOOSE f : SumsOver(f, w, S))[S]

LEMMA SumOfIsASum ==
  ASSUME NEW S, IsFiniteSet(S), NEW w
  PROVE  \E f : /\ Sums(f, w, S)
                /\ \A T \in SUBSET S : SumOf(w, T) = f[T]
<1> DEFINE F(T) == CHOOSE f : SumsOver(f, w, T)
<1>1. \A T \in SUBSET S : SumsOver(F(T), w, T) /\ SumOf(w, T) = F(T)[T]
  <2> SUFFICES ASSUME NEW T \in SUBSET S
               PROVE  SumsOver(F(T), w, T) /\ SumOf(w, T) = F(T)[T]
    OBVIOUS
  <2>1. IsFiniteSet(T)
    BY FS_Subset
  <2>2. \E f : SumsOver(f, w, T)
    BY <2>1, SumsExist
  <2> QED BY <2>2 DEF SumOf
<1> HIDE DEF F
<1>2. \A T \in SUBSET S : Sums(F(T), w, T)
  BY <1>1 DEF Sums, SumsOver
<1>3. \A T \in SUBSET S : F(T)[T] = F(S)[T]
  BY <1>2, SumsAgree
<1> QED BY <1>1, <1>2, <1>3

\* What a shard weighs is a sum of that kind.
LEMMA LoadIsSum ==
  ASSUME NEW S
  PROVE  Load(S) = SumOf(dur, S) /\ Load(S)' = SumOf(dur', S)
BY DEF Load, MapThenSumSet, MapThenFoldSet, Choice, SumOf, SumsOver

\* Adding up the loads of a set of tests.
LEMMA Loads ==
  ASSUME dur \in [Test -> Duration]
  PROVE  /\ Load({}) = 0
         /\ \A S \in SUBSET Test : Load(S) \in Nat
         /\ \A S, T \in SUBSET Test :
              S \cap T = {} => Load(S \cup T) = Load(S) + Load(T)
<1>1. PICK f : Sums(f, dur, Test) /\ \A T \in SUBSET Test : SumOf(dur, T) = f[T]
  BY FiniteTests, SumOfIsASum
<1>2. \A T \in SUBSET Test : Load(T) = f[T]
  BY <1>1, LoadIsSum
<1>3. \A x \in Test : dur[x] \in Nat
  BY NumbersArePositive
<1>4. Additive(f, dur, Test)
  BY <1>1, <1>3, FiniteTests, SumIsAdditive
<1>5. /\ \A S \in SUBSET Test : f[S] \in Nat
      /\ \A S \in SUBSET Test : \A x \in S : f[S] = dur[x] + f[S \ {x}]
  BY <1>4 DEF Additive
<1>6. f[{}] = 0
  BY <1>1 DEF Sums
<1>7. ASSUME NEW S \in SUBSET Test
      PROVE  \A T \in SUBSET (Test \ S) : f[S \cup T] = f[S] + f[T]
  <2> DEFINE Bad == {T \in SUBSET (Test \ S) : f[S \cup T] # f[S] + f[T]}
  <2> SUFFICES ASSUME Bad # {} PROVE FALSE
    OBVIOUS
  <2>0. IsFiniteSet(Test \ S)
    BY FiniteTests, FS_Difference
  <2>1. PICK T \in Bad : \A x \in T : T \ {x} \notin Bad
    BY <2>0, SmallestSet
  <2>2. T \in SUBSET (Test \ S) /\ f[S \cup T] # f[S] + f[T]
    BY <2>1
  <2>3. T # {}
    <3>1. S \cup {} = S /\ f[S] \in Nat
      BY <1>5
    <3>2. f[S \cup {}] = f[S] + f[{}]
      BY <1>6, <3>1
    <3> QED BY <2>2, <3>2
  <2>4. PICK x \in T : TRUE
    BY <2>3
  <2>5. f[S \cup (T \ {x})] = f[S] + f[T \ {x}]
    BY <2>1, <2>2
  <2>6. (S \cup T) \ {x} = S \cup (T \ {x})
    BY <2>2
  <2>7. f[S \cup T] = dur[x] + f[S \cup (T \ {x})]
    BY <1>5, <2>2, <2>6
  <2>8. f[T] = dur[x] + f[T \ {x}]
    BY <1>5, <2>2
  <2>9. dur[x] \in Nat /\ f[S] \in Nat /\ f[T \ {x}] \in Nat
    BY <1>3, <1>5, <2>2
  <2> QED BY <2>2, <2>5, <2>7, <2>8, <2>9
<1>8. \A S, T \in SUBSET Test : S \cap T = {} => f[S \cup T] = f[S] + f[T]
  <2> SUFFICES ASSUME NEW S \in SUBSET Test, NEW T \in SUBSET Test, S \cap T = {}
               PROVE  f[S \cup T] = f[S] + f[T]
    OBVIOUS
  <2>1. T \in SUBSET (Test \ S)
    OBVIOUS
  <2>2. \A V \in SUBSET (Test \ S) : f[S \cup V] = f[S] + f[V]
    BY <1>7
  <2> QED BY <2>1, <2>2, Zenon
<1>9. \A S \in SUBSET Test : Load(S) = f[S] /\ f[S] \in Nat
  BY <1>2, <1>5
<1>10. \A S, T \in SUBSET Test : S \cup T \in SUBSET Test
  OBVIOUS
<1>11. \A S, T \in SUBSET Test : S \cap T = {} => Load(S \cup T) = Load(S) + Load(T)
  <2> SUFFICES ASSUME NEW S \in SUBSET Test, NEW T \in SUBSET Test, S \cap T = {}
               PROVE  Load(S \cup T) = Load(S) + Load(T)
    OBVIOUS
  <2>1. Load(S \cup T) = f[S \cup T] /\ Load(S) = f[S] /\ Load(T) = f[T]
    BY <1>9, <1>10
  <2> QED BY <1>8, <2>1
<1>12. Load({}) = 0
  BY <1>6, <1>9
<1> QED BY <1>9, <1>11, <1>12

-----------------------------------------------------------------------------
(* The tests of the units, and the list that execution starts from *)

LEMMA UnitsPartition ==
  /\ \A U \in Units : U \in SUBSET Test /\ U # {}
  /\ \A U, V \in Units : U # V => U \cap V = {}
  /\ UNION Units = Test
<1>1. CASE strategy = "file"
  BY <1>1 DEF Units
<1>2. CASE strategy # "file"
  BY <1>2 DEF Units
<1> QED BY <1>1, <1>2

\* SetToSeq lists every test once.
LEMMA ListOfTests ==
  LET order == SetToSeq(Test)
  IN  /\ order \in [1..Cardinality(Test) -> Test]
      /\ \A i, j \in 1..Cardinality(Test) : order[i] = order[j] => i = j
      /\ \A t \in Test : \E i \in 1..Cardinality(Test) : order[i] = t
      /\ Cardinality(Test) \in Nat
<1> DEFINE n == Cardinality(Test)
           order == SetToSeq(Test)
<1>1. n \in Nat /\ ExistsBijection(1..n, Test)
  BY FiniteTests, FS_CardinalityType
<1>2. PICK b : b \in Bijection(1..n, Test)
  BY <1>1 DEF ExistsBijection
<1>3. b \in [1..n -> Test] /\ IsInjective(b)
  BY <1>2 DEF Bijection, Injection
<1>4. order \in [1..n -> Test] /\ IsInjective(order)
  BY <1>3 DEF SetToSeq
<1> HIDE DEF order
<1>5. order \in Injection(1..n, Test)
  BY <1>4 DEF Injection
<1>6. IsFiniteSet(1..n) /\ Cardinality(1..n) = n
  BY <1>1, FS_Interval
<1>7. order \in Surjection(1..n, Test)
  BY <1>5, <1>6, FiniteTests, FS_Injection
<1> HIDE DEF n
<1>8. \A i, j \in 1..n : order[i] = order[j] => i = j
  BY <1>4 DEF IsInjective
<1>9. \A t \in Test : \E i \in 1..n : order[i] = t
  BY <1>7 DEF Surjection, Range
<1> QED BY <1>1, <1>4, <1>8, <1>9 DEF order, n

-----------------------------------------------------------------------------
(* No test is lost or doubled *)

IndInv == TypeOK /\ ShardInv

LEMMA InitShards == Init => IndInv
<1> SUFFICES ASSUME Init PROVE IndInv
  OBVIOUS
<1> USE NumbersArePositive
<1>1. PICK n \in 1..MaxShards : plan = [s \in 1..n |-> {}]
  BY DEF Init
<1>2. n \in Nat \ {0} /\ plan \in Seq(SUBSET Test) /\ Shard = 1..n /\ plan # <<>>
  BY <1>1 DEF Shard
<1>3. TypeOK
  BY <1>2, UnitsPartition DEF Init, TypeOK
<1>4. \A s \in Shard : plan[s] = {}
  BY <1>1, <1>2
<1>5. Placed = {}
  BY UnitsPartition DEF Init, Placed
<1>6. NothingRan
  BY <1>2 DEF Init, NothingRan
<1>7. ShardInv
  <2>1. left \subseteq Units /\ phase = "split"
    BY DEF Init
  <2>2. \A s \in Shard : rows[s] = <<>>
    BY DEF Init
  <2> QED BY <1>2, <1>4, <1>5, <1>6, <2>1, <2>2 DEF ShardInv
<1> QED BY <1>3, <1>7 DEF IndInv

LEMMA PlanIsAList ==
  ASSUME TypeOK
  PROVE  /\ Len(plan) \in Nat /\ Shard = 1..Len(plan) /\ plan \in [Shard -> SUBSET Test]
         /\ rows \in [Shard -> Seq(SUBSET Test)]
         /\ todo \in [Shard -> SUBSET Test] /\ doing \in [Shard -> {{}} \cup {{t} : t \in Test}]
<1>1. Len(plan) \in Nat /\ Shard = 1..Len(plan) /\ plan \in [Shard -> SUBSET Test]
  <2>1. plan \in Seq(SUBSET Test)
    BY DEF TypeOK
  <2> QED BY <2>1 DEF Shard
<1> QED BY <1>1 DEF TypeOK

LEMMA PlaceKeeps ==
  ASSUME IndInv, NEW s \in Shard, NEW U \in left, PlaceUnit(U, s)
  PROVE  IndInv'
<1> USE PlanIsAList DEF IndInv
<1>1. /\ U \in SUBSET Test /\ left' = left \ {U} /\ UNCHANGED <<phase, runVars>>
      /\ plan' = [plan EXCEPT ![s] = @ \cup U] /\ phase = "split"
  BY UnitsPartition DEF PlaceUnit, ShardInv
<1>2. /\ Shard' = Shard /\ Len(plan') = Len(plan)
      /\ plan' \in Seq(SUBSET Test)
      /\ \A r \in Shard : plan'[r] = IF r = s THEN plan[s] \cup U ELSE plan[r]
  BY <1>1 DEF Shard, TypeOK
<1>3. TypeOK'
  BY <1>1, <1>2 DEF TypeOK, PlaceUnit, runVars
<1>4. \A V \in left : V # U => U \cap V = {}
  BY UnitsPartition DEF ShardInv
<1>5. Placed' = Placed \cup U
  BY <1>1, <1>4 DEF Placed
<1>6. \A r \in Shard : plan[r] \cap U = {}
  <2>1. U \cap Placed = {}
    BY DEF Placed
  <2>2. \A r \in Shard : plan[r] \subseteq Placed
    BY DEF ShardInv
  <2> QED BY <2>1, <2>2
<1>7. \A r, q \in Shard : r # q => plan'[r] \cap plan'[q] = {}
  BY <1>2, <1>6 DEF ShardInv
<1>8. UNION {plan'[r] : r \in Shard} = Placed'
  <2>1. UNION {plan[r] : r \in Shard} = Placed
    BY DEF ShardInv
  <2>2. ASSUME NEW t PROVE (\E r \in Shard : t \in plan'[r]) <=> t \in Placed \cup U
    <3>1. (\E r \in Shard : t \in plan'[r]) <=> (\E r \in Shard : t \in plan[r]) \/ t \in U
      BY <1>2
    <3>2. (\E r \in Shard : t \in plan[r]) <=> t \in Placed
      BY <2>1
    <3> QED BY <3>1, <3>2
  <2> QED BY <1>5, <2>2
<1>9. plan' # <<>> /\ left' \subseteq Units'
  BY <1>1, <1>2 DEF ShardInv, PlaceUnit, Units
<1>10. NothingRan' /\ \A r \in Shard : rows'[r] = <<>>
  BY <1>1, <1>2 DEF ShardInv, NothingRan, runVars
<1> QED BY <1>1, <1>2, <1>3, <1>7, <1>8, <1>9, <1>10 DEF ShardInv

LEMMA OneEachKeeps ==
  ASSUME IndInv, OneEach(SetToSeq(Test))
  PROVE  IndInv'
<1> DEFINE order == SetToSeq(Test)
           n == Cardinality(Test)
<1>1. /\ order \in [1..n -> Test] /\ n \in Nat
      /\ \A i, j \in 1..n : order[i] = order[j] => i = j
      /\ \A t \in Test : \E i \in 1..n : order[i] = t
  BY ListOfTests
<1>2. /\ plan' = [i \in DOMAIN order |-> {order[i]}] /\ left' = {} /\ left # {}
      /\ todo' = [i \in DOMAIN order |-> {}] /\ doing' = [i \in DOMAIN order |-> {}]
      /\ rows' = [i \in DOMAIN order |-> <<>>] /\ phase = "split" /\ phase' = phase
      /\ UNCHANGED <<strategy, dur, moves, taken, dead, failed>>
  BY DEF OneEach
<1> HIDE DEF order, n
<1>3. DOMAIN order = 1..n /\ Shard' = 1..n
  BY <1>1, <1>2 DEF Shard
<1>4. taken = {} /\ dead = {} /\ failed = {}
  BY <1>2 DEF IndInv, ShardInv, NothingRan
<1>5. plan' \in Seq(SUBSET Test) /\ Len(plan') = n
  BY <1>1, <1>2, <1>3
<1>6. TypeOK'
  BY <1>1, <1>2, <1>3, <1>4, <1>5 DEF IndInv, TypeOK
<1>7. n # 0
  <2>1. Test # {}
    BY <1>2, UnitsPartition DEF IndInv, ShardInv
  <2> QED BY <1>1, <2>1
<1>8. plan' # <<>>
  BY <1>1, <1>5, <1>7
<1>9. UNION {plan'[s] : s \in 1..n} = Test /\ Placed' = Test
  BY <1>1, <1>2, <1>3 DEF Placed
<1>10. \A s, r \in 1..n : s # r => plan'[s] \cap plan'[r] = {}
  BY <1>1, <1>2, <1>3
<1>11. NothingRan' /\ \A s \in 1..n : rows'[s] = <<>>
  BY <1>2, <1>3, <1>4 DEF NothingRan
<1> QED BY <1>2, <1>3, <1>6, <1>8, <1>9, <1>10, <1>11 DEF IndInv, ShardInv

\* The shard a test is taken from outweighs the one it goes to, so they differ.
LEMMA RebalanceKeeps ==
  ASSUME IndInv, NEW s \in Shard, NEW r \in Shard, Rebalance(s, r)
  PROVE  IndInv'
<1> USE PlanIsAList DEF IndInv
<1>1. PICK t \in plan[s] : plan' = [plan EXCEPT ![s] = @ \ {t}, ![r] = @ \cup {t}]
  BY DEF Rebalance, Move
<1>2. s # r
  <2>1. Total \in Nat /\ Weight(s) \in Nat
    BY Loads DEF TypeOK, Total, Weight
  <2>2. 5 * Len(plan) * (Weight(s) - Weight(r)) > Total
    BY DEF Rebalance, Imbalanced
  <2>3. CASE s = r
    <3>1. Weight(s) - Weight(r) = 0
      BY <2>1, <2>3
    <3> QED BY <2>1, <2>2, <3>1
  <2> QED BY <2>3
<1>3. /\ UNCHANGED <<strategy, dur, left, phase, runVars>>
      /\ phase = "balance" /\ moves < Cap /\ moves' = moves + 1
  BY DEF Rebalance
<1>4. t \in Test
  BY <1>1
<1>5. /\ Shard' = Shard /\ Len(plan') = Len(plan)
      /\ plan' \in Seq(SUBSET Test) /\ plan' \in [Shard -> SUBSET Test]
      /\ \A q \in Shard : plan'[q] = IF q = s THEN plan[s] \ {t}
                                     ELSE IF q = r THEN plan[r] \cup {t} ELSE plan[q]
  <2>1. plan' \in [1..Len(plan) -> SUBSET Test]
    BY <1>1, <1>4
  <2>2. plan' \in Seq(SUBSET Test) /\ Len(plan') = Len(plan)
    <3> DEFINE n == Len(plan)
    <3>1. n \in Nat /\ plan' \in [1..n -> SUBSET Test]
      BY <2>1
    <3> HIDE DEF n
    <3>2. plan' \in Seq(SUBSET Test) /\ Len(plan') = n
      BY <3>1
    <3> QED BY <3>2 DEF n
  <2>3. Shard' = Shard
    BY <2>1 DEF Shard
  <2> QED BY <1>1, <1>2, <2>1, <2>2, <2>3
<1>6. TypeOK'
  <2>1. moves' \in 0..Cap
    BY <1>3, NumbersArePositive DEF TypeOK
  <2> QED BY <1>3, <1>5, <2>1 DEF TypeOK, runVars
<1>7. \A p, q \in Shard : p # q => plan'[p] \cap plan'[q] = {}
  <2>1. \A q \in Shard : q # s => t \notin plan[q]
    BY <1>1 DEF ShardInv
  <2>2. \A p, q \in Shard : p # q => plan[p] \cap plan[q] = {}
    BY DEF ShardInv
  <2>3. /\ plan'[r] = plan[r] \cup {t}
        /\ \A q \in Shard : q # r => plan'[q] \subseteq plan[q] /\ t \notin plan'[q]
    BY <1>2, <1>5, <2>1
  <2>4. ASSUME NEW p \in Shard, NEW q \in Shard, p # q, q # r
        PROVE  plan'[p] \cap plan'[q] = {}
    <3>1. plan'[p] \subseteq plan[p] \cup {t} /\ plan'[q] \subseteq plan[q] /\ t \notin plan'[q]
      BY <2>3, <2>4
    <3> QED BY <2>2, <2>4, <3>1
  <2> QED BY <2>4
<1>8. UNION {plan'[q] : q \in Shard} = Placed'
  <2>1. UNION {plan[q] : q \in Shard} = Placed /\ Placed' = Placed
    BY <1>3 DEF ShardInv, Placed
  <2>2. ASSUME NEW u PROVE (\E q \in Shard : u \in plan'[q]) <=> u \in Placed
    <3>1. u \in Placed <=> \E q \in Shard : u \in plan[q]
      BY <2>1
    <3>2. CASE u = t
      BY <1>1, <1>2, <1>5, <3>1, <3>2
    <3>3. CASE u # t
      BY <1>1, <1>2, <1>5, <3>1, <3>3
    <3> QED BY <3>2, <3>3
  <2> QED BY <2>1, <2>2
<1>9. plan' # <<>> /\ left' = {} /\ left' \subseteq Units'
  BY <1>3, <1>5 DEF ShardInv
<1>10. NothingRan' /\ \A q \in Shard : rows'[q] = <<>>
  BY <1>3, <1>5 DEF ShardInv, NothingRan, runVars
<1> QED BY <1>3, <1>5, <1>6, <1>7, <1>8, <1>9, <1>10 DEF ShardInv

\* What the workers do leaves the split alone.
LEMMA RunKeepsSplit ==
  ASSUME IndInv, UNCHANGED splitVars, phase' \notin {"split", "balance"},
         left = {} \/ phase = "run", TypeOK',
         \A s \in Shard :
           rows'[s] # <<>> => /\ Over(s)'
                              /\ rows'[s] \in {<<Outcome(s)'>>, <<Outcome(s)', {}>>},
         phase' = "summed" => \A s \in Shard : rows'[s] # <<>>
  PROVE  IndInv'
<1>1. /\ Shard' = Shard /\ Placed' = Placed /\ Units' = Units /\ left' = {}
      /\ plan' = plan /\ left' = left
  BY DEF splitVars, Shard, Placed, Units, IndInv, ShardInv
<1> QED BY <1>1 DEF IndInv, ShardInv

LEMMA ExecuteKeeps ==
  ASSUME IndInv, Execute
  PROVE  IndInv'
<1> USE PlanIsAList DEF IndInv
<1>1. /\ UNCHANGED <<splitVars, taken, doing, dead, failed, rows>>
      /\ left = {} /\ phase' = "run" /\ todo' = plan /\ phase \in {"split", "balance"}
  BY DEF Execute, ShardInv
<1>2. TypeOK'
  BY <1>1 DEF TypeOK, splitVars, Shard
<1>3. \A s \in Shard : rows'[s] = <<>>
  BY <1>1 DEF ShardInv, NothingRan
<1> QED BY <1>1, <1>2, <1>3, RunKeepsSplit

LEMMA WorkKeeps ==
  ASSUME IndInv, NEW s \in Shard,
         \/ Take(s) \/ Raise(s)
         \/ \E t \in Test : StartTest(s, t)
         \/ \E bad \in BOOLEAN : EndTest(s, bad)
  PROVE  IndInv'
<1> USE PlanIsAList DEF IndInv
<1>1. /\ UNCHANGED <<splitVars, phase, rows>> /\ phase = "run"
      /\ rows' = rows /\ plan' = plan /\ Shard' = Shard /\ phase' = "run"
  BY DEF Take, Raise, StartTest, EndTest, splitVars, Shard
<1>2. TypeOK'
  <2>1. CASE Take(s)
    BY <1>1, <2>1 DEF TypeOK, Take, splitVars
  <2>2. CASE Raise(s)
    BY <1>1, <2>2 DEF TypeOK, Raise, splitVars, Running
  <2>3. CASE \E t \in Test : StartTest(s, t)
    <3>1. PICK t \in Test : StartTest(s, t)
      BY <2>3
    <3>2. todo' \in [Shard -> SUBSET Test] /\ doing' \in [Shard -> {{}} \cup {{u} : u \in Test}]
      BY <3>1 DEF StartTest
    <3>3. UNCHANGED <<taken, dead, failed>>
      BY <3>1 DEF StartTest
    <3> QED BY <1>1, <3>2, <3>3 DEF TypeOK, splitVars
  <2>4. CASE \E bad \in BOOLEAN : EndTest(s, bad)
    <3>1. doing' \in [Shard -> {{}} \cup {{u} : u \in Test}]
      BY <2>4 DEF EndTest
    <3>2. doing[s] \subseteq Test
      <4>1. doing[s] \in {{}} \cup {{u} : u \in Test}
        OBVIOUS
      <4> QED BY <4>1
    <3>3. failed' \subseteq Test /\ UNCHANGED <<taken, todo, dead>>
      BY <2>4, <3>2 DEF EndTest, TypeOK
    <3> QED BY <1>1, <3>1, <3>3 DEF TypeOK, splitVars
  <2> QED BY <2>1, <2>2, <2>3, <2>4
<1>3. ASSUME NEW r \in Shard, Over(r) PROVE Over(r)' /\ Outcome(r)' = Outcome(r)
  <2>1. CASE Take(s)
    BY <1>1, <1>3, <2>1 DEF Take, Over, Outcome
  <2>2. CASE Raise(s)
    <3>1. s # r
      BY <1>3, <2>2 DEF Raise, Running
    <3> QED BY <1>1, <1>3, <2>2, <3>1 DEF Raise, Over, Outcome
  <2>3. CASE \E t \in Test : StartTest(s, t)
    <3>1. s # r
      BY <1>3, <2>3 DEF StartTest, Running
    <3> QED BY <1>1, <1>3, <2>3, <3>1 DEF StartTest, Over, Outcome
  <2>4. CASE \E bad \in BOOLEAN : EndTest(s, bad)
    BY <1>1, <1>3, <2>4 DEF EndTest, Over, Outcome
  <2> QED BY <2>1, <2>2, <2>3, <2>4
<1>4. \A r \in Shard :
        rows'[r] # <<>> => /\ Over(r)'
                           /\ rows'[r] \in {<<Outcome(r)'>>, <<Outcome(r)', {}>>}
  BY <1>1, <1>3 DEF ShardInv
<1> QED BY <1>1, <1>2, <1>4, RunKeepsSplit

LEMMA CollectKeeps ==
  ASSUME IndInv, NEW s \in Shard, Collect(s)
  PROVE  IndInv'
<1> USE PlanIsAList DEF IndInv
<1>1. /\ UNCHANGED <<splitVars, phase, taken, todo, doing, dead, failed>>
      /\ phase = "run" /\ phase' = "run" /\ plan' = plan /\ Shard' = Shard /\ Over(s)
      /\ \A r \in Shard : Over(r)' = Over(r) /\ Outcome(r)' = Outcome(r)
  BY DEF Collect, splitVars, Shard, Over, Outcome
<1>2. PICK row \in {<<Outcome(s)>>, <<Outcome(s), {}>>} : rows' = [rows EXCEPT ![s] = row]
  BY DEF Collect
<1>3. Outcome(s) \in SUBSET Test
  BY DEF Outcome
<1>4. row \in Seq(SUBSET Test)
  <2>1. <<Outcome(s)>> \in Seq(SUBSET Test) /\ <<Outcome(s), {}>> \in Seq(SUBSET Test)
    BY <1>3
  <2> QED BY <2>1
<1>5. TypeOK'
  BY <1>1, <1>2, <1>4 DEF TypeOK, splitVars
<1>6. \A r \in Shard : rows'[r] = IF r = s THEN row ELSE rows[r]
  BY <1>2
<1>7. \A r \in Shard :
        rows'[r] # <<>> => /\ Over(r)'
                           /\ rows'[r] \in {<<Outcome(r)'>>, <<Outcome(r)', {}>>}
  BY <1>1, <1>2, <1>6 DEF ShardInv
<1> QED BY <1>1, <1>5, <1>7, RunKeepsSplit

LEMMA FinishKeeps ==
  ASSUME IndInv, SumUp \/ \E s \in Shard : CollectionFails(s)
  PROVE  IndInv'
<1> USE DEF IndInv
<1>1. /\ UNCHANGED <<splitVars, runVars>> /\ phase = "run" /\ phase' \in {"summed", "lost"}
      /\ phase' = "summed" => \A s \in Shard : rows[s] # <<>>
  BY DEF SumUp, CollectionFails
<1>2. /\ Shard' = Shard /\ rows' = rows
      /\ \A r \in Shard : Over(r)' = Over(r) /\ Outcome(r)' = Outcome(r)
  BY <1>1 DEF splitVars, runVars, Shard, Over, Outcome
<1>3. TypeOK'
  BY <1>1, <1>2 DEF TypeOK, splitVars, runVars
<1>4. \A r \in Shard :
        rows'[r] # <<>> => /\ Over(r)'
                           /\ rows'[r] \in {<<Outcome(r)'>>, <<Outcome(r)', {}>>}
  BY <1>2 DEF ShardInv
<1> QED BY <1>1, <1>2, <1>3, <1>4, RunKeepsSplit

\* Every run keeps each test in one shard or in one unit still to be placed, and
\* keeps a row for what a shard that is over came to.
THEOREM ShardsKeepTests == Spec => [](TypeOK /\ ShardInv)
<1>1. IndInv /\ [Next]_vars => IndInv'
  <2> SUFFICES ASSUME IndInv, [Next]_vars PROVE IndInv'
    OBVIOUS
  <2>1. ASSUME NEW s \in Shard, NEW U \in left, PlaceUnit(U, s) PROVE IndInv'
    BY <2>1, PlaceKeeps
  <2>2. ASSUME NEW s \in Shard, NEW r \in Shard, Rebalance(s, r) PROVE IndInv'
    BY <2>2, RebalanceKeeps
  <2>3. ASSUME NEW s \in Shard,
               \/ Take(s) \/ Raise(s)
               \/ \E t \in Test : StartTest(s, t)
               \/ \E bad \in BOOLEAN : EndTest(s, bad)
        PROVE  IndInv'
    BY <2>3, WorkKeeps
  <2>4. ASSUME NEW s \in Shard, Collect(s) PROVE IndInv'
    BY <2>4, CollectKeeps
  <2>5. ASSUME SumUp \/ \E s \in Shard : CollectionFails(s) PROVE IndInv'
    BY <2>5, FinishKeeps
  <2>6. ASSUME OneEach(SetToSeq(Test)) PROVE IndInv'
    BY <2>6, OneEachKeeps
  <2>7. ASSUME Execute PROVE IndInv'
    BY <2>7, ExecuteKeeps
  <2>8. ASSUME Optimize PROVE IndInv'
    <3>1. /\ UNCHANGED <<strategy, dur, plan, left, moves, runVars>>
          /\ phase = "split" /\ phase' = "balance" /\ left = {}
      BY <2>8 DEF Optimize, splitVars
    <3>2. TypeOK'
      BY <3>1 DEF IndInv, TypeOK, runVars, Shard
    <3>3. NothingRan'
      BY <3>1 DEF IndInv, ShardInv, NothingRan, runVars, Shard
    <3> QED BY <3>1, <3>2, <3>3 DEF IndInv, ShardInv, NothingRan, runVars, Shard, Placed, Units
  <2>9. ASSUME UNCHANGED vars PROVE IndInv'
    <3>1. TypeOK'
      BY <2>9 DEF vars, splitVars, runVars, IndInv, TypeOK, Shard
    <3> QED
      BY <2>9, <3>1 DEF vars, splitVars, runVars, IndInv, ShardInv, NothingRan, Shard,
         Placed, Units, Over, Outcome
  <2> QED BY <2>1, <2>2, <2>3, <2>4, <2>5, <2>6, <2>7, <2>8, <2>9 DEF Next
<1> QED BY InitShards, <1>1, PTL DEF Spec, IndInv

-----------------------------------------------------------------------------
(* The results: the rows one after the other *)

Flatten(f, k) == f = [i \in 1..k |-> IF i = 1 THEN rows[i] ELSE f[i - 1] \o rows[i]]

\* There is such a function: one for the first rows goes on to the next.
LEMMA FlattenExists ==
  ASSUME NEW k \in Nat
  PROVE  \E f : Flatten(f, k)
<1> DEFINE Rule(f, i) == IF i = 1 THEN rows[i] ELSE f[i - 1] \o rows[i]
           Have(m) == \E f : f = [i \in 1..m |-> Rule(f, i)]
           Lack == {m \in Nat : ~Have(m)}
<1>1. Have(0)
  <2> DEFINE f == [i \in 1..0 |-> 0]
  <2>1. f = [i \in 1..0 |-> Rule(f, i)]
    OBVIOUS
  <2> QED BY <2>1
<1>2. ASSUME NEW m \in Nat, Have(m) PROVE Have(m + 1)
  <2>1. PICK f : f = [i \in 1..m |-> Rule(f, i)]
    BY <1>2
  <2> DEFINE g == [i \in 1..(m + 1) |-> Rule(f, i)]
  <2>2. ASSUME NEW i \in 1..m PROVE g[i] = f[i]
    <3>1. f[i] = Rule(f, i)
      BY <2>1
    <3>2. i \in 1..(m + 1)
      OBVIOUS
    <3> HIDE DEF Rule
    <3>3. g[i] = Rule(f, i)
      BY <3>2
    <3> QED BY <3>1, <3>3
  <2>3. ASSUME NEW i \in 1..(m + 1) PROVE g[i] = Rule(g, i)
    <3>1. CASE i = 1
      BY <3>1
    <3>2. CASE i # 1
      <4>1. i - 1 \in 1..m
        BY <3>2
      <4>2. g[i - 1] = f[i - 1]
        BY <2>2, <4>1
      <4> QED BY <3>2, <4>2
    <3> QED BY <3>1, <3>2
  <2>4. g = [i \in 1..(m + 1) |-> Rule(g, i)]
    BY <2>3
  <2> QED BY <2>4
<1>3. Lack = {}
  <2> SUFFICES ASSUME Lack # {} PROVE FALSE
    OBVIOUS
  <2> HIDE DEF Have
  <2>1. PICK m \in Lack : \A j \in Lack : m <= j
    BY LeastNumber
  <2>2. m \in Nat /\ m # 0 /\ m - 1 \in Nat /\ m - 1 \notin Lack
    BY <1>1, <2>1
  <2>3. Have(m - 1) /\ (m - 1) + 1 = m
    BY <2>2
  <2> QED BY <1>2, <2>1, <2>2, <2>3
<1>4. Have(k)
  BY <1>3
<1> QED BY <1>4 DEF Flatten

\* What is said of the rows from 1 to k put together in list.
Joins(list, O, k) ==
  /\ list \in Seq(SUBSET Test)
  /\ \A p, q \in 1..Len(list) : p # q => list[p] \cap list[q] = {}
  /\ \A t : (\E p \in 1..Len(list) : t \in list[p]) <=> (\E i \in 1..k : t \in O[i])

\* A row more, of tests that no row has yet.
LEMMA JoinsOneMore ==
  ASSUME NEW n \in Nat, NEW k \in 1..n, k + 1 <= n,
         NEW O \in [1..n -> SUBSET Test],
         \A i, j \in 1..n : i # j => O[i] \cap O[j] = {},
         NEW list, Joins(list, O, k),
         NEW row \in {<<O[k + 1]>>, <<O[k + 1], {}>>}
  PROVE  Joins(list \o row, O, k + 1)
<1> DEFINE both == list \o row
           a == Len(list)
           b == Len(row)
<1>1. k + 1 \in 1..n /\ O[k + 1] \in SUBSET Test
  OBVIOUS
<1>2. <<O[k + 1]>> \in Seq(SUBSET Test) /\ <<O[k + 1], {}>> \in Seq(SUBSET Test)
  BY <1>1
<1>3. list \in Seq(SUBSET Test) /\ row \in Seq(SUBSET Test)
  BY <1>2 DEF Joins
<1>4. /\ b \in {1, 2} /\ row[1] = O[k + 1] /\ (b = 2 => row[2] = {})
  OBVIOUS
<1>5. /\ a \in Nat /\ both \in Seq(SUBSET Test) /\ Len(both) = a + b
      /\ \A p \in 1..(a + b) : both[p] = IF p <= a THEN list[p] ELSE row[p - a]
  BY <1>3
<1>6. /\ \A p, q \in 1..a : p # q => list[p] \cap list[q] = {}
      /\ \A t : (\E p \in 1..a : t \in list[p]) <=> (\E i \in 1..k : t \in O[i])
  BY DEF Joins
<1> HIDE DEF both, a, b
<1>7. /\ \A p \in 1..a : both[p] = list[p]
      /\ both[a + 1] = O[k + 1]
      /\ b = 2 => both[a + 2] = {}
      /\ Len(both) = a + 1 \/ (b = 2 /\ Len(both) = a + 2)
  <2>1. \A p \in 1..a : p \in 1..(a + b) /\ p <= a
    BY <1>4, <1>5
  <2>2. a + 1 \in 1..(a + b) /\ ~(a + 1 <= a) /\ (a + 1) - a = 1
    BY <1>4, <1>5
  <2>3. b = 2 => a + 2 \in 1..(a + b) /\ ~(a + 2 <= a) /\ (a + 2) - a = 2
    BY <1>5
  <2> QED BY <1>4, <1>5, <2>1, <2>2, <2>3
<1>8. \A p \in 1..a : list[p] \cap O[k + 1] = {}
  <2> SUFFICES ASSUME NEW p \in 1..a, NEW t \in list[p], t \in O[k + 1] PROVE FALSE
    OBVIOUS
  <2>1. PICK i \in 1..k : t \in O[i]
    BY <1>6
  <2>2. i \in 1..n /\ i # k + 1
    OBVIOUS
  <2> QED BY <1>1, <2>1, <2>2
<1>9. ASSUME NEW p \in 1..Len(both)
      PROVE  p \in 1..a \/ p = a + 1 \/ (b = 2 /\ p = a + 2)
  BY <1>5, <1>7
<1>10. \A p, q \in 1..Len(both) : p # q => both[p] \cap both[q] = {}
  <2> SUFFICES ASSUME NEW p \in 1..Len(both), NEW q \in 1..Len(both), p # q
               PROVE  both[p] \cap both[q] = {}
    OBVIOUS
  <2>1. p \in 1..a \/ p = a + 1 \/ both[p] = {}
    BY <1>7, <1>9
  <2>2. q \in 1..a \/ q = a + 1 \/ both[q] = {}
    BY <1>7, <1>9
  <2>3. CASE p \in 1..a /\ q \in 1..a
    BY <1>7, <1>6, <2>3
  <2>4. CASE p \in 1..a /\ q = a + 1
    BY <1>7, <1>8, <2>4
  <2>5. CASE p = a + 1 /\ q \in 1..a
    BY <1>7, <1>8, <2>5
  <2> QED BY <2>1, <2>2, <2>3, <2>4, <2>5
<1>11. ASSUME NEW t
       PROVE  (\E p \in 1..Len(both) : t \in both[p]) <=> (\E i \in 1..(k + 1) : t \in O[i])
  <2>1. (\E p \in 1..Len(both) : t \in both[p])
          <=> (\E p \in 1..a : t \in list[p]) \/ t \in O[k + 1]
    <3>1. ASSUME NEW p \in 1..Len(both), t \in both[p]
          PROVE  (\E q \in 1..a : t \in list[q]) \/ t \in O[k + 1]
      BY <1>7, <1>9, <3>1
    <3>2. a + 1 \in 1..Len(both) /\ \A p \in 1..a : p \in 1..Len(both)
      BY <1>5, <1>7
    <3> QED BY <1>7, <3>1, <3>2
  <2>2. (\E i \in 1..(k + 1) : t \in O[i]) <=> (\E i \in 1..k : t \in O[i]) \/ t \in O[k + 1]
    <3>1. \A i \in 1..(k + 1) : i \in 1..k \/ i = k + 1
      OBVIOUS
    <3>2. k + 1 \in 1..(k + 1) /\ \A i \in 1..k : i \in 1..(k + 1)
      OBVIOUS
    <3> QED BY <3>1, <3>2
  <2> QED BY <1>6, <2>1, <2>2
<1>12. both \in Seq(SUBSET Test)
  BY <1>5
<1>13. Joins(both, O, k + 1)
  BY <1>10, <1>11, <1>12 DEF Joins
<1> QED BY <1>13 DEF both

\* The results are the outcomes of the shards, one for each, and empty lists.
LEMMA ResultsAreOutcomes ==
  ASSUME NEW n \in Nat \ {0}, rows \in [1..n -> Seq(SUBSET Test)],
         NEW O \in [1..n -> SUBSET Test],
         \A i, j \in 1..n : i # j => O[i] \cap O[j] = {},
         \A i \in 1..n : rows[i] \in {<<O[i]>>, <<O[i], {}>>}
  PROVE  Joins(Results, O, n)
<1>1. Len(rows) = n
  OBVIOUS
<1> DEFINE F == CHOOSE f : Flatten(f, n)
<1>2. Flatten(F, n)
  BY FlattenExists
<1>3. Results = F[n]
  BY <1>1 DEF Results, FlattenSeq, Flatten
<1> HIDE DEF F
<1>4. F[1] = rows[1] /\ \A i \in 1..n : i # 1 => F[i] = F[i - 1] \o rows[i]
  <2> DEFINE G == [i \in 1..n |-> IF i = 1 THEN rows[i] ELSE F[i - 1] \o rows[i]]
  <2>1. F = G
    BY <1>2 DEF Flatten
  <2>2. \A i \in 1..n : G[i] = IF i = 1 THEN rows[i] ELSE F[i - 1] \o rows[i]
    OBVIOUS
  <2> HIDE DEF G
  <2>3. \A i \in 1..n : F[i] = IF i = 1 THEN rows[i] ELSE F[i - 1] \o rows[i]
    BY <2>1, <2>2
  <2>4. 1 \in 1..n
    OBVIOUS
  <2> QED BY <2>3, <2>4
<1> DEFINE Bad == {k \in 1..n : ~Joins(F[k], O, k)}
<1>5. Joins(F[1], O, 1)
  <2>1. O[1] \in SUBSET Test /\ F[1] \in {<<O[1]>>, <<O[1], {}>>}
    BY <1>4
  <2>2. CASE F[1] = <<O[1]>>
    <3>1. F[1] \in Seq(SUBSET Test) /\ Len(F[1]) = 1 /\ F[1][1] = O[1]
      BY <2>1, <2>2
    <3> QED BY <3>1 DEF Joins
  <2>3. CASE F[1] = <<O[1], {}>>
    <3>1. F[1] \in Seq(SUBSET Test) /\ Len(F[1]) = 2 /\ F[1][1] = O[1] /\ F[1][2] = {}
      BY <2>1, <2>3
    <3>2. \A p \in 1..2 : p = 1 \/ p = 2
      OBVIOUS
    <3> QED BY <3>1, <3>2 DEF Joins
  <2> QED BY <2>1, <2>2, <2>3
<1>6. Bad = {}
  <2> SUFFICES ASSUME Bad # {} PROVE FALSE
    OBVIOUS
  <2>1. Bad \in SUBSET Nat
    OBVIOUS
  <2>2. PICK m \in Bad : \A j \in Bad : m <= j
    BY <2>1, LeastNumber
  <2>3. m \in 1..n /\ m # 1 /\ ~Joins(F[m], O, m)
    BY <1>5, <2>2
  <2> DEFINE k == m - 1
  <2>4. k \in 1..n /\ k + 1 = m /\ k \notin Bad
    BY <2>2, <2>3
  <2>5. Joins(F[k], O, k)
    BY <2>4
  <2>6. F[m] = F[k] \o rows[m] /\ rows[m] \in {<<O[m]>>, <<O[m], {}>>}
    BY <1>4, <2>3
  <2> HIDE DEF k
  <2>7. Joins(F[k] \o rows[m], O, k + 1)
    <3>1. rows[m] \in {<<O[k + 1]>>, <<O[k + 1], {}>>}
      BY <2>4, <2>6
    <3>2. k + 1 <= n
      BY <2>3, <2>4
    <3> QED BY <2>4, <2>5, <3>1, <3>2, JoinsOneMore
  <2> QED BY <2>3, <2>4, <2>6, <2>7
<1> QED BY <1>3, <1>6

\* The total counts the tests of the rows, which no two rows share.
LEMMA TotalIsTheirNumber ==
  ASSUME Results \in Seq(SUBSET Test),
         \A p, q \in 1..Len(Results) : p # q => Results[p] \cap Results[q] = {}
  PROVE  TotalTests = Cardinality(Reported)
<1> DEFINE D == DOMAIN Results
           w == [p \in D |-> Cardinality(Results[p])]
           In(s) == UNION {Results[p] : p \in s}
<1>1. D = 1..Len(Results) /\ Len(Results) \in Nat
  OBVIOUS
<1>2. IsFiniteSet(D)
  BY <1>1, FS_Interval
<1>3. \A p \in D : Results[p] \in SUBSET Test /\ IsFiniteSet(Results[p]) /\ w[p] \in Nat
  BY <1>1, FiniteTests, FS_Subset, FS_CardinalityType
<1> DEFINE Rule(f, s) == IF s = {} THEN 0
                         ELSE f[s \ {Choice(s)}] + Cardinality(Results[Choice(s)])
           h == CHOOSE f : f = [s \in SUBSET D |-> Rule(f, s)]
<1>4. TotalTests = h[D]
  BY Zenon DEF TotalTests, FoldSeq, FoldFunction, FoldFunctionOnSet, MapThenFoldSet, Choice
<1>5. h = [s \in SUBSET D |-> Rule(h, s)]
  <2>1. PICK g : SumsOver(g, w, D)
    BY <1>2, SumsExist
  <2>2. Sums(g, w, D)
    BY <2>1 DEF SumsOver, Sums
  <2>3. \A x \in D : w[x] \in Nat
    BY <1>3
  <2>4. \A s \in SUBSET D : g[s] \in Nat
    BY <1>2, <2>2, <2>3, SumsAreNumbers
  <2>5. ASSUME NEW s \in SUBSET D PROVE g[s] = Rule(g, s)
    <3>1. CASE s = {}
      BY <2>2, <3>1 DEF Sums
    <3>2. CASE s # {}
      <4>1. Choice(s) \in s
        BY <3>2 DEF Choice
      <4>2. g[s] = w[Choice(s)] + g[s \ {Choice(s)}]
        BY <2>2, <3>2 DEF Sums
      <4>3. g[s \ {Choice(s)}] \in Nat /\ w[Choice(s)] \in Nat
        BY <2>3, <2>4, <4>1
      <4>4. w[Choice(s)] = Cardinality(Results[Choice(s)])
        BY <4>1
      <4> QED BY <3>2, <4>2, <4>3, <4>4
    <3> QED BY <3>1, <3>2
  <2>6. g = [s \in SUBSET D |-> g[s]]
    BY <2>1 DEF SumsOver
  <2>7. g = [s \in SUBSET D |-> Rule(g, s)]
    BY <2>5, <2>6
  <2> QED BY <2>7
<1> HIDE DEF h
<1>6. \A s \in SUBSET D : h[s] = Rule(h, s)
  <2> DEFINE G == [s \in SUBSET D |-> Rule(h, s)]
  <2>1. h = G /\ \A s \in SUBSET D : G[s] = Rule(h, s)
    BY <1>5
  <2> HIDE DEF G
  <2> QED BY <2>1
<1> DEFINE Bad == {s \in SUBSET D : h[s] # Cardinality(In(s))}
<1>7. Bad = {}
  <2> SUFFICES ASSUME Bad # {} PROVE FALSE
    OBVIOUS
  <2>1. PICK s \in Bad : \A x \in s : s \ {x} \notin Bad
    BY <1>2, SmallestSet
  <2>2. s \in SUBSET D /\ h[s] # Cardinality(In(s))
    BY <2>1
  <2>3. s # {}
    <3>1. h[{}] = 0
      BY <1>6
    <3>2. In({}) = {}
      OBVIOUS
    <3>3. Cardinality(In({})) = 0
      BY <3>2, FS_EmptySet
    <3> QED BY <2>2, <3>1, <3>3
  <2> DEFINE c == Choice(s)
             t == s \ {c}
  <2>4. c \in s
    BY <2>3 DEF Choice
  <2>5. h[s] = h[t] + Cardinality(Results[c])
    BY <1>6, <2>2, <2>3
  <2> HIDE DEF c
  <2>6. h[t] = Cardinality(In(t))
    BY <2>1, <2>2, <2>4
  <2>7. In(s) = In(t) \cup Results[c]
    BY <2>4
  <2>8. In(t) \cap Results[c] = {}
    <3> SUFFICES ASSUME NEW u, u \in In(t), u \in Results[c] PROVE FALSE
      OBVIOUS
    <3>1. PICK p \in t : u \in Results[p]
      OBVIOUS
    <3> QED BY <1>1, <2>2, <2>4, <3>1
  <2>9. In(t) \in SUBSET Test
    BY <1>3, <2>2
  <2>10. IsFiniteSet(In(t)) /\ Cardinality(In(t)) \in Nat
    BY <2>9, FiniteTests, FS_Subset, FS_CardinalityType
  <2>11. IsFiniteSet(Results[c]) /\ Cardinality(Results[c]) \in Nat
    BY <1>3, <2>2, <2>4, FS_CardinalityType
  <2> HIDE DEF In, t
  <2>12. Cardinality(In(s)) = Cardinality(In(t)) + Cardinality(Results[c])
    <3>1. Cardinality(In(t) \cap Results[c]) = 0
      BY <2>8, FS_EmptySet
    <3>2. Cardinality(In(t) \cup Results[c])
            = Cardinality(In(t)) + Cardinality(Results[c]) - Cardinality(In(t) \cap Results[c])
      BY <2>10, <2>11, FS_Union
    <3> QED BY <2>7, <2>10, <2>11, <3>1, <3>2
  <2> QED BY <2>2, <2>5, <2>6, <2>12
<1>8. Reported = In(D)
  BY DEF Reported, Range
<1> HIDE DEF In
<1>9. h[D] = Cardinality(In(D))
  BY <1>7
<1> QED BY <1>4, <1>8, <1>9

\* Splitting and rebalancing put every test into one shard, and a run that is
\* summed up counts every test once, but for those of the shards that raised.
THEOREM EveryTestIsAccountedFor == Spec => []TestsAccounted
<1>1. TypeOK /\ ShardInv => TestsAccounted
  <2> SUFFICES ASSUME TypeOK, ShardInv, phase = "summed"
               PROVE  /\ TotalTests = Cardinality(Reported)
                      /\ Reported = Test \ UNION {plan[s] : s \in dead}
                      /\ failed \subseteq Reported \cup UNION {plan[s] : s \in dead}
    BY DEF ShardInv, TestsAccounted
  <2> DEFINE n == Len(plan)
             O == [s \in 1..n |-> Outcome(s)]
  <2>1. /\ n \in Nat \ {0} /\ Shard = 1..n /\ plan \in [1..n -> SUBSET Test]
        /\ rows \in [1..n -> Seq(SUBSET Test)] /\ dead \subseteq 1..n
    <3>1. n \in Nat /\ Shard = 1..n /\ plan \in [Shard -> SUBSET Test]
          /\ rows \in [Shard -> Seq(SUBSET Test)]
      BY PlanIsAList
    <3>2. n # 0
      BY <3>1 DEF ShardInv, TypeOK
    <3> QED BY <3>1, <3>2 DEF TypeOK
  <2>2. UNION {plan[s] : s \in 1..n} = Test
    BY <2>1 DEF ShardInv, Placed
  <2> HIDE DEF n
  <2>3. \A s \in 1..n : O[s] = IF s \in dead THEN {} ELSE plan[s]
    BY DEF Outcome
  <2>4. \A s, r \in 1..n : s # r => plan[s] \cap plan[r] = {}
    BY <2>1 DEF ShardInv
  <2>5. \A s \in 1..n : rows[s] \in {<<O[s]>>, <<O[s], {}>>}
    BY <2>1 DEF ShardInv
  <2> HIDE DEF O
  <2>6. O \in [1..n -> SUBSET Test]
    <3>1. \A s \in 1..n : Outcome(s) \in SUBSET Test
      BY <2>1 DEF Outcome
    <3> QED BY <3>1 DEF O
  <2>7. \A s, r \in 1..n : s # r => O[s] \cap O[r] = {}
    BY <2>3, <2>4
  <2>8. Joins(Results, O, n)
    BY <2>1, <2>5, <2>6, <2>7, ResultsAreOutcomes
  <2>9. TotalTests = Cardinality(Reported)
    BY <2>8, TotalIsTheirNumber DEF Joins
  <2>10. ASSUME NEW t PROVE t \in Reported <=> \E s \in 1..n : t \in O[s]
    <3>1. t \in Reported <=> \E p \in 1..Len(Results) : t \in Results[p]
      BY <2>8 DEF Joins, Reported, Range
    <3> QED BY <2>8, <3>1 DEF Joins
  <2>11. ASSUME NEW t
         PROVE  (\E s \in 1..n : t \in O[s])
                  <=> t \in Test /\ ~\E s \in dead : t \in plan[s]
    <3>1. t \in Test <=> \E s \in 1..n : t \in plan[s]
      BY <2>2
    <3>2. ASSUME NEW s \in 1..n, t \in plan[s]
          PROVE  t \in O[s] <=> ~\E r \in dead : t \in plan[r]
      BY <2>1, <2>3, <2>4, <3>2
    <3>3. \A s \in 1..n : t \in O[s] => t \in plan[s]
      BY <2>3
    <3> QED BY <3>1, <3>2, <3>3
  <2>12. Reported = Test \ UNION {plan[s] : s \in dead}
    BY <2>10, <2>11
  <2> QED BY <2>9, <2>12 DEF TypeOK
<1> QED BY ShardsKeepTests, <1>1, PTL

-----------------------------------------------------------------------------
(* The greedy split is even *)

\* The loads of the units do not change when a split goes on.
LEMMA LoadsStay ==
  ASSUME dur' = dur
  PROVE  \A S : Load(S)' = Load(S)
BY LoadIsSum

EvenInv == IndInv /\ LongestFirst /\ LightestFirst

Greedily == strategy \in {"duration", "file"} /\ phase = "split" /\ Len(plan) < Cardinality(Test)

LEMMA PlaceStaysEven ==
  ASSUME EvenInv, NEW s \in Shard, NEW U \in left, PlaceUnit(U, s), Greedily
  PROVE  LongestFirst' /\ LightestFirst'
<1> USE PlanIsAList DEF EvenInv, IndInv
<1>1. /\ left' = left \ {U} /\ strategy' = strategy /\ dur' = dur /\ phase' = phase
      /\ plan' = [plan EXCEPT ![s] = @ \cup U]
      /\ Longest(U) /\ Lightest(s)
  BY DEF PlaceUnit, Greedy, InTurn, ByHash, Greedily
<1>2. /\ Shard' = Shard /\ Units' = Units
      /\ \A r \in Shard : plan'[r] = IF r = s THEN plan[s] \cup U ELSE plan[r]
  BY <1>1 DEF Shard, Units
<1>3. \A S : Load(S)' = Load(S)
  BY <1>1, LoadsStay
<1>4. dur \in [Test -> Duration] /\ left \subseteq Units
  BY DEF TypeOK, ShardInv
<1>5. \A V \in Units : V \in SUBSET Test /\ V # {} /\ Load(V) \in Nat
  BY <1>4, UnitsPartition, Loads
<1>6. \A V \in left, W \in Units \ left : Load(V) <= Load(W)
  BY DEF LongestFirst, Greedily
<1>7. \A V \in left', W \in Units \ left' : Load(V) <= Load(W)
  <2>1. \A V \in left : Load(V) <= Load(U)
    BY <1>1 DEF Longest
  <2> QED BY <1>1, <1>6, <2>1
<1>8. LongestFirst'
  BY <1>2, <1>3, <1>7 DEF LongestFirst
<1>9. \A r \in Shard : /\ plan[r] \in SUBSET Test /\ Weight(r) \in Nat
                       /\ \A V \in left : plan[r] \cap V = {}
  <2> SUFFICES ASSUME NEW r \in Shard
               PROVE  /\ plan[r] \in SUBSET Test /\ Weight(r) \in Nat
                      /\ \A V \in left : plan[r] \cap V = {}
    OBVIOUS
  <2>1. plan[r] \in SUBSET Test
    OBVIOUS
  <2>2. UNION {plan[q] : q \in Shard} = Placed
    BY DEF ShardInv
  <2>3. plan[r] \subseteq Placed
    BY <2>2
  <2> QED BY <1>4, <2>1, <2>3, Loads DEF Weight, Placed
<1>10. \A r \in Shard : Weight(r)' = IF r = s THEN Weight(s) + Load(U) ELSE Weight(r)
  <2> SUFFICES ASSUME NEW r \in Shard
               PROVE  Weight(r)' = IF r = s THEN Weight(s) + Load(U) ELSE Weight(r)
    OBVIOUS
  <2>1. Weight(r)' = SumOf(dur', plan'[r]) /\ SumOf(dur', plan'[r]) = Load(plan'[r])
    BY <1>1, LoadIsSum DEF Weight
  <2> QED BY <1>2, <1>4, <1>5, <1>9, <2>1, Loads DEF Weight
<1>11. ASSUME NEW p \in Shard, NEW q \in Shard, NEW V \in Units, V \subseteq plan'[p]
       PROVE  Weight(p)' - Load(V) <= Weight(q)'
  <2>1. /\ Weight(p) \in Nat /\ Weight(q) \in Nat /\ Weight(s) \in Nat
        /\ Load(U) \in Nat /\ Load(V) \in Nat /\ U \in Units
    BY <1>4, <1>5, <1>9
  <2>2. /\ Weight(p)' = IF p = s THEN Weight(s) + Load(U) ELSE Weight(p)
        /\ Weight(q)' = IF q = s THEN Weight(s) + Load(U) ELSE Weight(q)
    BY <1>10
  <2>3. Weight(s) <= Weight(q)
    BY <1>1 DEF Lightest
  <2>4. CASE p # s
    <3>1. Weight(p) - Load(V) <= Weight(q)
      BY <1>2, <2>4, <1>11 DEF LightestFirst, Greedily
    <3> QED BY <2>1, <2>2, <2>4, <3>1
  <2>5. CASE p = s /\ V = U
    BY <2>1, <2>2, <2>3, <2>5
  <2>6. CASE p = s /\ V # U
    <3>1. V \subseteq plan[s] \cup U /\ V # {}
      BY <1>2, <1>5, <1>11, <2>6
    <3>2. V \cap U = {}
      BY <2>1, <2>6, UnitsPartition
    <3>3. V \notin left
      BY <1>9, <3>1, <3>2
    <3>4. Load(U) <= Load(V)
      BY <1>6, <3>3
    <3> QED BY <2>1, <2>2, <2>3, <2>6, <3>4
  <2> QED BY <2>4, <2>5, <2>6
<1>12. LightestFirst'
  BY <1>2, <1>3, <1>11 DEF LightestFirst
<1> QED BY <1>8, <1>12

\* A greedy split fills the shards evenly: one is ahead of another by no more
\* than the shortest unit it was given.
THEOREM GreedySplitIsEven == Spec => []LightestFirst
<1>1. Init => LongestFirst /\ LightestFirst
  <2> SUFFICES ASSUME Init PROVE LongestFirst /\ LightestFirst
    OBVIOUS
  <2>1. left = Units /\ \A s \in Shard : plan[s] = {}
    BY DEF Init, Shard
  <2> QED BY <2>1, UnitsPartition DEF LongestFirst, LightestFirst
<1>2. TypeOK /\ ShardInv /\ LongestFirst /\ LightestFirst /\ [Next]_vars
        => LongestFirst' /\ LightestFirst'
  <2> SUFFICES ASSUME EvenInv, [Next]_vars PROVE LongestFirst' /\ LightestFirst'
    BY DEF EvenInv, IndInv
  <2>1. ASSUME NEW s \in Shard, NEW U \in left, PlaceUnit(U, s)
        PROVE  LongestFirst' /\ LightestFirst'
    <3>1. CASE Greedily
      BY <2>1, <3>1, PlaceStaysEven
    <3>2. CASE ~Greedily
      <4>1. strategy' = strategy /\ phase' = phase /\ Len(plan') = Len(plan)
        <5>1. plan \in Seq(SUBSET Test) /\ plan' = [plan EXCEPT ![s] = @ \cup U]
          BY <2>1 DEF PlaceUnit, EvenInv, IndInv, TypeOK
        <5> QED BY <2>1, <5>1 DEF PlaceUnit
      <4>2. ~Greedily'
        BY <3>2, <4>1 DEF Greedily
      <4> QED BY <4>2 DEF Greedily, LongestFirst, LightestFirst
    <3> QED BY <3>1, <3>2
  <2>2. CASE OneEach(SetToSeq(Test))
    <3> DEFINE n == Cardinality(Test)
               order == SetToSeq(Test)
    <3>1. n \in Nat /\ order \in [1..n -> Test]
      BY ListOfTests
    <3>2. plan' = [i \in DOMAIN order |-> {order[i]}]
      BY <2>2 DEF OneEach
    <3> HIDE DEF order, n
    <3>3. Len(plan') = n
      BY <3>1, <3>2
    <3>4. ~(Len(plan') < n)
      BY <3>1, <3>3
    <3> QED BY <3>4 DEF LongestFirst, LightestFirst, n
  <2>3. ASSUME NEW s \in Shard,
               \/ \E r \in Shard : Rebalance(s, r)
               \/ Take(s) \/ Raise(s) \/ Collect(s) \/ CollectionFails(s)
               \/ \E t \in Test : StartTest(s, t)
               \/ \E bad \in BOOLEAN : EndTest(s, bad)
        PROVE  phase' # "split"
    BY <2>3 DEF Rebalance, Take, Raise, Collect, CollectionFails, StartTest, EndTest
  <2>4. ASSUME Optimize \/ Execute \/ SumUp PROVE phase' # "split"
    BY <2>4 DEF Optimize, Execute, SumUp
  <2>5. phase' # "split" => LongestFirst' /\ LightestFirst'
    BY DEF LongestFirst, LightestFirst
  <2>6. CASE UNCHANGED vars
    <3>1. /\ UNCHANGED <<strategy, dur, plan, left, phase>>
          /\ Shard' = Shard /\ Units' = Units /\ \A S : Load(S)' = Load(S)
      BY <2>6, LoadsStay DEF vars, splitVars, Shard, Units
    <3>2. \A s \in Shard : Weight(s)' = Weight(s)
      <4>1. ASSUME NEW s \in Shard PROVE Weight(s)' = Weight(s)
        <5>1. Weight(s)' = SumOf(dur', plan'[s])
          BY LoadIsSum DEF Weight
        <5> QED BY <3>1, <5>1, LoadIsSum DEF Weight
      <4> QED BY <4>1
    <3> QED BY <3>1, <3>2 DEF EvenInv, LongestFirst, LightestFirst
  <2> QED BY <2>1, <2>2, <2>3, <2>4, <2>5, <2>6 DEF Next
<1> QED BY ShardsKeepTests, <1>1, <1>2, PTL DEF Spec
=============================================================================
