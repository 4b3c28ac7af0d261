------------------------------ MODULE Sharding ------------------------------
(***************************************************************************)
(* A parallel run of tests: the tests are split into shards                *)
(* (test_sharding.py, TestSharding), the shards may be rebalanced, worker  *)
(* threads run one shard each (parallel_executor.py, ParallelExecutor) and *)
(* the command sums the results up (parallel_commands.py, run).            *)
(*                                                                         *)
(* The order of the tests in a list is left out: a tie may go either way.  *)
(***************************************************************************)
EXTENDS Integers, SequencesExt

CONSTANTS
  Test,
  FileOf,      \* [Test -> file]
  Selects,     \* [Test -> SUBSET Test]: what pytest -k runs for the test's name
  Duration,    \* what a test may be estimated to take
  MaxShards,   \* bound on the shards asked for
  MaxWorkers,  \* of the thread pool
  Cap          \* max_iterations of the rebalancing

ASSUME NamesSelect == \A t \in Test : t \in Selects[t]
ASSUME FiniteTests == IsFiniteSet(Test)
ASSUME NumbersArePositive ==
  {MaxShards, MaxWorkers} \subseteq Nat \ {0} /\ Cap \in Nat /\ Duration \subseteq Nat

Strategy == {"round_robin", "file", "duration", "hash"}

VARIABLES
  strategy,  \* how the tests are split
  dur,       \* estimated_duration, history applied
  plan,      \* the shards: 1..n -> tests
  left,      \* units not placed yet: single tests, or all tests of a file
  phase,     \* what the run is at
  moves,     \* iterations of the rebalancing
  taken,     \* shards a worker has taken
  todo,      \* per shard, tests not run yet
  doing,     \* per shard, the test its pytest process is for, if it runs one
  dead,      \* shards that raised
  failed,    \* tests with a result FAILED or ERROR
  rows       \* per shard, the tests of each result it has in the list

splitVars == <<strategy, dur, plan, left, moves>>
runVars == <<taken, todo, doing, dead, failed, rows>>
vars == <<splitVars, phase, runVars>>

Shard == DOMAIN plan
Load(S) == MapThenSumSet(LAMBDA t : dur[t], S)
Weight(s) == Load(plan[s])
Total == Load(Test)
Placed == Test \ UNION left

Units == IF strategy = "file" THEN {{t \in Test : FileOf[t] = FileOf[u]} : u \in Test}
         ELSE {{t} : t \in Test}

TypeOK ==
  /\ strategy \in Strategy /\ dur \in [Test -> Duration]
  /\ plan \in Seq(SUBSET Test) /\ left \subseteq SUBSET Test
  /\ phase \in {"split", "balance", "run", "summed", "lost"}
  /\ moves \in 0..Cap
  /\ taken \subseteq Shard /\ dead \subseteq Shard
  /\ todo \in [Shard -> SUBSET Test]
  /\ doing \in [Shard -> {{}} \cup {{t} : t \in Test}]
  /\ failed \subseteq Test
  /\ rows \in [Shard -> Seq(SUBSET Test)]

Init ==
  /\ strategy \in Strategy
  /\ dur \in [Test -> Duration]
  /\ \E n \in 1..MaxShards : plan = [s \in 1..n |-> {}]
  /\ left = Units
  /\ phase = "split"
  /\ moves = 0
  /\ taken = {} /\ dead = {} /\ failed = {}
  /\ todo = [s \in Shard |-> {}] /\ doing = [s \in Shard |-> {}]
  /\ rows = [s \in Shard |-> <<>>]

-----------------------------------------------------------------------------
(* create_shards *)

\* Mutant: the tests are not sorted before they are dealt out.
AnyUnit(U) == U \in left

Longest(U) == \A V \in left : Load(V) <= Load(U)
Lightest(s) == \A r \in Shard : Weight(s) <= Weight(r)
Heaviest(s) == \A r \in Shard : Weight(r) <= Weight(s)

\* _shard_by_duration and _shard_by_file, _shard_round_robin, _shard_by_hash.
Greedy(U, s) == strategy \in {"duration", "file"} /\ Longest(U) /\ Lightest(s)
InTurn(s) == strategy = "round_robin" /\ s = 1 + (Cardinality(Placed) % Len(plan))
ByHash == strategy = "hash"

PlaceUnit(U, s) ==
  /\ phase = "split" /\ Len(plan) < Cardinality(Test)
  /\ Greedy(U, s) \/ InTurn(s) \/ ByHash
  /\ plan' = [plan EXCEPT ![s] = @ \cup U]
  /\ left' = left \ {U}
  /\ UNCHANGED <<strategy, dur, phase, moves, runVars>>

\* No more tests than shards: a shard per test, whatever the strategy.
OneEach(order) ==
  /\ phase = "split" /\ Len(plan) >= Cardinality(Test) /\ left # {}
  /\ plan' = [i \in DOMAIN order |-> {order[i]}]
  /\ left' = {}
  /\ todo' = [i \in DOMAIN order |-> {}]
  /\ doing' = [i \in DOMAIN order |-> {}]
  /\ rows' = [i \in DOMAIN order |-> <<>>]
  /\ UNCHANGED <<strategy, dur, phase, moves, taken, dead, failed>>

-----------------------------------------------------------------------------
(* optimize_shards, which a caller may run: 0.2 is one fifth *)

Imbalanced(s, r) == 5 * Len(plan) * (Weight(s) - Weight(r)) > Total

Shortest(t, s) == t \in plan[s] /\ \A u \in plan[s] : dur[t] <= dur[u]

\* Mutant: the test stays in the shard it is taken from.
CopyOver(t, s, r) == [plan EXCEPT ![r] = @ \cup {t}]

Move(t, s, r) == [plan EXCEPT ![s] = @ \ {t}, ![r] = @ \cup {t}]

Optimize ==
  /\ phase = "split" /\ left = {}
  /\ phase' = "balance"
  /\ UNCHANGED <<splitVars, runVars>>

Rebalance(s, r) ==
  /\ phase = "balance" /\ moves < Cap
  /\ Heaviest(s) /\ Lightest(r) /\ Imbalanced(s, r)
  /\ \E t \in plan[s] : Shortest(t, s) /\ plan' = Move(t, s, r)
  /\ moves' = moves + 1
  /\ UNCHANGED <<strategy, dur, left, phase, runVars>>

Balanced == \A s, r \in Shard : Heaviest(s) /\ Lightest(r) => ~Imbalanced(s, r)

\* execute_shards submits every shard.
Execute ==
  /\ \/ phase = "split" /\ left = {}
     \/ phase = "balance" /\ (moves = Cap \/ Balanced)
  /\ phase' = "run"
  /\ todo' = plan
  /\ UNCHANGED <<splitVars, taken, doing, dead, failed, rows>>

-----------------------------------------------------------------------------
(* _execute_shard, in a worker thread *)

Over(s) == s \in dead \/ (s \in taken /\ todo[s] = {} /\ doing[s] = {})
Running == {s \in taken : ~Over(s)}

Take(s) ==
  /\ phase = "run" /\ s \notin taken
  /\ Cardinality(Running) < MaxWorkers
  /\ \A r \in Shard : r < s => r \in taken
  /\ taken' = taken \cup {s}
  /\ UNCHANGED <<splitVars, phase, todo, doing, dead, failed, rows>>

\* _execute_test starts a pytest process, that ends or times out with a result.
StartTest(s, t) ==
  /\ phase = "run" /\ s \in Running /\ doing[s] = {} /\ t \in todo[s]
  /\ todo' = [todo EXCEPT ![s] = @ \ {t}]
  /\ doing' = [doing EXCEPT ![s] = {t}]
  /\ UNCHANGED <<splitVars, phase, taken, dead, failed, rows>>

EndTest(s, bad) ==
  /\ phase = "run" /\ doing[s] # {}
  /\ doing' = [doing EXCEPT ![s] = {}]
  /\ failed' = IF bad THEN failed \cup doing[s] ELSE failed
  /\ UNCHANGED <<splitVars, phase, taken, todo, dead, rows>>

\* Whatever _execute_test does not catch.
Raise(s) ==
  /\ phase = "run" /\ s \in Running /\ doing[s] = {}
  /\ dead' = dead \cup {s}
  /\ UNCHANGED <<splitVars, phase, taken, todo, doing, failed, rows>>

-----------------------------------------------------------------------------
(* execute_shards collects the futures, and the command sums up *)

Outcome(s) == IF s \in dead THEN {} ELSE plan[s]

\* The progress callback is called inside the try: one that raises has the
\* shard reported again, without tests.
Collect(s) ==
  /\ phase = "run" /\ Over(s) /\ rows[s] = <<>>
  /\ \/ rows' = [rows EXCEPT ![s] = <<Outcome(s)>>]
     \/ s \notin dead /\ rows' = [rows EXCEPT ![s] = <<Outcome(s), {}>>]
  /\ UNCHANGED <<splitVars, phase, taken, todo, doing, dead, failed>>

\* Nothing catches a callback that raises in the handler.
CollectionFails(s) ==
  /\ phase = "run" /\ Over(s) /\ rows[s] = <<>>
  /\ phase' = "lost"
  /\ UNCHANGED <<splitVars, runVars>>

SumUp ==
  /\ phase = "run" /\ \A s \in Shard : rows[s] # <<>>
  /\ phase' = "summed"
  /\ UNCHANGED <<splitVars, runVars>>

Results == FlattenSeq(rows)
Reported == UNION Range(Results)

\* aggregate_results: total_tests, and the exit code of the command.
TotalTests == FoldSeq(LAMBDA tests, n : n + Cardinality(tests), 0, Results)
ExitsZero == Reported \cap failed = {}

Next ==
  \/ \E s \in Shard :
       \/ \E U \in left : PlaceUnit(U, s)
       \/ \E r \in Shard : Rebalance(s, r)
       \/ Take(s) \/ Raise(s) \/ Collect(s) \/ CollectionFails(s)
       \/ \E t \in Test : StartTest(s, t)
       \/ \E bad \in BOOLEAN : EndTest(s, bad)
  \/ OneEach(SetToSeq(Test)) \/ Optimize \/ Execute \/ SumUp

Spec == Init /\ [][Next]_vars
-----------------------------------------------------------------------------
(* Properties *)

\* Splitting and rebalancing put every test into one shard, and every test is
\* reported by one row, but those of a shard that raised, which no row has
\* (parallel_executor.py:106).
TestsAccounted ==
  /\ UNION {plan[s] : s \in Shard} = Placed
  /\ \A s, r \in Shard : s # r => plan[s] \cap plan[r] = {}
  /\ phase = "summed" =>
       /\ TotalTests = Cardinality(Reported)
       /\ Reported = Test \ UNION {plan[s] : s \in dead}
       /\ failed \subseteq Reported \cup UNION {plan[s] : s \in dead}

\* A greedy split leaves a shard ahead of another by no more than the
\* shortest unit it was given (test_sharding.py:122, 144).
LightestFirst ==
  strategy \in {"duration", "file"} /\ phase = "split" /\ Len(plan) < Cardinality(Test) =>
    \A s, r \in Shard :
      \A U \in Units : U \subseteq plan[s] => Weight(s) - Load(U) <= Weight(r)

\* The exit code speaks for every test: the command's exit code is one only
\* for a failed result it got (parallel_commands.py:118).
GreenMeansPassed == phase = "summed" /\ ExitsZero => Reported = Test

\* Two workers never have pytest run the same test (parallel_executor.py:141,
\* where -k takes every test whose name contains this one's).
RunsApart ==
  \A s, r \in Shard : \A t \in doing[s], u \in doing[r] :
    s # r => Selects[t] \cap Selects[u] = {}

\* The tests of a file go to one shard (test_sharding.py:113).
FilesTogether ==
  strategy = "file" /\ left = {} =>
    \A t, u \in Test : FileOf[t] = FileOf[u] =>
      \E s \in Shard : {t, u} \subseteq plan[s]

\* Rebalancing does not leave one shard with everything (test_sharding.py:170).
StaysSpread ==
  phase = "run" /\ moves > 0 => \A s \in Shard : plan[s] # Test

-----------------------------------------------------------------------------
(* What makes them inductive: the argument of the proofs *)

\* Before anything runs there is nothing to show.
NothingRan ==
  /\ taken = {} /\ dead = {} /\ failed = {}
  /\ \A s \in Shard : todo[s] = {} /\ doing[s] = {} /\ rows[s] = <<>>

\* A test is in one shard, or in a unit that is still to be placed; a worker
\* has the tests of its shard; a row comes from a shard that is over, once,
\* and after it perhaps the empty one of the raising callback.
ShardInv ==
  /\ plan # <<>> /\ left \subseteq Units
  /\ UNION {plan[s] : s \in Shard} = Placed
  /\ \A s, r \in Shard : s # r => plan[s] \cap plan[r] = {}
  /\ phase \in {"split", "balance"} => NothingRan
  /\ phase # "split" => left = {}
  /\ \A s \in Shard :
       rows[s] # <<>> => /\ Over(s)
                         /\ rows[s] \in {<<Outcome(s)>>, <<Outcome(s), {}>>}
  /\ phase = "summed" => \A s \in Shard : rows[s] # <<>>

\* A greedy split has placed the longest units first.
LongestFirst ==
  strategy \in {"duration", "file"} /\ phase = "split" /\ Len(plan) < Cardinality(Test) =>
    \A U \in left, V \in Units \ left : Load(U) <= Load(V)
=============================================================================
