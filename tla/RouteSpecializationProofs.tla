---------------------- MODULE RouteSpecializationProofs ----------------------
(***************************************************************************)
(* The generated chain picks the route choose_route picks, for every table *)
(* of increasing thresholds, every order of the arms and every work; and   *)
(* what a lusearch route computes is the same interpreted and generated,   *)
(* for words of every width and every constant of the benchmark.           *)
(***************************************************************************)
EXTENDS RouteSpecialization, RouteBlocks, WellFoundedInduction, TLAPS

\* The invariant of choose_route's loop: every threshold before its position
\* was passed by the ticket, and the returned route's was not.
ChoiceInv ==
    /\ choice = 0 => chosen = 0
    /\ chosen > 0 => chosen = choice
    /\ choice > 0 => phase \in {"profile", "run"} /\ index < Requests
    /\ phase = "profile" => profiles < MaxProfiles
    /\ \A j \in Routes : j < choice => GenericTable[bench][j] <= Ticket(gstate)
    /\ chosen > 0 => Ticket(gstate) < GenericTable[bench][chosen]

\* The invariant of the chain: it has an arm for every route, starts from the
\* generic loop's state, and every arm before its position was false.
ChainInv ==
    /\ phase = "run" => sstate = gstate /\ bench = artifact
    /\ phase \in {"ready", "run"} => \A r \in Routes : \E k \in Routes : order[k] = r
    /\ arm > 0 => phase = "run" /\ chosen > 0
    /\ \A k \in Routes : k < arm => ~RouteExpression(order[k], Ticket(sstate))

LoopInv == TypeOK /\ ChoiceInv /\ ChainInv

\* The route choose_route returns is the only one whose rendered condition the
\* ticket satisfies: conditions of different routes are disjoint intervals.
LEMMA RouteExpressionUnique ==
    ASSUME NEW c \in Routes, NEW r \in Routes, NEW t \in 0..(Percent - 1),
           artifact \in Benchmarks,
           \A j \in Routes : j < c => GenericTable[artifact][j] <= t,
           t < GenericTable[artifact][c]
    PROVE  RouteExpression(r, t) <=> r = c
<1> DEFINE T == GenericTable[artifact]
<1>1. /\ T \in [Routes -> 1..Percent] /\ SpecTable[artifact] = T
      /\ \A i, j \in Routes : i < j => T[i] < T[j]
      /\ N \in Nat /\ Percent \in Nat
  BY TablesAssumption, SizesAssumption DEF Tables
<1>2. ASSUME r = c PROVE RouteExpression(r, t)
  <2>1. CASE c = 1
    BY <1>1, <1>2, <2>1 DEF RouteExpression, PreviousThreshold, Routes
  <2>2. CASE c # 1
    <3>1. c - 1 \in Routes /\ c - 1 < c
      BY <1>1, <2>2 DEF Routes
    <3>2. PreviousThreshold(r) = T[c - 1]
      BY <1>1, <1>2, <2>2 DEF PreviousThreshold
    <3> QED BY <1>1, <1>2, <3>1, <3>2 DEF RouteExpression
  <2> QED BY <2>1, <2>2
<1>3. ASSUME r < c PROVE ~RouteExpression(r, t)
  <2>1. T[r] <= t /\ T[r] \in Nat /\ t \in Nat
    BY <1>1, <1>3
  <2> QED BY <1>1, <2>1 DEF RouteExpression
<1>4. ASSUME r > c PROVE ~RouteExpression(r, t)
  <2>1. r - 1 \in Routes /\ c <= r - 1 /\ r # 1
    BY <1>1, <1>4 DEF Routes
  <2>2. PreviousThreshold(r) = T[r - 1]
    BY <1>1, <2>1 DEF PreviousThreshold
  <2>3. T[c] <= T[r - 1] /\ T[c] \in 1..Percent /\ T[r - 1] \in 1..Percent
    <3>1. CASE c = r - 1 BY <1>1, <2>1, <3>1
    <3>2. CASE c < r - 1 BY <1>1, <2>1, <3>2
    <3> QED BY <2>1, <3>1, <3>2 DEF Routes
  <2>4. t \in Nat /\ t < T[r - 1]
    BY <1>1, <2>3
  <2> QED BY <1>1, <2>2, <2>3, <2>4 DEF RouteExpression
<1> QED BY <1>1, <1>2, <1>3, <1>4 DEF Routes

\* Every step keeps the variables in their sets.
LEMMA TypeStep == TypeOK /\ ChoiceInv /\ ChainInv /\ [Next]_vars => TypeOK'
<1> SUFFICES ASSUME TypeOK, ChoiceInv, ChainInv, [Next]_vars PROVE TypeOK'
  OBVIOUS
<1> USE DEF TypeOK
<1>0. N \in Nat /\ N >= 1 /\ Requests \in Nat /\ MaxProfiles \in Nat
      /\ ProfileSeeds \subseteq States
  BY SizesAssumption
<1>a. /\ index < Requests => index + 1 \in Indices
      /\ 0 \in Indices
      /\ \A i \in 0..N : i > 0 => i \in Routes
      /\ \A i \in Routes : i \in 1..N
  BY <1>0, SMTT(60) DEF Indices, Routes
<1>1. CASE StartRequest  BY <1>0, <1>a, <1>1 DEF StartRequest, files
<1>2. CASE TryRoute  BY <1>0, <1>a, <1>2 DEF TryRoute, files
<1>3. ASSUME NEW b \in Benchmarks, NEW s \in ProfileSeeds, StartProfile(b, s)
      PROVE  TypeOK'
  BY <1>0, <1>a, <1>3 DEF StartProfile, files
<1>4. ASSUME NEW b \in Benchmarks, NEW s \in States, StartRun(b, s)
      PROVE  TypeOK'
  BY <1>0, <1>a, <1>4 DEF StartRun, files
<1>5. CASE CountRequest
  <2>1. chosen \in Routes /\ index < Requests
    BY <1>0, <1>a, <1>5 DEF CountRequest, ChoiceInv
  <2>2. Block(bench, chosen, index, gstate) \in States
    BY <1>a, <2>1, WorkAssumption
  <2> QED BY <1>0, <1>a, <1>5, <2>1, <2>2 DEF CountRequest
<1>6. CASE WriteProfile
  <2>1. profiles + 1 \in 0..MaxProfiles
    BY <1>0, <1>a, <1>6 DEF WriteProfile, ChoiceInv
  <2> QED BY <1>0, <1>a, <1>6, <2>1 DEF WriteProfile, loop
<1>7. CASE GenerateArtifact
  BY <1>0, <1>a, <1>7 DEF GenerateArtifact, HotOrders, loop
<1>8. CASE RefuseProfiles  BY <1>0, <1>a, <1>8 DEF RefuseProfiles, files, loop
<1>9. CASE EnterChain  BY <1>0, <1>a, <1>9 DEF EnterChain, files
<1>10. CASE NextArm  BY <1>0, <1>a, <1>10 DEF NextArm, files
<1>11. CASE TakeArm
  <2>1. chosen \in Routes /\ index < Requests /\ order[arm] \in Routes
    BY <1>0, <1>a, <1>11 DEF TakeArm, ChoiceInv, ChainInv
  <2>2. Block(bench, chosen, index, gstate) \in States
    BY <1>a, <2>1, WorkAssumption
  <2>3. Block(artifact, order[arm], index, sstate) \in States
    BY <1>a, <2>1, WorkAssumption
  <2> QED BY <1>0, <1>a, <1>11, <2>1, <2>2, <2>3 DEF TakeArm, files
<1>12. CASE FinishRun  BY <1>0, <1>a, <1>12 DEF FinishRun, files, loop
<1>13. CASE UNCHANGED vars  BY <1>0, <1>a, <1>13 DEF vars, files, loop
<1> QED BY <1>1, <1>2, <1>3, <1>4, <1>5, <1>6, <1>7, <1>8, <1>9, <1>10,
           <1>11, <1>12, <1>13 DEF Next

\* choose_route's loop keeps its invariant.
LEMMA ChoiceStep == LoopInv /\ [Next]_vars => ChoiceInv'
<1> SUFFICES ASSUME TypeOK, ChoiceInv, ChainInv, [Next]_vars PROVE ChoiceInv'
  BY DEF LoopInv
<1> USE DEF ChoiceInv
<1>0. /\ N \in Nat /\ N >= 1 /\ Requests \in Nat /\ MaxProfiles \in Nat
      /\ ProfileSeeds \subseteq States
      /\ bench \in Benchmarks /\ gstate \in States /\ index \in Nat
      /\ choice \in 0..N /\ chosen \in 0..N /\ arm \in 0..(N + 1)
      /\ \A j \in Routes : j \in Nat /\ 1 <= j
  BY SizesAssumption DEF TypeOK, Indices, Routes
<1>1. CASE StartRequest
  BY <1>0, <1>1 DEF StartRequest, files, Ticket
<1>2. CASE TryRoute
  <2>1. /\ choice \in Routes /\ index \in Indices
        /\ index' = index /\ gstate' = gstate /\ bench' = bench
        /\ phase' = phase /\ profiles' = profiles
    BY <1>0, <1>2 DEF TryRoute, Routes, TypeOK, files
  <2>2. Ticket(gstate)' = Ticket(gstate)
    BY <2>1 DEF Ticket
  <2>3. /\ Ticket(gstate) \in 0..(Percent - 1) /\ Percent \in Nat
        /\ GenericTable[bench] \in [Routes -> 1..Percent]
        /\ GenericTable[bench][N] = Percent
    BY <1>0, <2>1, WorkAssumption, TablesAssumption, SizesAssumption DEF Ticket, Tables
  <2>4. CASE Ticket(gstate) < GenericTable[bench][choice] \/ choice = N
    <3>1. Ticket(gstate) < GenericTable[bench][choice]
      BY <2>3, <2>4
    <3> QED BY <1>0, <1>2, <2>1, <2>2, <2>4, <3>1 DEF TryRoute
  <2>5. CASE ~(Ticket(gstate) < GenericTable[bench][choice] \/ choice = N)
    <3>1. choice' = choice + 1 /\ chosen' = 0
      BY <1>2, <2>5 DEF TryRoute
    <3>2. \A j \in Routes : j < choice + 1 => j < choice \/ j = choice
      BY <1>0
    <3>3. GenericTable[bench][choice] <= Ticket(gstate)
      BY <2>1, <2>3, <2>5
    <3> QED BY <1>0, <1>2, <2>1, <2>2, <3>1, <3>2, <3>3 DEF TryRoute
  <2> QED BY <2>4, <2>5
<1>3. ASSUME NEW b \in Benchmarks, NEW s \in ProfileSeeds, StartProfile(b, s)
      PROVE  ChoiceInv'
  BY <1>0, <1>3 DEF StartProfile, files
<1>4. ASSUME NEW b \in Benchmarks, NEW s \in States, StartRun(b, s)
      PROVE  ChoiceInv'
  BY <1>0, <1>4 DEF StartRun, files
<1>5. CASE CountRequest
  BY <1>0, <1>5 DEF CountRequest, ChainInv
<1>6. CASE WriteProfile
  BY <1>0, <1>6 DEF WriteProfile, loop
<1>7. CASE GenerateArtifact
  BY <1>0, <1>7 DEF GenerateArtifact, loop
<1>8. CASE RefuseProfiles
  BY <1>0, <1>8 DEF RefuseProfiles, files, loop
<1>9. CASE EnterChain
  BY <1>0, <1>9 DEF EnterChain, files, Ticket
<1>10. CASE NextArm
  BY <1>0, <1>10 DEF NextArm, files, Ticket
<1>11. CASE TakeArm
  BY <1>0, <1>11 DEF TakeArm, files, ChainInv, Routes
<1>12. CASE FinishRun
  BY <1>0, <1>12 DEF FinishRun, files, loop
<1>13. CASE UNCHANGED vars
  BY <1>13 DEF vars, files, loop, Ticket
<1> QED BY <1>1, <1>2, <1>3, <1>4, <1>5, <1>6, <1>7, <1>8, <1>9, <1>10,
           <1>11, <1>12, <1>13 DEF Next

\* The chain has the generic loop's ticket and one of its arms is the chosen
\* route's: an arm is taken only with the route choose_route returned.
LEMMA ArmTaken == LoopInv /\ TakeArm => order[arm] = chosen
<1> SUFFICES ASSUME LoopInv, TakeArm PROVE order[arm] = chosen
  OBVIOUS
<1>1. /\ arm \in Routes /\ chosen \in Routes /\ order[arm] \in Routes
      /\ artifact \in Benchmarks /\ sstate = gstate /\ bench = artifact
      /\ gstate \in States /\ index \in Indices
  BY SizesAssumption DEF LoopInv, TypeOK, ChainInv, TakeArm, Routes
<1>2. Ticket(gstate) \in 0..(Percent - 1)
  BY <1>1, WorkAssumption DEF Ticket
<1>3. /\ \A j \in Routes : j < chosen => GenericTable[artifact][j] <= Ticket(gstate)
      /\ Ticket(gstate) < GenericTable[artifact][chosen]
  BY <1>1 DEF LoopInv, ChoiceInv, Routes
<1> QED BY <1>1, <1>2, <1>3, RouteExpressionUnique DEF TakeArm

\* The chain keeps its invariant.
LEMMA ChainStep == LoopInv /\ [Next]_vars => ChainInv'
<1> SUFFICES ASSUME LoopInv, [Next]_vars PROVE ChainInv'
  OBVIOUS
<1> USE DEF ChainInv
<1>0. /\ TypeOK /\ ChoiceInv /\ ChainInv
      /\ N \in Nat /\ N >= 1
      /\ choice \in 0..N /\ chosen \in 0..N /\ arm \in 0..(N + 1)
      /\ \A j \in Routes : j \in Nat /\ 1 <= j
  <2>1. TypeOK /\ ChoiceInv /\ ChainInv
    BY DEF LoopInv
  <2>2. N \in Nat /\ N >= 1
    BY SizesAssumption
  <2>3. \A j \in Routes : j \in Nat /\ 1 <= j
    BY <2>2 DEF Routes
  <2> QED BY <2>1, <2>2, <2>3 DEF TypeOK
<1>1. CASE StartRequest
  <2>1. arm = 0 /\ arm' = 0 /\ chosen' = chosen
    BY <1>0, <1>1 DEF StartRequest, ChoiceInv
  <2>2. UNCHANGED <<phase, bench, artifact, order, gstate, sstate>>
    BY <1>1 DEF StartRequest, files
  <2> QED BY <1>0, <2>1, <2>2
<1>2. CASE TryRoute
  <2>1. arm = 0 /\ arm' = 0
    BY <1>0, <1>2 DEF TryRoute
  <2>2. UNCHANGED <<phase, bench, artifact, order, gstate, sstate>>
    BY <1>2 DEF TryRoute, files
  <2> QED BY <1>0, <2>1, <2>2
<1>3. ASSUME NEW b \in Benchmarks, NEW s \in ProfileSeeds, StartProfile(b, s)
      PROVE  ChainInv'
  BY <1>0, <1>3 DEF StartProfile, files
<1>4. ASSUME NEW b \in Benchmarks, NEW s \in States, StartRun(b, s)
      PROVE  ChainInv'
  BY <1>0, <1>4 DEF StartRun, files
<1>5. CASE CountRequest
  BY <1>0, <1>5 DEF CountRequest
<1>6. CASE WriteProfile
  BY <1>0, <1>6 DEF WriteProfile, loop
<1>7. CASE GenerateArtifact
  BY <1>0, <1>7 DEF GenerateArtifact, HotOrders, loop
<1>8. CASE RefuseProfiles
  BY <1>0, <1>8 DEF RefuseProfiles, files, loop
<1>9. CASE EnterChain
  BY <1>0, <1>9 DEF EnterChain, files
<1>10. CASE NextArm
  <2>1. /\ arm' = arm + 1
        /\ \A k \in Routes : k < arm + 1 => k < arm \/ k = arm
    BY <1>0, <1>10 DEF NextArm
  <2>2. ~RouteExpression(order[arm], Ticket(sstate)) /\ arm \in Routes
    BY <1>10 DEF NextArm
  <2>3. \A k \in Routes :
           RouteExpression(order[k], Ticket(sstate))' <=>
           RouteExpression(order[k], Ticket(sstate))
    BY <1>10 DEF NextArm, files, RouteExpression, PreviousThreshold, Ticket
  <2>4. UNCHANGED <<phase, bench, artifact, order, gstate, sstate, chosen>>
    BY <1>10 DEF NextArm, files
  <2> QED BY <1>0, <2>1, <2>2, <2>3, <2>4
<1>11. CASE TakeArm
  <2>1. order[arm] = chosen
    BY <1>11, ArmTaken
  <2>2. phase = "run" /\ sstate = gstate /\ bench = artifact
    BY <1>0, <1>11 DEF TakeArm
  <2>3. UNCHANGED <<phase, bench, artifact, order>>
    BY <1>11 DEF TakeArm, files
  <2>4. sstate' = gstate' /\ arm' = 0
    BY <1>11, <2>1, <2>2 DEF TakeArm
  <2> QED BY <1>0, <2>2, <2>3, <2>4
<1>12. CASE FinishRun
  <2>1. arm = 0 /\ arm' = 0
    BY <1>0, <1>12 DEF FinishRun, loop, ChoiceInv
  <2>2. UNCHANGED <<bench, artifact, order, gstate, sstate, chosen>>
        /\ phase = "run" /\ phase' = "ready"
    BY <1>12 DEF FinishRun, files, loop
  <2> QED BY <1>0, <2>1, <2>2
<1>13. CASE UNCHANGED vars
  <2>1. \A k \in Routes :
           RouteExpression(order[k], Ticket(sstate))' <=>
           RouteExpression(order[k], Ticket(sstate))
    BY <1>13 DEF vars, loop, files, RouteExpression, PreviousThreshold, Ticket
  <2> QED BY <1>0, <1>13, <2>1 DEF vars, files, loop
<1> QED BY <1>1, <1>2, <1>3, <1>4, <1>5, <1>6, <1>7, <1>8, <1>9, <1>10,
           <1>11, <1>12, <1>13 DEF Next

\* The two loops' invariants hold initially and survive every step.
LEMMA LoopCorrect == Spec => []LoopInv
<1>1. Init => LoopInv
  <2> SUFFICES ASSUME Init PROVE LoopInv
    OBVIOUS
  <2>1. N \in Nat /\ N >= 1 /\ Requests \in Nat /\ MaxProfiles \in Nat
        /\ ProfileSeeds \subseteq States
        /\ \A j \in Routes : j \in Nat /\ 1 <= j
    BY SizesAssumption DEF Routes
  <2>2. TypeOK
    BY <2>1 DEF Init, TypeOK, Indices
  <2>3. ChoiceInv
    BY <2>1 DEF Init, ChoiceInv
  <2>4. ChainInv
    BY <2>1 DEF Init, ChainInv
  <2> QED BY <2>2, <2>3, <2>4 DEF LoopInv
<1>2. LoopInv /\ [Next]_vars => LoopInv'
  BY TypeStep, ChoiceStep, ChainStep DEF LoopInv
<1> QED BY <1>1, <1>2, PTL DEF Spec

\* The route loops never leave their types.
THEOREM TypeCorrect == Spec => []TypeOK
<1>1. LoopInv => TypeOK
  BY DEF LoopInv
<1> QED BY <1>1, LoopCorrect, PTL

\* A generated artifact computes the generic handler's checksum: for every
\* table with increasing thresholds, every profile, every seed and any work.
THEOREM SpecializationCorrect == Spec => []SameChecksum
<1>1. LoopInv => SameChecksum
  BY DEF LoopInv, ChainInv, SameChecksum
<1> QED BY <1>1, LoopCorrect, PTL

\* The AssertionError at the end of the generated chain is unreachable.
THEOREM ChainExhaustive == Spec => []NeverUnreachable
<1>1. LoopInv => NeverUnreachable
  <2> SUFFICES ASSUME LoopInv, arm = N + 1 PROVE FALSE
    BY DEF NeverUnreachable
  <2>1. /\ chosen \in Routes /\ gstate \in States /\ index \in Indices
        /\ phase = "run" /\ sstate = gstate /\ bench = artifact
        /\ artifact \in Benchmarks
        /\ N \in Nat
    BY SizesAssumption DEF LoopInv, TypeOK, ChainInv, Routes
  <2>2. PICK k \in Routes : order[k] = chosen
    BY <2>1 DEF LoopInv, ChainInv
  <2>3. ~RouteExpression(order[k], Ticket(sstate))
    BY <2>1 DEF LoopInv, ChainInv, Routes
  <2>4. Ticket(gstate) \in 0..(Percent - 1)
    BY <2>1, WorkAssumption DEF Ticket
  <2>5. /\ \A j \in Routes : j < chosen => GenericTable[artifact][j] <= Ticket(gstate)
        /\ Ticket(gstate) < GenericTable[artifact][chosen]
    BY <2>1 DEF LoopInv, ChoiceInv, Routes
  <2>6. RouteExpression(chosen, Ticket(gstate))
    BY <2>1, <2>4, <2>5, RouteExpressionUnique
  <2> QED BY <2>1, <2>2, <2>3, <2>6
<1> QED BY <1>1, LoopCorrect, PTL

------------------------------------------------------------------------------
(* Recursion on the natural numbers. *)


\* A set of naturals that is not empty has a least element.
LEMMA Minimum ==
    ASSUME NEW T, T \subseteq Nat, T # {}
    PROVE  \E n \in T : \A m \in T : n <= m
<1> DEFINE R == {pair \in Nat \X Nat : pair[1] < pair[2]}
<1>1. IsWellFoundedOn(R, Nat)
  BY NatLessThanWellFounded, Zenon DEF OpToRel
<1> HIDE DEF R
<1>2. PICK n \in T : \A m \in T : <<m, n>> \notin R
  BY <1>1, WFMin, Zenon
<1>3. ASSUME NEW m \in T PROVE n <= m
  <2>1. <<m, n>> \notin R
    BY <1>2, Zenon
  <2>2. m < n => <<m, n>> \in R
    BY DEF R
  <2> QED BY <2>1, <2>2
<1> QED BY <1>3

\* Induction over a set of naturals.
LEMMA Induction ==
    ASSUME NEW S, 0 \in S, \A n \in Nat : n \in S => n + 1 \in S
    PROVE  Nat \subseteq S
<1> DEFINE T == Nat \ S
<1> SUFFICES ASSUME T # {} PROVE FALSE
  OBVIOUS
<1>1. PICK n \in T : \A m \in T : n <= m
  BY Minimum
<1>2. n # 0 /\ n - 1 \in Nat /\ n - 1 \notin T
  BY <1>1
<1> QED BY <1>1, <1>2

\* A function that repeats a step.
Repeated(f, base, step) == f[0] = base /\ \A k \in Nat : f[k + 1] = step[f[k]]

\* There is one on the natural numbers, whatever the step.
LEMMA Recursion ==
    ASSUME NEW V, NEW base \in V, NEW step \in [V -> V]
    PROVE  \E f \in [Nat -> V] : Repeated(f, base, step)
<1> DEFINE
      Repeats(f, n) == /\ f \in [0..n -> V] /\ f[0] = base
                       /\ \A k \in 0..n : k # n => f[k + 1] = step[f[k]]
      S == {n \in Nat : \E f : Repeats(f, n)}
      Solution(n) == CHOOSE f : Repeats(f, n)
      F == [n \in Nat |-> Solution(n)[n]]
<1>1. 0 \in S
  <2>1. Repeats([k \in 0..0 |-> base], 0)
    OBVIOUS
  <2> QED BY <2>1
<1>2. ASSUME NEW n \in Nat, n \in S PROVE n + 1 \in S
  <2>1. PICK f : Repeats(f, n)
    BY <1>2
  <2> DEFINE g == [k \in 0..(n + 1) |-> IF k = n + 1 THEN step[f[n]] ELSE f[k]]
  <2>2. g \in [0..(n + 1) -> V] /\ g[0] = base
    <3>1. f[n] \in V /\ step[f[n]] \in V
      BY <2>1
    <3>2. \A k \in 0..(n + 1) : k # n + 1 => k \in 0..n
      OBVIOUS
    <3> QED BY <2>1, <3>1, <3>2
  <2>3. ASSUME NEW k \in 0..(n + 1), k # n + 1 PROVE g[k + 1] = step[g[k]]
    <3>1. CASE k = n
      BY <3>1
    <3>2. CASE k # n
      <4>1. k \in 0..n /\ k + 1 \in 0..(n + 1) /\ k + 1 # n + 1
        BY <2>3, <3>2
      <4>2. g[k + 1] = f[k + 1] /\ g[k] = f[k]
        BY <2>3, <4>1
      <4> QED BY <2>1, <3>2, <4>1, <4>2
    <3> QED BY <3>1, <3>2
  <2>4. Repeats(g, n + 1)
    BY <2>2, <2>3
  <2> HIDE DEF g
  <2> QED BY <2>4
<1>3. ASSUME NEW n \in Nat PROVE Repeats(Solution(n), n)
  <2>1. n \in S
    <3> HIDE DEF S
    <3> QED BY <1>1, <1>2, Induction
  <2> QED BY <2>1
<1> HIDE DEF S, Solution
<1>4. ASSUME NEW n \in Nat, NEW f, NEW g, Repeats(f, n), Repeats(g, n + 1)
      PROVE  f[n] = g[n]
  <2> DEFINE A == {k \in Nat : k <= n => f[k] = g[k]}
  <2>1. 0 \in A
    BY <1>4
  <2>2. ASSUME NEW k \in Nat, k \in A PROVE k + 1 \in A
    <3> SUFFICES ASSUME k + 1 <= n PROVE f[k + 1] = g[k + 1]
      OBVIOUS
    <3>1. k \in 0..n /\ k # n /\ k \in 0..(n + 1) /\ k # n + 1 /\ f[k] = g[k]
      BY <2>2
    <3> QED BY <1>4, <3>1
  <2>3. n \in A
    <3> HIDE DEF A
    <3> QED BY <2>1, <2>2, Induction
  <2> QED BY <2>3
<1>5. F \in [Nat -> V] /\ F[0] = base
  <2>1. \A n \in Nat : Solution(n)[n] \in V
    BY <1>3
  <2>2. Solution(0)[0] = base
    BY <1>3
  <2> QED BY <2>1, <2>2
<1>6. ASSUME NEW k \in Nat PROVE F[k + 1] = step[F[k]]
  <2>1. Solution(k)[k] = Solution(k + 1)[k]
    <3>1. Repeats(Solution(k), k) /\ Repeats(Solution(k + 1), k + 1)
      BY <1>3
    <3> HIDE DEF Repeats
    <3> QED BY <1>4, <3>1
  <2>2. Solution(k + 1)[k + 1] = step[Solution(k + 1)[k]]
    BY <1>3
  <2> QED BY <2>1, <2>2
<1> QED BY <1>5, <1>6 DEF Repeated

\* 1 << k is positive and doubles.
LEMMA Powers ==
    /\ Power[0] = 1
    /\ \A k \in Nat : Power[k] \in Nat \ {0} /\ Power[k + 1] = 2 * Power[k]
<1> DEFINE Twice == [v \in Nat |-> 2 * v]
           P(f) == [k \in Nat |-> IF k = 0 THEN 1 ELSE 2 * f[k - 1]]
<1>1. Twice \in [Nat -> Nat] /\ 1 \in Nat
  OBVIOUS
<1> HIDE DEF Twice
<1>2. PICK f \in [Nat -> Nat] : Repeated(f, 1, Twice)
  BY <1>1, Recursion
<1>3. \A k \in Nat : k # 0 => f[k] = 2 * f[k - 1]
  <2> TAKE k \in Nat
  <2> HAVE k # 0
  <2>1. k - 1 \in Nat /\ (k - 1) + 1 = k
    OBVIOUS
  <2>2. f[(k - 1) + 1] = Twice[f[k - 1]]
    BY <1>2, <2>1, Zenon DEF Repeated
  <2> QED BY <2>1, <2>2 DEF Twice
<1>4. f = P(f)
  <2>1. \A k \in Nat : f[k] = P(f)[k]
    BY <1>2, <1>3 DEF Repeated
  <2> QED BY <2>1
<1>5. Power = P(Power)
  <2>1. Power = CHOOSE g : g = P(g)
    BY DEF Power
  <2> HIDE DEF P
  <2> QED BY <1>4, <2>1
<1>6. \A k \in Nat : Power[k] = IF k = 0 THEN 1 ELSE 2 * Power[k - 1]
  BY <1>5
<1> DEFINE S == {k \in Nat : Power[k] \in Nat \ {0}}
<1>7. 0 \in S
  BY <1>6
<1>8. ASSUME NEW k \in Nat, k \in S PROVE k + 1 \in S
  <2>1. Power[k + 1] = 2 * Power[k]
    BY <1>6
  <2> QED BY <1>8, <2>1
<1>9. Nat \subseteq S
  <2> HIDE DEF S
  <2> QED BY <1>7, <1>8, Induction
<1> QED BY <1>6, <1>9

\* Quotient and remainder.
LEMMA Division ==
    ASSUME NEW n \in Nat, NEW m \in Nat \ {0}
    PROVE  /\ n \div m \in Nat /\ n % m \in 0..(m - 1)
           /\ n = m * (n \div m) + (n % m)
<1> DEFINE p == m * (n \div m)
<1>1. n \div m \in Nat /\ n % m \in 0..(m - 1) /\ p \in Nat
  OBVIOUS
<1>2. n % m = n - p
  OBVIOUS
<1>3. n = p + (n % m)
  <2> HIDE DEF p
  <2> QED BY <1>1, <1>2
<1> QED BY <1>1, <1>3

\* They are unique.
LEMMA OneQuotient ==
    ASSUME NEW n \in Nat, NEW m \in Nat \ {0}, NEW q \in Nat, NEW r \in 0..(m - 1),
           n = m * q + r
    PROVE  n \div m = q /\ n % m = r
  OBVIOUS

\* ^ and | of naturals are naturals, computed digit by digit: the recursion of
\* Combine has a solution.
LEMMA Combined ==
    ASSUME NEW ones
    PROVE  \A a, b \in Nat :
             /\ Combine(ones, a, b) \in Nat
             /\ Combine(ones, 0, b) = b
             /\ a # 0 => Combine(ones, a, b)
                           = Digit(ones, a, b) + 2 * Combine(ones, a \div 2, b \div 2)
<1> DEFINE V == [Nat -> [Nat -> Nat]]
           D(x, y) == Digit(ones, x, y)
           H(x) == x \div 2
           Value(g, x, y) == IF x = 0 THEN y ELSE D(x, y) + 2 * g[H(x)][H(y)]
           Body(g) == [x \in Nat |-> [y \in Nat |-> Value(g, x, y)]]
           base == [x \in Nat |-> [y \in Nat |-> y]]
           step == [g \in V |-> Body(g)]
<1>1. \A x \in Nat : H(x) \in Nat /\ (x # 0 => H(x) <= x - 1)
  OBVIOUS
<1>2. \A x, y \in Nat : D(x, y) \in {0, 1}
  BY DEF Digit
<1> DEFINE C == CHOOSE g : g = Body(g)
<1>3. \A a, b \in Nat : Combine(ones, a, b) = C[a][b]
  BY DEF Combine
<1> HIDE DEF D, H, C
<1>4. \A g \in V : \A x, y \in Nat : Value(g, x, y) \in Nat
  <2> TAKE g \in V
  <2> TAKE x, y \in Nat
  <2>1. g[H(x)] \in [Nat -> Nat]
    BY <1>1
  <2>2. g[H(x)][H(y)] \in Nat
    BY <1>1, <2>1
  <2>3. D(x, y) \in Nat
    BY <1>2
  <2> DEFINE d == D(x, y)
             v == g[H(x)][H(y)]
  <2>4. d + 2 * v \in Nat
    <3> HIDE DEF d, v
    <3> SUFFICES d \in Nat /\ v \in Nat
      OBVIOUS
    <3> QED BY <2>2, <2>3 DEF d, v
  <2> QED BY <2>4
<1> HIDE DEF Value
<1>5. base \in V /\ step \in [V -> V]
  <2>1. \A g \in V : Body(g) \in V
    BY <1>4
  <2> QED BY <2>1
<1>6. PICK f \in [Nat -> V] : Repeated(f, base, step)
  <2> HIDE DEF V, base, step
  <2> QED BY <1>5, Recursion
<1>7. \A k, x, y \in Nat : f[k + 1][x][y] = Value(f[k], x, y)
  <2> TAKE k, x, y \in Nat
  <2>1. f[k] \in V /\ f[k + 1] = step[f[k]]
    BY <1>6 DEF Repeated
  <2>2. f[k + 1] = Body(f[k])
    <3> HIDE DEF V, Body
    <3> QED BY <2>1
  <2> QED BY <2>2
<1>8. \A k, y \in Nat : f[k][0][y] = y
  <2> TAKE k, y \in Nat
  <2>1. CASE k = 0
    BY <1>6, <2>1 DEF Repeated
  <2>2. CASE k # 0
    <3>1. k - 1 \in Nat /\ k = (k - 1) + 1 /\ 0 \in Nat
      BY <2>2
    <3>2. f[(k - 1) + 1][0][y] = Value(f[k - 1], 0, y)
      BY <1>7, <3>1
    <3> QED BY <3>1, <3>2 DEF Value
  <2> QED BY <2>1, <2>2
<1> HIDE DEF V, Body, base, step
<1>9. \A k, x, y \in Nat : x # 0 => f[k + 1][x][y] = D(x, y) + 2 * f[k][H(x)][H(y)]
  BY <1>7 DEF Value
<1> DEFINE Settled(k, x) == \A y \in Nat : f[k][x][y] = f[x][x][y]
           Stable(k) == \A x \in 0..k : Settled(k, x)
           S == {k \in Nat : \A j \in 0..k : Stable(j)}
<1>10. 0 \in S
  OBVIOUS
<1>11. ASSUME NEW k \in Nat, k \in S PROVE k + 1 \in S
  <2>1. ASSUME NEW x \in 0..(k + 1) PROVE Settled(k + 1, x)
    <3>1. CASE x = 0
      <4>1. 0 \in Nat /\ k + 1 \in Nat
        OBVIOUS
      <4> QED BY <1>8, <3>1, <4>1
    <3>2. CASE x = k + 1
      BY <3>2
    <3>3. CASE x # 0 /\ x # k + 1
      <4> SUFFICES ASSUME NEW y \in Nat PROVE f[k + 1][x][y] = f[x][x][y]
        OBVIOUS
      <4>1. H(x) \in Nat /\ H(y) \in Nat /\ H(x) <= x - 1
        BY <1>1, <3>3
      <4>2. /\ x - 1 \in 0..k /\ H(x) \in 0..k /\ H(x) \in 0..(x - 1)
            /\ x = (x - 1) + 1 /\ x - 1 \in Nat /\ k \in 0..k /\ x \in Nat
        BY <3>3, <4>1
      <4>3. f[k + 1][x][y] = D(x, y) + 2 * f[k][H(x)][H(y)]
        <5> HIDE DEF Settled, Stable
        <5> QED BY <1>9, <3>3, <4>2
      <4>4. f[(x - 1) + 1][x][y] = D(x, y) + 2 * f[x - 1][H(x)][H(y)]
        <5> HIDE DEF Settled, Stable
        <5> QED BY <1>9, <3>3, <4>2
      <4>5. Settled(k, H(x)) /\ Settled(x - 1, H(x))
        <5>1. Stable(k) /\ Stable(x - 1)
          <6> HIDE DEF Stable
          <6> QED BY <1>11, <4>2
        <5> QED BY <4>2, <5>1
      <4>6. f[k][H(x)][H(y)] = f[x - 1][H(x)][H(y)]
        BY <4>1, <4>5
      <4> QED BY <4>2, <4>3, <4>4, <4>6
    <3> QED BY <3>1, <3>2, <3>3
  <2>2. Stable(k + 1)
    <3> HIDE DEF Settled
    <3> QED BY <2>1
  <2>3. \A j \in 0..(k + 1) : j \in 0..k \/ j = k + 1
    OBVIOUS
  <2> HIDE DEF Stable
  <2> QED BY <1>11, <2>2, <2>3
<1>12. Nat \subseteq S
  <2> HIDE DEF S
  <2> QED BY <1>10, <1>11, Induction
<1>13. ASSUME NEW k \in Nat, NEW x \in 0..k PROVE Settled(k, x)
  <2>1. k \in S /\ k \in 0..k
    BY <1>12
  <2>2. Stable(k)
    <3> HIDE DEF Stable
    <3> QED BY <2>1
  <2> QED BY <2>2
<1> HIDE DEF S, Stable
<1> DEFINE F == [x \in Nat |-> [y \in Nat |-> f[x][x][y]]]
<1>14. F = Body(F)
  <2>1. ASSUME NEW x \in Nat, NEW y \in Nat PROVE f[x][x][y] = Value(F, x, y)
    <3>1. CASE x = 0
      BY <1>8, <3>1 DEF Value
    <3>2. CASE x # 0
      <4>1. H(x) \in Nat /\ H(y) \in Nat /\ H(x) <= x - 1
        BY <1>1, <3>2
      <4>2. x - 1 \in Nat /\ x = (x - 1) + 1 /\ H(x) \in 0..(x - 1)
        BY <3>2, <4>1
      <4>3. f[(x - 1) + 1][x][y] = D(x, y) + 2 * f[x - 1][H(x)][H(y)]
        BY <1>9, <3>2, <4>2
      <4>4. f[x - 1][H(x)][H(y)] = f[H(x)][H(x)][H(y)]
        BY <1>13, <4>1, <4>2
      <4>5. F[H(x)][H(y)] = f[H(x)][H(x)][H(y)]
        BY <4>1
      <4> HIDE DEF F
      <4> QED BY <3>2, <4>2, <4>3, <4>4, <4>5 DEF Value
    <3> QED BY <3>1, <3>2
  <2>2. \A x \in Nat : [y \in Nat |-> f[x][x][y]] = [y \in Nat |-> Value(F, x, y)]
    BY <2>1
  <2>3. F = [x \in Nat |-> [y \in Nat |-> Value(F, x, y)]]
    BY <2>2
  <2> QED BY <2>3 DEF Body
<1>15. C = Body(C)
  <2> HIDE DEF F
  <2> QED BY <1>14 DEF C
<1>16. \A x, y \in Nat : C[x][y] = Value(C, x, y)
  <2> TAKE x, y \in Nat
  <2>1. Body(C)[x][y] = Value(C, x, y)
    BY DEF Body
  <2> QED BY <1>15, <2>1
<1> DEFINE Natural(x) == \A y \in Nat : C[x][y] \in Nat
           Done == {k \in Nat : \A x \in 0..k : Natural(x)}
<1>17. 0 \in Done
  BY <1>16 DEF Value
<1>18. ASSUME NEW k \in Nat, k \in Done PROVE k + 1 \in Done
  <2>1. Natural(k + 1)
    <3> TAKE y \in Nat
    <3>1. H(k + 1) \in Nat /\ H(y) \in Nat /\ H(k + 1) <= (k + 1) - 1 /\ k + 1 \in Nat /\ k + 1 # 0
      BY <1>1
    <3>2. H(k + 1) \in 0..k
      BY <3>1
    <3>3. C[H(k + 1)][H(y)] \in Nat
      BY <1>18, <3>1, <3>2
    <3>4. C[k + 1][y] = D(k + 1, y) + 2 * C[H(k + 1)][H(y)]
      BY <1>16, <3>1 DEF Value
    <3> QED BY <1>2, <3>1, <3>3, <3>4
  <2>2. \A x \in 0..(k + 1) : x \in 0..k \/ x = k + 1
    OBVIOUS
  <2> HIDE DEF Natural
  <2> QED BY <1>18, <2>1, <2>2
<1>19. Nat \subseteq Done
  <2> HIDE DEF Done
  <2> QED BY <1>17, <1>18, Induction
<1>20. \A x \in Nat : Natural(x)
  <2>1. \A x \in Nat : x \in 0..x
    OBVIOUS
  <2> HIDE DEF Natural
  <2> QED BY <1>19, <2>1
<1>21. ASSUME NEW a \in Nat, NEW b \in Nat
       PROVE  /\ C[a][b] \in Nat
              /\ C[0][b] = b
              /\ a # 0 => C[a][b] = D(a, b) + 2 * C[H(a)][H(b)]
  BY <1>16, <1>20 DEF Value
<1>22. ASSUME NEW a \in Nat, NEW b \in Nat
       PROVE  /\ Combine(ones, a, b) \in Nat
              /\ Combine(ones, 0, b) = b
              /\ a # 0 => Combine(ones, a, b) = D(a, b) + 2 * Combine(ones, H(a), H(b))
  <2>1. 0 \in Nat /\ H(a) \in Nat /\ H(b) \in Nat
    BY <1>1
  <2> QED BY <1>3, <1>21, <2>1
<1> QED BY <1>22 DEF D, H

\* Twice a number and a digit.
LEMMA Doubled ==
    ASSUME NEW d \in {0, 1}, NEW c \in Nat, NEW m \in Nat \ {0}
    PROVE  /\ (d + 2 * c) % (2 * m) = d + 2 * (c % m)
           /\ (d + 2 * c) \div 2 = c /\ (d + 2 * c) % 2 = d
<1> DEFINE q == c \div m
           r == c % m
<1>1. q \in Nat /\ r \in 0..(m - 1) /\ c = m * q + r
  BY Division
<1> HIDE DEF q, r
<1>2. /\ d + 2 * c \in Nat /\ 2 * m \in Nat \ {0} /\ d + 2 * r \in 0..(2 * m - 1)
      /\ d + 2 * c = (2 * m) * q + (d + 2 * r)
  <2>1. m * q \in Nat /\ (2 * m) * q = 2 * (m * q)
    BY <1>1
  <2> QED BY <1>1, <2>1
<1>3. (d + 2 * c) % (2 * m) = d + 2 * r
  BY <1>1, <1>2, OneQuotient
<1> QED BY <1>3 DEF r

\* Cutting off the high bits before ^ or | is cutting them off after.
LEMMA Truncated ==
    ASSUME NEW ones, 1 \in ones, 0 \notin ones
    PROVE  \A k, a, b \in Nat :
             Combine(ones, a, b) % Power[k] = Combine(ones, a % Power[k], b % Power[k])
<1>1. ASSUME NEW a \in Nat, NEW b \in Nat
      PROVE  /\ Combine(ones, a, b) \in Nat /\ Digit(ones, a, b) \in {0, 1}
             /\ Combine(ones, a, b) = Digit(ones, a, b) + 2 * Combine(ones, a \div 2, b \div 2)
  <2>1. Combine(ones, a, b) \in Nat /\ Digit(ones, a, b) \in {0, 1}
    BY Combined DEF Digit
  <2>2. CASE a # 0
    BY <2>1, <2>2, Combined
  <2>3. CASE a = 0
    <3>1. a \div 2 = 0 /\ b \div 2 \in Nat /\ b % 2 \in {0, 1} /\ b = (b % 2) + 2 * (b \div 2)
      BY <2>3
    <3>2. Combine(ones, a, b) = b /\ Combine(ones, a \div 2, b \div 2) = b \div 2
      BY <2>3, <3>1, Combined
    <3>3. Digit(ones, a, b) = b % 2
      BY <2>3, <3>1 DEF Digit
    <3> QED BY <2>1, <3>1, <3>2, <3>3
  <2> QED BY <2>1, <2>2, <2>3
<1> DEFINE Cuts(k) == \A a, b \in Nat :
                Combine(ones, a, b) % Power[k] = Combine(ones, a % Power[k], b % Power[k])
           S == {k \in Nat : Cuts(k)}
<1>2. 0 \in S
  <2>1. \A n \in Nat : n % 1 = 0
    OBVIOUS
  <2>2. Combine(ones, 0, 0) = 0
    BY Combined
  <2>3. ASSUME NEW a \in Nat, NEW b \in Nat
        PROVE  Combine(ones, a, b) % 1 = Combine(ones, a % 1, b % 1)
    <3>1. Combine(ones, a, b) % 1 = 0
      BY <1>1, <2>1
    <3>2. a % 1 = 0 /\ b % 1 = 0
      BY <2>1
    <3> QED BY <2>2, <3>1, <3>2
  <2>4. Power[0] = 1 /\ 0 \in Nat
    BY Powers
  <2> QED BY <2>3, <2>4
<1>3. ASSUME NEW k \in Nat, k \in S PROVE k + 1 \in S
  <2> SUFFICES ASSUME NEW a \in Nat, NEW b \in Nat
               PROVE  Combine(ones, a, b) % Power[k + 1]
                        = Combine(ones, a % Power[k + 1], b % Power[k + 1])
    OBVIOUS
  <2> DEFINE m == Power[k]
             Cut(n) == n % (2 * m)
  <2>1. m \in Nat \ {0} /\ Power[k + 1] = 2 * m
    BY Powers
  <2> HIDE DEF m
  <2>2. ASSUME NEW n \in Nat
        PROVE  /\ Cut(n) \in Nat /\ Cut(n) % 2 = n % 2 /\ Cut(n) \div 2 = (n \div 2) % m
    <3> DEFINE d == n % 2
               c == n \div 2
    <3>1. d \in {0, 1} /\ c \in Nat /\ n = d + 2 * c /\ c % m \in Nat
      BY <2>1
    <3> HIDE DEF d, c
    <3>2. Cut(n) = d + 2 * (c % m)
      BY <2>1, <3>1, Doubled
    <3> HIDE DEF Cut
    <3>3. Cut(n) \div 2 = c % m /\ Cut(n) % 2 = d
      <4> DEFINE e == c % m
      <4>1. d \in {0, 1} /\ e \in Nat /\ 1 \in Nat \ {0} /\ Cut(n) = d + 2 * e
        BY <3>1, <3>2
      <4> HIDE DEF e
      <4>2. (d + 2 * e) \div 2 = e /\ (d + 2 * e) % 2 = d
        BY <4>1, Doubled
      <4>3. Cut(n) \div 2 = e /\ Cut(n) % 2 = d
        BY <4>1, <4>2
      <4> QED BY <4>3 DEF e
    <3>4. Cut(n) \in Nat
      BY <3>1, <3>2
    <3>5. Cut(n) % 2 = n % 2
      BY <3>3 DEF d
    <3>6. Cut(n) \div 2 = (n \div 2) % m
      BY <3>3 DEF c
    <3> QED BY <3>4, <3>5, <3>6
  <2> DEFINE c == Combine(ones, a \div 2, b \div 2)
  <2>3. a \div 2 \in Nat /\ b \div 2 \in Nat
    OBVIOUS
  <2>4. c \in Nat /\ Combine(ones, a, b) = Digit(ones, a, b) + 2 * c /\ Digit(ones, a, b) \in {0, 1}
    BY <1>1, <2>3
  <2>5. c % m = Combine(ones, (a \div 2) % m, (b \div 2) % m)
    BY <1>3, <2>3 DEF m
  <2> HIDE DEF c
  <2>6. Cut(Combine(ones, a, b)) = Digit(ones, a, b) + 2 * (c % m)
    <3> DEFINE d == Digit(ones, a, b)
    <3>1. d \in {0, 1} /\ Combine(ones, a, b) = d + 2 * c
      BY <2>4
    <3> HIDE DEF d
    <3>2. (d + 2 * c) % (2 * m) = d + 2 * (c % m)
      BY <2>1, <2>4, <3>1, Doubled
    <3> QED BY <3>1, <3>2 DEF d
  <2>7. Digit(ones, Cut(a), Cut(b)) = Digit(ones, a, b)
    BY <2>2 DEF Digit
  <2>8. Combine(ones, Cut(a), Cut(b))
          = Digit(ones, Cut(a), Cut(b)) + 2 * Combine(ones, Cut(a) \div 2, Cut(b) \div 2)
    BY <1>1, <2>2
  <2>9. Combine(ones, Cut(a), Cut(b)) = Digit(ones, a, b) + 2 * (c % m)
    BY <2>2, <2>5, <2>7, <2>8
  <2> QED BY <2>1, <2>6, <2>9
<1>4. Nat \subseteq S
  <2> HIDE DEF S
  <2> QED BY <1>2, <1>3, Induction
<1> QED BY <1>4

\* What a mask keeps.
LEMMA Masks ==
    /\ W \in Nat /\ Power[W] \in Nat \ {0}
    /\ \A n \in Nat : Masked(n) \in Word
    /\ \A v \in Word : v \in Nat /\ Masked(v) = v
    /\ \A v \in Nat : v % Power[W] = Masked(v)
<1>1. W \in Nat
  BY WordAssumption
<1> DEFINE m == Power[W]
<1>2. m \in Nat \ {0}
  BY <1>1, Powers
<1> HIDE DEF m
<1>3. \A n \in Nat : n % m \in 0..(m - 1)
  BY <1>2
<1>4. \A v \in 0..(m - 1) : v \in Nat /\ v % m = v
  BY <1>2
<1> QED BY <1>1, <1>2, <1>3, <1>4 DEF Word, Masked, m

\* Masking a summand or a factor early changes no low bit of the result.
LEMMA MasksEarly ==
    ASSUME NEW n \in Nat, NEW c \in Nat
    PROVE  Masked(n + c) = Masked(Masked(n) + c) /\ Masked(n * c) = Masked(Masked(n) * c)
<1> DEFINE m == Power[W]
           q == n \div m
           r == n % m
           s == r + c
           p == r * c
<1>1. m \in Nat \ {0}
  BY Masks
<1> HIDE DEF m
<1>2. q \in Nat /\ r \in 0..(m - 1) /\ n = m * q + r
  BY <1>1, Division
<1> HIDE DEF q, r
<1>3. r \in Nat /\ s \in Nat /\ p \in Nat
  BY <1>2
<1>4. (n + c) % m = s % m
  <2> DEFINE qs == s \div m
             rs == s % m
  <2>1. qs \in Nat /\ rs \in 0..(m - 1) /\ s = m * qs + rs
    BY <1>1, <1>3, Division
  <2> HIDE DEF qs, rs
  <2>2. m * (q + qs) = m * q + m * qs /\ q + qs \in Nat /\ m * q \in Nat /\ m * qs \in Nat
    BY <1>1, <1>2, <2>1
  <2>3. n + c = m * (q + qs) + rs
    BY <1>1, <1>2, <2>1, <2>2
  <2>4. n + c \in Nat
    OBVIOUS
  <2>5. (n + c) % m = rs
    BY <1>1, <2>1, <2>2, <2>3, <2>4, OneQuotient
  <2> QED BY <2>5 DEF rs
<1>5. (n * c) % m = p % m
  <2> DEFINE qp == p \div m
             rp == p % m
  <2>1. qp \in Nat /\ rp \in 0..(m - 1) /\ p = m * qp + rp
    BY <1>1, <1>3, Division
  <2> HIDE DEF qp, rp
  <2>2. n * c = m * (q * c) + p
    <3>1. n * c = (m * q + r) * c
      BY <1>2
    <3>2. (m * q + r) * c = m * (q * c) + r * c
      BY <1>1, <1>2
    <3> QED BY <3>1, <3>2
  <2> DEFINE qc == q * c
  <2>3. qc \in Nat /\ n * c = m * qc + p
    BY <1>2, <2>2
  <2> HIDE DEF qc, p
  <2>4. m * (qc + qp) = m * qc + m * qp /\ qc + qp \in Nat /\ m * qc \in Nat /\ m * qp \in Nat
    BY <1>1, <2>1, <2>3
  <2>5. n * c = m * (qc + qp) + rp /\ n * c \in Nat
    BY <1>1, <1>3, <2>1, <2>3, <2>4
  <2>6. (n * c) % m = rp
    <3> DEFINE t == n * c
    <3>1. t \in Nat /\ t = m * (qc + qp) + rp
      BY <2>5
    <3> HIDE DEF t
    <3>2. t % m = rp
      BY <1>1, <2>1, <2>4, <3>1, OneQuotient
    <3> QED BY <3>2 DEF t
  <2> QED BY <2>6 DEF rp
<1> QED BY <1>4, <1>5 DEF Masked, m, r

\* ^ and | of naturals are naturals, of words words, and masking their
\* arguments is masking their result.
LEMMA BitwiseMasks ==
    ASSUME NEW a \in Nat, NEW b \in Nat
    PROVE  /\ Xor(a, b) \in Nat /\ Masked(Xor(a, b)) = Xor(Masked(a), Masked(b))
           /\ Or(a, b) \in Nat /\ Masked(Or(a, b)) = Or(Masked(a), Masked(b))
           /\ a \in Word /\ b \in Word => Xor(a, b) \in Word /\ Or(a, b) \in Word
<1>1. ASSUME NEW ones, 1 \in ones, 0 \notin ones
      PROVE  /\ Combine(ones, a, b) \in Nat
             /\ Masked(Combine(ones, a, b)) = Combine(ones, Masked(a), Masked(b))
             /\ a \in Word /\ b \in Word => Combine(ones, a, b) \in Word
  <2>1. Combine(ones, a, b) \in Nat
    BY Combined
  <2>2. W \in Nat
    BY Masks
  <2>3. Combine(ones, a, b) % Power[W] = Combine(ones, a % Power[W], b % Power[W])
    BY <1>1, <2>2, Truncated
  <2>4. Masked(Combine(ones, a, b)) = Combine(ones, Masked(a), Masked(b))
    BY <2>3 DEF Masked
  <2>5. Masked(Combine(ones, a, b)) \in Word
    BY <2>1, Masks
  <2>6. a \in Word /\ b \in Word => Masked(a) = a /\ Masked(b) = b
    BY Masks
  <2> QED BY <2>1, <2>4, <2>5, <2>6
<1>2. 1 \in {1} /\ 0 \notin {1} /\ 1 \in {1, 2} /\ 0 \notin {1, 2}
  OBVIOUS
<1>3. /\ Combine({1}, a, b) \in Nat
      /\ Masked(Combine({1}, a, b)) = Combine({1}, Masked(a), Masked(b))
      /\ a \in Word /\ b \in Word => Combine({1}, a, b) \in Word
  BY <1>1, <1>2
<1>4. /\ Combine({1, 2}, a, b) \in Nat
      /\ Masked(Combine({1, 2}, a, b)) = Combine({1, 2}, Masked(a), Masked(b))
      /\ a \in Word /\ b \in Word => Combine({1, 2}, a, b) \in Word
  BY <1>1, <1>2
<1> QED BY <1>3, <1>4 DEF Xor, Or

\* A shift to the right keeps words words.
LEMMA Shifts ==
    ASSUME NEW v \in Nat, NEW shift \in Nat
    PROVE  /\ Right(v, shift) \in Nat /\ Left(v, shift) \in Nat /\ Low(v, shift) \in Nat
           /\ v \in Word => Right(v, shift) \in Word
<1> DEFINE m == Power[shift]
<1>1. m \in Nat \ {0}
  BY Powers
<1> HIDE DEF m
<1>2. v \div m \in Nat /\ v \div m <= v /\ v * m \in Nat /\ v % m \in Nat
  <2>1. v \div m \in Nat /\ v % m \in 0..(m - 1) /\ v = m * (v \div m) + (v % m)
    BY <1>1, Division
  <2> DEFINE q == v \div m
             r == v % m
  <2>2. q \in Nat /\ r \in Nat /\ v = m * q + r
    BY <2>1
  <2> HIDE DEF q, r
  <2>3. m * q \in Nat /\ q <= m * q
    BY <1>1, <2>2
  <2>4. q <= v
    BY <2>2, <2>3
  <2> QED BY <1>1, <2>2, <2>4 DEF q, r
<1>3. v \in Word => v \div m \in Word
  BY <1>2, Masks DEF Word
<1> QED BY <1>2, <1>3 DEF Right, Left, Low, m

\* mix64 returns a word and sees the low bits of its argument alone.
LEMMA MixesWords ==
    /\ \A v \in Nat : Mix64(v) \in Word
    /\ \A u, v \in Nat : Masked(u) = Masked(v) => Mix64(u) = Mix64(v)
<1>1. ASSUME NEW v \in Word PROVE XorShift(v) \in Nat
  <2>1. v \in Nat /\ MixShift \in Nat
    BY Masks, WordAssumption
  <2> QED BY <2>1, Shifts, BitwiseMasks DEF XorShift
<1>2. ASSUME NEW v \in Word, NEW c \in Nat PROVE Masked(XorShift(v) * c) \in Word
  <2>1. XorShift(v) * c \in Nat
    BY <1>1
  <2> QED BY <2>1, Masks
<1>3. ASSUME NEW v \in Nat PROVE Mix64(v) \in Word
  <2> DEFINE a == Masked(XorShift(Masked(v)) * MixFirst)
             b == Masked(XorShift(a) * MixSecond)
  <2>1. MixFirst \in Nat /\ MixSecond \in Nat
    BY WordAssumption
  <2>2. Masked(v) \in Word
    BY Masks
  <2>3. a \in Word
    BY <1>2, <2>1, <2>2
  <2> HIDE DEF a
  <2>4. b \in Word
    BY <1>2, <2>1, <2>3
  <2> HIDE DEF b
  <2>5. Masked(XorShift(b)) \in Word
    BY <1>1, <2>4, Masks
  <2> QED BY <2>5 DEF Mix64, a, b
<1>4. \A u, v \in Nat : Masked(u) = Masked(v) => Mix64(u) = Mix64(v)
  BY DEF Mix64
<1> QED BY <1>3, <1>4

\* The generated code's step is the interpreter's, masked.
LEMMA StepsAgree ==
    ASSUME NEW op, NEW i \in Nat, NEW g \in Word, Masked(i) = g, NEW p \in Word
    PROVE  /\ InterpretedStep(op, i, p) \in Nat /\ RenderedStep(op, g, p) \in Word
           /\ Masked(InterpretedStep(op, i, p)) = RenderedStep(op, g, p)
<1>1. /\ g \in Nat /\ p \in Nat /\ Masked(p) = p /\ Masked(g) = g
      /\ TokenDown \in Nat /\ TokenUp \in Nat /\ WindowBits \in Nat /\ WindowFactor \in Nat
      /\ ExpandKey \in Nat /\ BoostBits \in Nat /\ BoostFactor \in Nat
  BY Masks, WordAssumption
<1>2. ASSUME NEW w \in Nat
      PROVE  /\ Xor(i, w) \in Nat /\ Xor(g, Masked(w)) \in Word
             /\ Masked(Xor(i, w)) = Xor(g, Masked(w))
  <2>1. Masked(w) \in Word /\ Masked(w) \in Nat
    BY Masks
  <2> QED BY <1>1, <2>1, BitwiseMasks
<1>3. ASSUME NEW c \in Nat
      PROVE  /\ Masked(i + c) \in Word /\ Masked(i + c) \in Nat
             /\ Masked(Masked(i + c)) = Masked(g + c)
  <2>1. i + c \in Nat
    OBVIOUS
  <2>2. Masked(i + c) \in Word /\ Masked(i + c) \in Nat /\ Masked(Masked(i + c)) = Masked(i + c)
    BY <2>1, Masks
  <2> QED BY <2>2, MasksEarly
<1>4. CASE op = "tokenize"
  <2> DEFINE right == Right(p, TokenDown)
             left == Left(p, TokenUp)
  <2>1. right \in Nat /\ right \in Word /\ left \in Nat /\ Masked(right) = right
    BY <1>1, Shifts, Masks
  <2> HIDE DEF right, left
  <2>2. Or(right, left) \in Nat /\ Masked(Or(right, left)) = Or(right, Masked(left))
    <3>1. Or(right, left) \in Nat /\ Masked(Or(right, left)) = Or(Masked(right), Masked(left))
      BY <2>1, BitwiseMasks
    <3> QED BY <2>1, <3>1
  <2>3. /\ Xor(i, Or(right, left)) \in Nat /\ Xor(g, Or(right, Masked(left))) \in Word
        /\ Masked(Xor(i, Or(right, left))) = Xor(g, Or(right, Masked(left)))
    BY <1>2, <2>2
  <2> QED BY <1>4, <2>3 DEF InterpretedStep, RenderedStep, right, left
<1>5. CASE op = "window"
  <2>1. Low(p, WindowBits) * WindowFactor \in Nat
    <3>1. Low(p, WindowBits) \in Nat
      BY <1>1, Shifts
    <3> QED BY <1>1, <3>1
  <2>2. /\ Masked(i + Low(p, WindowBits) * WindowFactor) \in Nat
        /\ Masked(Masked(i + Low(p, WindowBits) * WindowFactor))
             = Masked(g + Low(p, WindowBits) * WindowFactor)
    BY <1>3, <2>1
  <2>3. Masked(Masked(i + Low(p, WindowBits) * WindowFactor)) \in Word
    BY <2>2, Masks
  <2> QED BY <1>5, <2>2, <2>3 DEF InterpretedStep, RenderedStep
<1>6. CASE op = "expand"
  <2>1. Mix64(Xor(p, ExpandKey)) \in Word
    BY <1>1, BitwiseMasks, MixesWords
  <2>2. Mix64(Xor(p, ExpandKey)) \in Nat /\ Masked(Mix64(Xor(p, ExpandKey))) = Mix64(Xor(p, ExpandKey))
    BY <2>1, Masks
  <2> QED BY <1>2, <1>6, <2>2 DEF InterpretedStep, RenderedStep
<1>7. CASE op = "boost"
  <2> DEFINE x == i * BoostFactor
             y == g * BoostFactor
             c == Low(p, BoostBits)
  <2>1. x \in Nat /\ y \in Nat /\ c \in Nat
    <3>1. c \in Nat
      BY <1>1, Shifts
    <3> QED BY <1>1, <3>1
  <2>2. Masked(x) = Masked(y)
    BY <1>1, MasksEarly
  <2> HIDE DEF x, y, c
  <2>3. Masked(x + c) = Masked(y + c)
    <3>1. Masked(x + c) = Masked(Masked(x) + c) /\ Masked(y + c) = Masked(Masked(y) + c)
      BY <2>1, MasksEarly
    <3> QED BY <2>2, <3>1
  <2>4. x + c \in Nat
    BY <2>1
  <2>5. Masked(x + c) \in Nat /\ Masked(x + c) \in Word /\ Masked(Masked(x + c)) = Masked(x + c)
    BY <2>4, Masks
  <2> QED BY <1>7, <2>3, <2>5 DEF InterpretedStep, RenderedStep, x, y, c
<1>8. CASE op \notin {"tokenize", "window", "expand", "boost"}
  <2>1. Xor(p, i) \in Nat /\ Xor(p, g) \in Nat /\ Masked(Xor(p, i)) = Masked(Xor(p, g))
    BY <1>1, BitwiseMasks
  <2> DEFINE c == Mix64(Xor(p, g))
  <2>2. Mix64(Xor(p, i)) = c /\ c \in Word
    BY <2>1, MixesWords
  <2>3. c \in Nat
    BY <2>2, Masks
  <2>4. /\ InterpretedStep(op, i, p) = Masked(i + c)
        /\ RenderedStep(op, g, p) = Masked(g + c)
    BY <1>8, <2>2 DEF InterpretedStep, RenderedStep
  <2> HIDE DEF c
  <2>5. Masked(i + c) \in Nat /\ Masked(i + c) \in Word /\ Masked(Masked(i + c)) = Masked(g + c)
    BY <1>3, <2>3
  <2>6. Masked(g + c) \in Word
    BY <2>5, Masks
  <2> QED BY <2>4, <2>5, <2>6
<1> QED BY <1>4, <1>5, <1>6, <1>7, <1>8

\* The inductive invariant: the generated code's state is the interpreter's, masked.
BlockInv == BlockTypeOK /\ gacc = Masked(iacc)

\* It holds where a route starts.
LEMMA BlockStarts == StartBlock => BlockInv
<1> SUFFICES ASSUME StartBlock PROVE BlockInv
  OBVIOUS
<1>1. /\ blockIndex \in 0..MaxIndex /\ blockState \in Word /\ salt \in Nat /\ Rounds \in Nat
      /\ MaxIndex \in Nat
  BY WordAssumption DEF StartBlock
<1> DEFINE c == (blockIndex + 1) * salt
<1>2. c \in Nat /\ blockState \in Nat /\ Masked(blockState) = blockState
  BY <1>1, Masks
<1>3. iacc = Xor(blockState, c) /\ gacc = Xor(blockState, Masked(c))
  BY DEF StartBlock
<1> HIDE DEF c
<1>4. Masked(c) \in Nat /\ Masked(c) \in Word
  BY <1>2, Masks
<1>5. /\ iacc \in Nat /\ gacc \in Nat /\ gacc = Masked(iacc)
  BY <1>1, <1>2, <1>3, <1>4, BitwiseMasks
<1>6. round \in 0..Rounds
  BY <1>1 DEF StartBlock
<1>7. steps \in Seq(BlockOperations)
  <2>1. /\ <<"tokenize", "score", "rank">> \in Seq(BlockOperations)
        /\ <<"tokenize", "window", "score">> \in Seq(BlockOperations)
        /\ <<"expand", "tokenize", "rank">> \in Seq(BlockOperations)
        /\ <<"score", "boost", "rank">> \in Seq(BlockOperations)
    BY DEF BlockOperations
  <2>2. \A route \in DOMAIN Operations : Operations[route] \in Seq(BlockOperations)
    <3>1. DOMAIN Operations = {"term", "phrase", "wildcard", "rank"}
      BY DEF Operations
    <3>2. /\ Operations["term"] = <<"tokenize", "score", "rank">>
          /\ Operations["phrase"] = <<"tokenize", "window", "score">>
          /\ Operations["wildcard"] = <<"expand", "tokenize", "rank">>
          /\ Operations["rank"] = <<"score", "boost", "rank">>
      BY DEF Operations
    <3> QED BY <2>1, <3>1, <3>2
  <2> QED BY <2>2 DEF StartBlock
<1> QED BY <1>1, <1>5, <1>6, <1>7 DEF BlockInv, BlockTypeOK

\* Every round and every change of operation keeps it.
LEMMA BlockSteps == BlockInv /\ [BlockNext]_blockVars => BlockInv'
<1> SUFFICES ASSUME BlockInv, [BlockNext]_blockVars PROVE BlockInv'
  OBVIOUS
<1>1. CASE Round
  <2>1. /\ blockIndex \in Nat /\ salt \in Nat /\ round \in Nat /\ iacc \in Nat /\ gacc \in Word
        /\ gacc = Masked(iacc) /\ gacc \in Nat /\ round \in 0..Rounds /\ Rounds \in Nat
    BY Masks, WordAssumption DEF BlockInv, BlockTypeOK
  <2> DEFINE c == salt + round + Left(blockIndex, 1)
  <2>2. c \in Nat /\ iacc + c \in Nat /\ gacc + c \in Nat
    <3>1. Left(blockIndex, 1) \in Nat
      BY <2>1, Shifts
    <3>2. c \in Nat
      BY <2>1, <3>1
    <3> QED BY <2>1, <3>2
  <2>3. Probe(iacc) = Mix64(iacc + c) /\ Probe(gacc) = Mix64(gacc + c)
    <3>1. Left(blockIndex, 1) \in Nat
      BY <2>1, Shifts
    <3>2. /\ iacc + salt + round + Left(blockIndex, 1) = iacc + c
          /\ gacc + salt + round + Left(blockIndex, 1) = gacc + c
      BY <2>1, <3>1
    <3> QED BY <3>2 DEF Probe
  <2> HIDE DEF c
  <2>4. Masked(iacc + c) = Masked(gacc + c)
    BY <2>1, <2>2, MasksEarly
  <2>5. Probe(iacc) = Probe(gacc) /\ Probe(gacc) \in Word
    BY <2>2, <2>3, <2>4, MixesWords
  <2>6. iacc' \in Nat /\ gacc' \in Word /\ gacc' = Masked(iacc')
    <3> DEFINE op == Head(steps)
               p == Probe(gacc)
    <3>1. iacc' = InterpretedStep(op, iacc, p) /\ gacc' = RenderedStep(op, gacc, p)
      BY <1>1, <2>5 DEF Round
    <3>2. p \in Word
      BY <2>5
    <3> HIDE DEF op, p
    <3>3. /\ InterpretedStep(op, iacc, p) \in Nat /\ RenderedStep(op, gacc, p) \in Word
          /\ Masked(InterpretedStep(op, iacc, p)) = RenderedStep(op, gacc, p)
      BY <2>1, <3>2, StepsAgree
    <3> QED BY <3>1, <3>3
  <2>7. gacc' \in Nat /\ round' \in 0..Rounds
    BY <1>1, <2>1, <2>6, Masks DEF Round
  <2>8. UNCHANGED <<steps, blockIndex, blockState, salt>>
    BY <1>1 DEF Round
  <2>9. /\ blockIndex \in 0..MaxIndex /\ blockState \in Word /\ salt \in Nat
        /\ steps \in Seq(BlockOperations)
    BY DEF BlockInv, BlockTypeOK
  <2>10. (/\ blockIndex \in 0..MaxIndex /\ blockState \in Word /\ salt \in Nat
          /\ steps \in Seq(BlockOperations))'
    BY <2>8, <2>9 DEF Word
  <2> QED BY <2>6, <2>7, <2>10 DEF BlockInv, BlockTypeOK
<1>2. CASE NextOperation
  <2>1. Rounds \in Nat
    BY WordAssumption
  <2> QED BY <1>2, <2>1 DEF NextOperation, BlockInv, BlockTypeOK
<1>3. CASE UNCHANGED blockVars
  BY <1>3 DEF blockVars, BlockInv, BlockTypeOK
<1> QED BY <1>1, <1>2, <1>3 DEF BlockNext

\* The type invariant of the routes' blocks.
THEOREM BlockTypeCorrect == BlockSpec => []BlockTypeOK
<1>1. BlockInv => BlockTypeOK
  BY DEF BlockInv
<1> QED BY <1>1, BlockStarts, BlockSteps, PTL DEF BlockSpec

\* The two renderings of a route agree on every state.
THEOREM RenderingsAgree == BlockSpec => []BlocksAgree
<1>1. BlockInv => BlocksAgree
  <2> SUFFICES ASSUME BlockInv PROVE BlocksAgree
    OBVIOUS
  <2>1. iacc \in Nat /\ gacc = Masked(iacc) /\ blockState \in Word
    BY DEF BlockInv, BlockTypeOK
  <2>2. gacc \in Word /\ gacc \in Nat /\ Masked(gacc) = gacc /\ blockState \in Nat
    BY <2>1, Masks
  <2>3. Xor(blockState, gacc) \in Word
    BY <2>1, <2>2, BitwiseMasks
  <2>4. Masked(Xor(blockState, gacc)) = Xor(blockState, gacc)
    BY <2>3, Masks
  <2> QED BY <2>1, <2>2, <2>4 DEF BlocksAgree
<1> QED BY <1>1, BlockStarts, BlockSteps, PTL DEF BlockSpec
==============================================================================
