---------------------------- MODULE SchedulerProofs ----------------------------
(***************************************************************************)
(* Facts about internal/scheduler for every table and every number of      *)
(* nodes: what the sums of requests are, how they change when a table      *)
(* loses or gains a row, and that ChooseNode returns the first eligible    *)
(* node whenever there is one.                                             *)
(*                                                                         *)
(* A sum over a set is a fold, a recursive function.  It is shown to count *)
(* the elements of a set, the units requested; the library's theorems on   *)
(* cardinalities then say everything else about it.  The one induction     *)
(* this takes picks a least set on which the two differ.                   *)
(***************************************************************************)
EXTENDS Scheduler, FiniteSetTheorems, TLAPS

\* One pair per unit that the members of T ask for.
Slots(f, T) == {p \in T \X Nat : p[2] \in 1 .. f[p[1]]}

\* The units of one member and those of the others.
LEMMA SlotsOfOne ==
    ASSUME NEW T, NEW f, \A i \in T : f[i] \in Nat, NEW x \in T,
           IsFiniteSet(Slots(f, T \ {x}))
    PROVE  /\ IsFiniteSet(Slots(f, T))
           /\ Cardinality(Slots(f, T)) = f[x] + Cardinality(Slots(f, T \ {x}))
<1>. DEFINE new == {x} \X (1 .. f[x])
            old == Slots(f, T \ {x})
<1>0. f[x] \in Nat
  OBVIOUS
<1>1. IsFiniteSet(new) /\ Cardinality(new) = f[x]
  <2>1. IsFiniteSet({x}) /\ Cardinality({x}) = 1
    BY FS_Singleton
  <2>2. IsFiniteSet(1 .. f[x]) /\ Cardinality(1 .. f[x]) = f[x]
    <3>. HIDE DEF new
    <3>. DEFINE k == f[x]
    <3>1. k \in Nat
      BY <1>0
    <3>. HIDE DEF k
    <3>2. IsFiniteSet(1 .. k) /\ Cardinality(1 .. k) = IF 1 > k THEN 0 ELSE k - 1 + 1
      BY <3>1, FS_Interval
    <3>3. IsFiniteSet(1 .. k) /\ Cardinality(1 .. k) = k
      BY <3>1, <3>2
    <3>. QED BY <3>3 DEF k
  <2>. QED BY <2>1, <2>2, FS_Product, <1>0
<1>2. Slots(f, T) = old \cup new
  BY <1>0 DEF Slots
<1>3. old \cap new = {}
  BY DEF Slots
<1>4. Cardinality(old \cap new) = 0
  BY <1>3, FS_EmptySet
<1>5. Cardinality(old) \in Nat
  BY FS_CardinalityType
<1>. HIDE DEF new, old
<1>6. /\ IsFiniteSet(old \cup new)
      /\ Cardinality(old \cup new) = Cardinality(old) + Cardinality(new) - Cardinality(old \cap new)
  <2>1. IsFiniteSet(old)
    BY DEF old
  <2>. QED BY <1>1, <2>1, FS_Union
<1>7. Cardinality(old \cup new) = f[x] + Cardinality(old)
  BY <1>0, <1>1, <1>4, <1>5, <1>6
<1>. QED BY <1>2, <1>6, <1>7 DEF old

\* g sums f over the subsets of S in the way MapThenSumSet does.
IsSum(g, f, S) ==
    g = [T \in SUBSET S |->
            IF T = {} THEN 0
            ELSE f[CHOOSE x \in T : TRUE] + g[T \ {CHOOSE x \in T : TRUE}]]

\* A finite set asks for finitely many units.
LEMMA SlotsFinite ==
    ASSUME NEW S, IsFiniteSet(S), NEW f, \A i \in S : f[i] \in Nat, NEW T \in SUBSET S
    PROVE  IsFiniteSet(Slots(f, T))
<1>. DEFINE Bad == {U \in SUBSET S : ~ IsFiniteSet(Slots(f, U))}
<1>. SUFFICES ASSUME Bad # {} PROVE FALSE
  OBVIOUS
<1>1. IsWellFoundedOn(StrictSubsetOrdering(S), SUBSET S)
  BY FS_StrictSubsetOrderingWellFounded, FS_FiniteSubsetsOfFinite
<1>2. PICK U \in Bad : \A V \in Bad : ~ (<<V, U>> \in StrictSubsetOrdering(S))
  <2>1. Bad \subseteq SUBSET S
    OBVIOUS
  <2>. HIDE DEF Bad
  <2>. QED BY <1>1, <2>1, WFMin
<1>3. U # {}
  <2>1. Slots(f, {}) = {}
    BY DEF Slots
  <2>. QED BY <2>1, FS_EmptySet
<1>4. PICK x \in U : TRUE
  BY <1>3
<1>5. U \ {x} \notin Bad
  <2>1. <<U \ {x}, U>> \in StrictSubsetOrdering(S)
    BY <1>4 DEF StrictSubsetOrdering
  <2>. QED BY <1>2, <2>1
<1>6. IsFiniteSet(Slots(f, U \ {x}))
  BY <1>5
<1>7. IsFiniteSet(Slots(f, U))
  BY <1>4, <1>6, SlotsOfOne
<1>. QED BY <1>7

\* Counting units satisfies the equation of the sum.
LEMMA CountingSums ==
    ASSUME NEW S, IsFiniteSet(S), NEW f, \A i \in S : f[i] \in Nat
    PROVE  IsSum([T \in SUBSET S |-> Cardinality(Slots(f, T))], f, S)
<1>. DEFINE g == [T \in SUBSET S |-> Cardinality(Slots(f, T))]
<1>1. ASSUME NEW T \in SUBSET S
      PROVE  g[T] = IF T = {} THEN 0
                    ELSE f[CHOOSE x \in T : TRUE] + g[T \ {CHOOSE x \in T : TRUE}]
  <2>1. CASE T = {}
    <3>1. Slots(f, {}) = {}
      BY DEF Slots
    <3>. QED BY <2>1, <3>1, FS_EmptySet
  <2>2. CASE T # {}
    <3>. DEFINE y == CHOOSE x \in T : TRUE
    <3>1. y \in T
      BY <2>2
    <3>. HIDE DEF y
    <3>2. IsFiniteSet(Slots(f, T \ {y}))
      BY SlotsFinite
    <3>3. Cardinality(Slots(f, T)) = f[y] + Cardinality(Slots(f, T \ {y}))
      BY <3>1, <3>2, SlotsOfOne
    <3>4. g[T] = f[y] + g[T \ {y}]
      BY <3>3
    <3>. HIDE DEF g
    <3>. QED BY <2>2, <3>4 DEF y
  <2>. QED BY <2>1, <2>2
<1>2. g = [T \in SUBSET S |-> g[T]]
  OBVIOUS
<1>. HIDE DEF g
<1>3. g = [T \in SUBSET S |->
            IF T = {} THEN 0
            ELSE f[CHOOSE x \in T : TRUE] + g[T \ {CHOOSE x \in T : TRUE}]]
  BY <1>1, <1>2, Zenon
<1>4. IsSum(g, f, S)
  BY <1>3, Zenon DEF IsSum
<1>. QED BY <1>4 DEF g

\* The equation of the sum has one solution.
LEMMA SumsAgree ==
    ASSUME NEW S, IsFiniteSet(S), NEW f, NEW g, NEW h, IsSum(g, f, S), IsSum(h, f, S),
           NEW T \in SUBSET S
    PROVE  g[T] = h[T]
<1>. DEFINE Bad == {U \in SUBSET S : g[U] # h[U]}
<1>. SUFFICES ASSUME Bad # {} PROVE FALSE
  OBVIOUS
<1>1. IsWellFoundedOn(StrictSubsetOrdering(S), SUBSET S)
  BY FS_StrictSubsetOrderingWellFounded, FS_FiniteSubsetsOfFinite
<1>2. PICK U \in Bad : \A V \in Bad : ~ (<<V, U>> \in StrictSubsetOrdering(S))
  <2>1. Bad \subseteq SUBSET S
    OBVIOUS
  <2>. HIDE DEF Bad
  <2>. QED BY <1>1, <2>1, WFMin
<1>3. /\ g[U] = IF U = {} THEN 0 ELSE f[CHOOSE x \in U : TRUE] + g[U \ {CHOOSE x \in U : TRUE}]
      /\ h[U] = IF U = {} THEN 0 ELSE f[CHOOSE x \in U : TRUE] + h[U \ {CHOOSE x \in U : TRUE}]
  BY Zenon DEF IsSum
<1>4. U # {}
  BY <1>3
<1>. DEFINE y == CHOOSE x \in U : TRUE
<1>5. y \in U
  BY <1>4
<1>6. g[U] = f[y] + g[U \ {y}] /\ h[U] = f[y] + h[U \ {y}]
  BY <1>3, <1>4, Zenon
<1>. HIDE DEF y
<1>7. <<U \ {y}, U>> \in StrictSubsetOrdering(S)
  BY <1>5 DEF StrictSubsetOrdering
<1>8. g[U \ {y}] = h[U \ {y}]
  BY <1>2, <1>7
<1>. QED BY <1>6, <1>8

--------------------------------------------------------------------------------
\* What each occupant of node n asks for, and the units they ask for together.
Requested(a, n, field) == [i \in Occupants(a, n) |-> a[i].resources[field]]

Used(a, n, field) == Cardinality(Slots(Requested(a, n, field), Occupants(a, n)))

\* The function the fold chooses counts the units requested.
LEMMA SumIsUsed ==
    ASSUME NEW a, NEW n, NEW field, IsFiniteSet(Occupants(a, n)),
           \A i \in Occupants(a, n) : a[i].resources[field] \in Nat
    PROVE  (CHOOSE g : g = [T \in SUBSET Occupants(a, n) |->
                  IF T = {} THEN 0
                  ELSE a[CHOOSE x \in T : TRUE].resources[field]
                         + g[T \ {CHOOSE x \in T : TRUE}]])[Occupants(a, n)]
             = Used(a, n, field)
<1>. DEFINE S == Occupants(a, n)
            f == Requested(a, n, field)
            count == [T \in SUBSET S |-> Cardinality(Slots(f, T))]
            next(T, g) == IF T = {} THEN 0
                          ELSE a[CHOOSE x \in T : TRUE].resources[field]
                                 + g[T \ {CHOOSE x \in T : TRUE}]
            sum == CHOOSE g : g = [T \in SUBSET S |-> next(T, g)]
<1>2. \A i \in S : f[i] = a[i].resources[field] /\ f[i] \in Nat
  BY DEF Requested
<1>. HIDE DEF S, f
<1>3. ASSUME NEW g
      PROVE  IsSum(g, f, S) <=> g = [T \in SUBSET S |-> next(T, g)]
  <2>1. ASSUME NEW T \in SUBSET S
        PROVE  next(T, g) = IF T = {} THEN 0
                            ELSE f[CHOOSE x \in T : TRUE] + g[T \ {CHOOSE x \in T : TRUE}]
    <3>1. CASE T = {}
      BY <3>1
    <3>2. CASE T # {}
      <4>1. (CHOOSE x \in T : TRUE) \in S
        BY <3>2
      <4>. QED BY <1>2, <4>1
    <3>. QED BY <3>1, <3>2
  <2>. HIDE DEF next
  <2>. QED BY <2>1, Zenon DEF IsSum
<1>4. IsSum(count, f, S)
  BY <1>2, CountingSums DEF S
<1>5. sum = [T \in SUBSET S |-> next(T, sum)]
  <2>. HIDE DEF next, count
  <2>1. \E g : g = [T \in SUBSET S |-> next(T, g)]
    BY <1>3, <1>4
  <2>. QED BY <2>1, Zenon
<1>6. IsSum(sum, f, S)
  BY <1>3, <1>5
<1>. HIDE DEF sum, count
<1>7. sum[S] = count[S]
  BY <1>4, <1>6, SumsAgree DEF S
<1>. QED BY <1>7 DEF count, S, f, sum, Used

\* The rows that occupy node n are finitely many and ask for natural amounts.
Accountable(a, n) ==
    /\ IsFiniteSet(Occupants(a, n))
    /\ \A i \in Occupants(a, n) : a[i].resources \in ResourceRequirements

\* UsedCPU counts the CPU units requested on the node.
LEMMA UsedCPUIsCount ==
    ASSUME NEW a, NEW n, Accountable(a, n)
    PROVE  UsedCPU(a, n) = Used(a, n, "cpu")
<1>1. UsedCPU(a, n) = (CHOOSE g : g = [T \in SUBSET Occupants(a, n) |->
                  IF T = {} THEN 0
                  ELSE a[CHOOSE x \in T : TRUE].resources["cpu"]
                         + g[T \ {CHOOSE x \in T : TRUE}]])[Occupants(a, n)]
  BY Zenon DEF UsedCPU, MapThenSumSet, MapThenFoldSet
<1>2. IsFiniteSet(Occupants(a, n)) /\ \A i \in Occupants(a, n) : a[i].resources["cpu"] \in Nat
  BY DEF Accountable, ResourceRequirements
<1>. QED BY <1>1, <1>2, SumIsUsed, Zenon

\* UsedMemory counts the memory units requested on the node.
LEMMA UsedMemoryIsCount ==
    ASSUME NEW a, NEW n, Accountable(a, n)
    PROVE  UsedMemory(a, n) = Used(a, n, "memory")
<1>1. UsedMemory(a, n) = (CHOOSE g : g = [T \in SUBSET Occupants(a, n) |->
                  IF T = {} THEN 0
                  ELSE a[CHOOSE x \in T : TRUE].resources["memory"]
                         + g[T \ {CHOOSE x \in T : TRUE}]])[Occupants(a, n)]
  BY Zenon DEF UsedMemory, MapThenSumSet, MapThenFoldSet
<1>2. IsFiniteSet(Occupants(a, n)) /\ \A i \in Occupants(a, n) : a[i].resources["memory"] \in Nat
  BY DEF Accountable, ResourceRequirements
<1>. QED BY <1>1, <1>2, SumIsUsed, Zenon

\* Every occupant asks for a natural number of units of either kind.
LEMMA RequestsAreNatural ==
    ASSUME NEW a, NEW n, Accountable(a, n), NEW field \in {"cpu", "memory"}
    PROVE  \A i \in Occupants(a, n) : Requested(a, n, field)[i] \in Nat
<1>1. ASSUME NEW r \in ResourceRequirements PROVE r["cpu"] \in Nat /\ r["memory"] \in Nat
  BY DEF ResourceRequirements
<1>. QED BY <1>1 DEF Accountable, Requested

\* The units requested are a natural number.
LEMMA UsedType ==
    ASSUME NEW a, NEW n, Accountable(a, n), NEW field \in {"cpu", "memory"}
    PROVE  /\ IsFiniteSet(Slots(Requested(a, n, field), Occupants(a, n)))
           /\ Used(a, n, field) \in Nat
<1>1. IsFiniteSet(Slots(Requested(a, n, field), Occupants(a, n)))
  BY RequestsAreNatural, SlotsFinite DEF Accountable
<1>. QED BY <1>1, FS_CardinalityType DEF Used

\* Rows that go or stop being active free what they used; nothing else does.
LEMMA FewerUseLess ==
    ASSUME NEW a, NEW b, NEW n, Accountable(a, n), Accountable(b, n),
           Occupants(a, n) \subseteq Occupants(b, n),
           \A i \in Occupants(a, n) : a[i].resources = b[i].resources
    PROVE  /\ UsedCPU(a, n) \in Nat /\ UsedCPU(b, n) \in Nat /\ UsedCPU(a, n) <= UsedCPU(b, n)
           /\ UsedMemory(a, n) \in Nat /\ UsedMemory(b, n) \in Nat
           /\ UsedMemory(a, n) <= UsedMemory(b, n)
<1>1. ASSUME NEW field \in {"cpu", "memory"}
      PROVE  Used(a, n, field) <= Used(b, n, field)
  <2>1. Slots(Requested(a, n, field), Occupants(a, n))
          \subseteq Slots(Requested(b, n, field), Occupants(b, n))
    BY DEF Slots, Requested
  <2>. QED BY <2>1, UsedType, FS_Subset DEF Used
<1>2. /\ Used(a, n, "cpu") \in Nat /\ Used(b, n, "cpu") \in Nat
      /\ Used(a, n, "memory") \in Nat /\ Used(b, n, "memory") \in Nat
  BY UsedType
<1>. QED BY <1>1, <1>2, UsedCPUIsCount, UsedMemoryIsCount

\* A new row on the node uses what it asks for on top of the others.
LEMMA OneMoreUsesMore ==
    ASSUME NEW a, NEW b, NEW n, NEW id, Accountable(a, n), Accountable(b, n),
           Occupants(a, n) = Occupants(b, n) \cup {id}, id \notin Occupants(b, n),
           \A i \in Occupants(b, n) : a[i].resources = b[i].resources
    PROVE  /\ UsedCPU(a, n) = UsedCPU(b, n) + a[id].resources.cpu
           /\ UsedMemory(a, n) = UsedMemory(b, n) + a[id].resources.memory
<1>1. ASSUME NEW field \in {"cpu", "memory"}
      PROVE  Used(a, n, field) = a[id].resources[field] + Used(b, n, field)
  <2>. DEFINE f == Requested(a, n, field)
              S == Occupants(a, n)
  <2>1. S \ {id} = Occupants(b, n)
    OBVIOUS
  <2>2. Slots(f, S \ {id}) = Slots(Requested(b, n, field), Occupants(b, n))
    BY <2>1 DEF Slots, Requested
  <2>3. IsFiniteSet(Slots(f, S \ {id})) /\ \A i \in S : f[i] \in Nat
    BY <2>2, UsedType, RequestsAreNatural
  <2>4. f[id] = a[id].resources[field]
    BY DEF Requested
  <2>. HIDE DEF f, S
  <2>5. Cardinality(Slots(f, S)) = f[id] + Cardinality(Slots(f, S \ {id}))
    BY <2>3, SlotsOfOne DEF S
  <2>. QED BY <2>2, <2>4, <2>5 DEF Used, f, S
<1>2. a[id].resources \in ResourceRequirements
  BY DEF Accountable
<1>3. a[id].resources["cpu"] \in Nat /\ a[id].resources["memory"] \in Nat
  BY <1>2 DEF ResourceRequirements
<1>4. Used(b, n, "cpu") \in Nat /\ Used(b, n, "memory") \in Nat
  BY UsedType
<1>5. /\ Used(a, n, "cpu") = a[id].resources["cpu"] + Used(b, n, "cpu")
      /\ Used(a, n, "memory") = a[id].resources["memory"] + Used(b, n, "memory")
  BY <1>1
<1>. QED BY <1>3, <1>4, <1>5, UsedCPUIsCount, UsedMemoryIsCount

--------------------------------------------------------------------------------
\* A set of natural numbers has a least member.
LEMMA LeastExists ==
    ASSUME NEW S \in SUBSET Nat, S # {}
    PROVE  \E n \in S : \A m \in S : n <= m
<1>1. PICK n \in S : \A m \in S : ~ (<<m, n>> \in OpToRel(<, Nat))
  BY NatLessThanWellFounded, WFMin
<1>2. \A m \in S : ~ (m < n)
  BY <1>1 DEF OpToRel
<1>. QED BY <1>2

\* ChooseNode returns the eligible live node with the least ID, one node and no
\* more, exactly when some live node matches, has room and has the ports free;
\* it reports ErrNoEligibleNode in no other case.
LEMMA FirstFit ==
    ASSUME NEW live \in SUBSET Node, NEW nodes, NEW assignments, NEW req, NEW placement, NEW ports
    PROVE  LET eligible == Eligible(live, nodes, assignments, req, placement, ports)
               chosen == ChooseNode(live, nodes, assignments, req, placement, ports)
           IN  /\ chosen = {} <=> eligible = {}
               /\ \A n \in chosen : chosen = {n} /\ n \in eligible /\ \A m \in eligible : n <= m
<1>. DEFINE eligible == Eligible(live, nodes, assignments, req, placement, ports)
            chosen == ChooseNode(live, nodes, assignments, req, placement, ports)
<1>1. eligible \subseteq Nat
  BY NamesAssumption DEF Eligible
<1>2. chosen = {n \in eligible : \A m \in eligible : n <= m}
  BY DEF ChooseNode
<1>. HIDE DEF eligible, chosen
<1>3. chosen = {} <=> eligible = {}
  BY <1>1, <1>2, LeastExists
<1>4. \A n \in chosen : chosen = {n} /\ n \in eligible /\ \A m \in eligible : n <= m
  <2>1. ASSUME NEW n \in chosen, NEW k \in chosen PROVE k = n
    BY <1>1, <1>2
  <2>. QED BY <1>2, <2>1
<1>. QED BY <1>3, <1>4 DEF eligible, chosen
================================================================================
