---------------------------- MODULE ToolCallProofs ----------------------------
(***************************************************************************)
(* Theorems about what becomes of a tool call: about Arguments, which      *)
(* reads it, for any amounts, days and words, and about Queries, which     *)
(* answers it, for any questions, rows and changes between the SELECTs.    *)
(***************************************************************************)
EXTENDS Queries, Arguments, LedgerOpsProofs, FiniteSetTheorems

----------------------------------------------------------------------------
(* Sums. *)

\* Each x of T, f[x] times.
Units(f, T) == {u \in T \X Nat : u[2] < f[u[1]]}

\* One element more is as many units more as it has.
LEMMA UnitsOfMore ==
  ASSUME NEW S, NEW f \in [S -> Nat], NEW T \in SUBSET S, NEW x \in T,
         IsFiniteSet(Units(f, T \ {x}))
  PROVE  /\ IsFiniteSet(Units(f, T))
         /\ Cardinality(Units(f, T)) = f[x] + Cardinality(Units(f, T \ {x}))
<1> DEFINE old == Units(f, T \ {x})
           new == {u \in {x} \X Nat : u[2] < f[x]}
           pair == [i \in 1..f[x] |-> <<x, i - 1>>]
<1>1. f[x] \in Nat
  OBVIOUS
<1>2. pair \in Bijection(1..f[x], new)
  <2>1. \A i \in 1..f[x] : i - 1 \in Nat /\ i - 1 < f[x]
    BY <1>1
  <2>2. pair \in [1..f[x] -> new]
    BY <2>1
  <2>3. IsInjective(pair)
    BY <1>1 DEF IsInjective
  <2>4. \A u \in new : u[2] + 1 \in 1..f[x] /\ (u[2] + 1) - 1 = u[2] /\ u = <<x, u[2]>>
    BY <1>1
  <2>5. \A u \in new : \E i \in 1..f[x] : pair[i] = u
    BY <2>4
  <2> HIDE DEF pair, new
  <2> QED BY <2>2, <2>3, <2>5 DEF Bijection, Injection, Surjection
<1>3. IsFiniteSet(1..f[x]) /\ Cardinality(1..f[x]) = f[x]
  BY <1>1, FS_Interval
<1>4. IsFiniteSet(new) /\ Cardinality(new) = f[x]
  <2> HIDE DEF pair, new
  <2> QED BY <1>2, <1>3, FS_Bijection DEF ExistsBijection
<1>5. Units(f, T) = old \cup new /\ old \cap new = {}
  BY DEF Units
<1>6. Cardinality(old) \in Nat /\ Cardinality(old \cap new) = 0
  BY <1>5, FS_EmptySet, FS_CardinalityType
<1> HIDE DEF new, old
<1>7. IsFiniteSet(old)
  BY DEF old
<1>8. /\ IsFiniteSet(old \cup new)
      /\ Cardinality(old \cup new) = Cardinality(old) + Cardinality(new) - Cardinality(old \cap new)
  BY <1>4, <1>7, FS_Union
<1>9. Cardinality(old \cup new) = f[x] + Cardinality(old)
  BY <1>1, <1>4, <1>6, <1>8
<1> QED BY <1>5, <1>8, <1>9 DEF old

\* A finite set has finitely many units.
LEMMA UnitsAreFew ==
  ASSUME NEW S, IsFiniteSet(S), NEW f \in [S -> Nat], NEW T \in SUBSET S
  PROVE  IsFiniteSet(Units(f, T)) /\ Cardinality(Units(f, T)) \in Nat
<1> DEFINE N == {n \in Nat : \A U \in SUBSET S : Cardinality(U) = n => IsFiniteSet(Units(f, U))}
<1>1. Cardinality(S) \in Nat
  BY FS_CardinalityType
<1>2. 0 \in N
  <2> SUFFICES ASSUME NEW U \in SUBSET S, Cardinality(U) = 0 PROVE IsFiniteSet(Units(f, U))
    OBVIOUS
  <2>1. U = {}
    BY FS_Subset, FS_EmptySet
  <2>2. Units(f, U) = {}
    BY <2>1 DEF Units
  <2> QED BY <2>2, FS_EmptySet
<1>3. ASSUME NEW n \in 0..(Cardinality(S) - 1), n \in N PROVE n + 1 \in N
  <2> SUFFICES ASSUME NEW U \in SUBSET S, Cardinality(U) = n + 1 PROVE IsFiniteSet(Units(f, U))
    OBVIOUS
  <2>1. IsFiniteSet(U) /\ U # {}
    BY FS_Subset, FS_EmptySet
  <2>2. PICK x \in U : TRUE
    BY <2>1
  <2>3. Cardinality(U \ {x}) = Cardinality(U) - 1 /\ U \ {x} \in SUBSET S
    BY <2>1, <2>2, FS_RemoveElement
  <2>5. Cardinality(U \ {x}) = n
    BY <2>3
  <2>4. IsFiniteSet(Units(f, U \ {x}))
    BY <1>3, <2>3, <2>5
  <2> QED BY <2>4, UnitsOfMore
<1>4. Cardinality(T) \in 0..Cardinality(S)
  BY <1>1, FS_Subset, FS_CardinalityType
<1>5. 0..Cardinality(S) \subseteq N
  <2> HIDE DEF N
  <2> QED BY <1>1, <1>2, <1>3, SetInduction
<1> QED BY <1>4, <1>5, FS_CardinalityType

\* The sum of a function is the number of its units: its recursion goes down
\* from the whole set, one element at a time.
LEMMA SumIsUnits ==
  ASSUME NEW S, IsFiniteSet(S), NEW f \in [S -> Nat]
  PROVE  SumFunction(f) = Cardinality(Units(f, S))
<1> DEFINE first(T) == CHOOSE x \in T : TRUE
           Solves(g) == g = [T \in SUBSET S |->
                               IF T = {} THEN 0 ELSE f[first(T)] + g[T \ {first(T)}]]
           units == [T \in SUBSET S |-> Cardinality(Units(f, T))]
           sum == CHOOSE g : Solves(g)
<1>1. SumFunction(f) = sum[S]
  <2>1. DOMAIN f = S
    OBVIOUS
  <2> QED BY Zenon, <2>1 DEF SumFunction, SumFunctionOnSet, FoldFunctionOnSet, MapThenFoldSet
<1> HIDE DEF sum
<1>0. \A T \in SUBSET S : T # {} => first(T) \in T
  OBVIOUS
<1> HIDE DEF first
<1>2. Solves(units)
  <2> SUFFICES ASSUME NEW T \in SUBSET S
               PROVE  Cardinality(Units(f, T)) =
                        IF T = {} THEN 0
                        ELSE f[first(T)] + units[T \ {first(T)}]
    OBVIOUS
  <2>1. CASE T = {}
    <3>1. Units(f, T) = {}
      BY <2>1 DEF Units
    <3> QED BY <2>1, <3>1, FS_EmptySet
  <2>2. CASE T # {}
    <3>1. PICK x \in T : x = first(T)
      BY <1>0, <2>2
    <3>2. IsFiniteSet(Units(f, T \ {x}))
      BY UnitsAreFew
    <3> HIDE DEF units
    <3>3. units[T \ {x}] = Cardinality(Units(f, T \ {x}))
      BY DEF units
    <3>4. Cardinality(Units(f, T)) = f[x] + Cardinality(Units(f, T \ {x}))
      BY <3>2, UnitsOfMore
    <3> QED BY <2>2, <3>1, <3>3, <3>4
  <2> QED BY <2>1, <2>2
<1>3. Solves(sum)
  <2> HIDE DEF Solves
  <2> QED BY <1>2 DEF sum
<1>4. \A T \in SUBSET S : sum[T] = IF T = {} THEN 0 ELSE f[first(T)] + sum[T \ {first(T)}]
  BY <1>3
<1>5. \A T \in SUBSET S : units[T] = IF T = {} THEN 0 ELSE f[first(T)] + units[T \ {first(T)}]
  BY <1>2
<1> HIDE DEF Solves
<1> DEFINE N == {n \in Nat : \A U \in SUBSET S : Cardinality(U) = n => sum[U] = units[U]}
<1>6. Cardinality(S) \in Nat
  BY FS_CardinalityType
<1>7. 0 \in N
  <2> SUFFICES ASSUME NEW U \in SUBSET S, Cardinality(U) = 0 PROVE sum[U] = units[U]
    OBVIOUS
  <2>1. U = {}
    BY FS_Subset, FS_EmptySet
  <2> HIDE DEF units
  <2> QED BY <1>4, <1>5, <2>1
<1>8. ASSUME NEW n \in 0..(Cardinality(S) - 1), n \in N PROVE n + 1 \in N
  <2> SUFFICES ASSUME NEW U \in SUBSET S, Cardinality(U) = n + 1 PROVE sum[U] = units[U]
    OBVIOUS
  <2>1. IsFiniteSet(U) /\ U # {}
    BY FS_Subset, FS_EmptySet
  <2>2. PICK x \in U : x = first(U)
    BY <1>0, <2>1
  <2>3. Cardinality(U \ {x}) = Cardinality(U) - 1 /\ U \ {x} \in SUBSET S
    BY <2>1, <2>2, FS_RemoveElement
  <2>4. Cardinality(U \ {x}) = n
    BY <2>3
  <2> HIDE DEF units
  <2>5. sum[U \ {x}] = units[U \ {x}]
    BY <1>8, <2>3, <2>4
  <2>6. sum[U] = f[x] + sum[U \ {x}]
    BY <1>4, <2>1, <2>2
  <2>7. units[U] = f[x] + units[U \ {x}]
    BY <1>5, <2>1, <2>2
  <2> QED BY <2>5, <2>6, <2>7
<1>9. 0..Cardinality(S) \subseteq N
  <2> HIDE DEF N
  <2> QED BY <1>6, <1>7, <1>8, SetInduction
<1>10. Cardinality(S) \in 0..Cardinality(S)
  BY <1>6
<1>11. sum[S] = units[S]
  <2> HIDE DEF units
  <2> QED BY <1>9, <1>10
<1> QED BY <1>1, <1>11

\* The part of U under one key.
Part(U, key, k) == {u \in U : key[u] = k}

\* The parts of a set under all its keys are together as many as the set.
LEMMA SumOfParts ==
  ASSUME NEW U, IsFiniteSet(U), NEW K, IsFiniteSet(K), NEW key \in [U -> K],
         NEW n \in [K -> Nat], \A k \in K : n[k] = Cardinality(Part(U, key, k))
  PROVE  SumFunction(n) = Cardinality(U)
<1> DEFINE part(k) == Part(U, key, k)
           from == [k \in K |-> CHOOSE b : b \in Bijection(1..n[k], part(k))]
           place == [w \in Units(n, K) |-> from[w[1]][w[2] + 1]]
<1>1. \A k \in K : from[k] \in Bijection(1..n[k], part(k))
  <2> SUFFICES ASSUME NEW k \in K PROVE \E b : b \in Bijection(1..n[k], part(k))
    OBVIOUS
  <2>1. part(k) \in SUBSET U /\ n[k] = Cardinality(part(k))
    BY DEF Part
  <2> HIDE DEF part
  <2> QED BY <2>1, FS_Subset, FS_CardinalityType DEF ExistsBijection
<1> HIDE DEF from
<1>2. \A k \in K : from[k] \in [1..n[k] -> part(k)]
  <2> HIDE DEF part
  <2> QED BY <1>1 DEF Bijection, Surjection
<1>3. \A k \in K : \A i, j \in 1..n[k] : from[k][i] = from[k][j] => i = j
  <2> HIDE DEF part
  <2> QED BY <1>1, <1>2 DEF Bijection, Injection, IsInjective
<1>4. \A k \in K : \A u \in part(k) : \E i \in 1..n[k] : from[k][i] = u
  <2> HIDE DEF part
  <2> QED BY <1>1 DEF Bijection, Surjection
<1>5. \A w \in Units(n, K) : /\ w[1] \in K /\ w[2] \in Nat /\ w[2] + 1 \in 1..n[w[1]]
                             /\ w = <<w[1], w[2]>>
  BY DEF Units
<1>6. \A w \in Units(n, K) : place[w] \in U /\ key[place[w]] = w[1]
  <2> SUFFICES ASSUME NEW w \in Units(n, K)
               PROVE  from[w[1]][w[2] + 1] \in U /\ key[from[w[1]][w[2] + 1]] = w[1]
    OBVIOUS
  <2>1. from[w[1]][w[2] + 1] \in part(w[1])
    <3> HIDE DEF part
    <3> QED BY <1>2, <1>5
  <2> QED BY <2>1 DEF Part
<1>7. \A v, w \in Units(n, K) : place[v] = place[w] => v = w
  <2> SUFFICES ASSUME NEW v \in Units(n, K), NEW w \in Units(n, K), place[v] = place[w]
               PROVE  v = w
    OBVIOUS
  <2>1. v[1] = w[1]
    BY <1>6
  <2>2. v[2] + 1 = w[2] + 1
    BY <1>3, <1>5, <2>1
  <2>3. v[2] = w[2]
    BY <1>5, <2>2
  <2> QED BY <1>5, <2>1, <2>3
<1>8. \A u \in U : \E w \in Units(n, K) : place[w] = u
  <2> SUFFICES ASSUME NEW u \in U PROVE \E w \in Units(n, K) : place[w] = u
    OBVIOUS
  <2>1. PICK i \in 1..n[key[u]] : from[key[u]][i] = u
    BY <1>4 DEF Part
  <2>2. i - 1 \in Nat /\ i - 1 < n[key[u]] /\ (i - 1) + 1 = i
    BY <2>1
  <2> DEFINE w == <<key[u], i - 1>>
  <2>3. w \in Units(n, K)
    BY <2>2 DEF Units
  <2>4. place[w] = u
    BY <2>1, <2>2, <2>3
  <2> QED BY <2>3, <2>4
<1>9. place \in Bijection(Units(n, K), U)
  <2>1. place \in [Units(n, K) -> U]
    BY <1>6
  <2> HIDE DEF place
  <2> QED BY <1>7, <1>8, <2>1 DEF Bijection, Injection, Surjection, IsInjective
<1> HIDE DEF place
<1>10. IsFiniteSet(Units(n, K))
  BY UnitsAreFew
<1>11. Cardinality(U) = Cardinality(Units(n, K))
  BY <1>9, <1>10, FS_Bijection DEF ExistsBijection
<1> QED BY <1>11, SumIsUnits

\* The dong of the rows of one type, one by one.
Coins(table, ids, type) ==
  {u \in ids \X Nat : /\ table[u[1]].content.type = type
                      /\ u[2] < table[u[1]].content.amount}

\* What a row of the table holds.
LEMMA RowFacts ==
  ASSUME NEW table \in Seq(Row), NEW i \in DOMAIN table
  PROVE  /\ i \in 1..Len(table) /\ i \in Nat
         /\ table[i].scope \in Scopes /\ table[i].deleted \in BOOLEAN
         /\ table[i].content \in Contents
         /\ table[i].content.at \in Nat /\ table[i].content.amount \in Nat
         /\ table[i].content.type \in Types
<1>1. i \in 1..Len(table) /\ table[i] \in Row
  OBVIOUS
<1> QED
  BY <1>1, QueriesAssumption DEF Row, ValidInput

\* Any rows of a table are finitely many.
LEMMA TablesAreFinite ==
  ASSUME NEW table \in Seq(Row), NEW ids \in SUBSET DOMAIN table
  PROVE  IsFiniteSet(ids) /\ Cardinality(ids) \in Nat
<1>1. Len(table) \in Nat /\ DOMAIN table = 1..Len(table)
  OBVIOUS
<1>2. IsFiniteSet(DOMAIN table)
  BY <1>1, FS_Interval
<1> QED
  BY <1>2, FS_Subset, FS_CardinalityType

\* The sum of the amounts of a type is the number of its dong.
LEMMA AmountsAreCoins ==
  ASSUME NEW table \in Seq(Row), NEW ids \in SUBSET DOMAIN table, NEW type
  PROVE  /\ IsFiniteSet(Coins(table, ids, type))
         /\ Amounts(table, ids, type) = Cardinality(Coins(table, ids, type))
         /\ Amounts(table, ids, type) \in Nat
<1> DEFINE S == {i \in ids : table[i].content.type = type}
           f == [i \in S |-> table[i].content.amount]
<1>1. Amounts(table, ids, type) = SumFunction(f)
  BY Zenon DEF Amounts
<1>2. S \in SUBSET DOMAIN table /\ S \in SUBSET S
  OBVIOUS
<1>3. f \in [S -> Nat]
  BY RowFacts
<1>4. Units(f, S) = Coins(table, ids, type)
  BY DEF Units, Coins
<1>5. IsFiniteSet(S)
  <2> HIDE DEF S
  <2> QED BY <1>2, TablesAreFinite
<1> HIDE DEF S, f
<1> QED BY <1>1, <1>2, <1>3, <1>4, <1>5, SumIsUnits, UnitsAreFew

\* The sums of some rows, as numbers of rows and of dong.
LEMMA SumsAre ==
  ASSUME NEW table \in Seq(Row), NEW ids \in SUBSET DOMAIN table
  PROVE  LET sums == Sums(table, ids) IN
         /\ DOMAIN sums = {"count", "income", "expense"}
         /\ sums["count"] = Cardinality(ids) /\ sums["count"] \in Nat
         /\ \A type \in Types : /\ sums[type] = Cardinality(Coins(table, ids, type))
                                /\ sums[type] \in Nat
<1>1. Cardinality(ids) \in Nat
  BY TablesAreFinite
<1>2. \A type : /\ Amounts(table, ids, type) = Cardinality(Coins(table, ids, type))
                /\ Amounts(table, ids, type) \in Nat
  BY AmountsAreCoins
<1> QED
  BY <1>1, <1>2 DEF Sums, Types

\* Fewer rows of a table whose rows are those of another add up to no more.
LEMMA SumsOfFewer ==
  ASSUME NEW table \in Seq(Row), NEW more \in Seq(Row),
         NEW ids \in SUBSET DOMAIN table, NEW all \in SUBSET DOMAIN more, ids \subseteq all,
         \A i \in ids : table[i].content = more[i].content
  PROVE  \A field \in {"count", "income", "expense"} :
           Sums(table, ids)[field] <= Sums(more, all)[field]
<1>1. IsFiniteSet(all) /\ Cardinality(ids) <= Cardinality(all)
  BY TablesAreFinite, FS_Subset
<1>2. ASSUME NEW type
      PROVE  Cardinality(Coins(table, ids, type)) <= Cardinality(Coins(more, all, type))
  <2>1. Coins(table, ids, type) \in SUBSET Coins(more, all, type)
    BY DEF Coins
  <2> QED BY <2>1, AmountsAreCoins, FS_Subset
<1> QED
  BY <1>1, <1>2, SumsAre DEF Types

\* The number of elements of a disjoint union.
LEMMA DisjointUnion ==
  ASSUME NEW U, NEW V, IsFiniteSet(U), IsFiniteSet(V), U \cap V = {}
  PROVE  /\ Cardinality(U) \in Nat /\ Cardinality(V) \in Nat
         /\ Cardinality(U \cup V) = Cardinality(U) + Cardinality(V)
<1>1. Cardinality(U) \in Nat /\ Cardinality(V) \in Nat /\ Cardinality(U \cap V) = 0
  BY FS_CardinalityType, FS_EmptySet
<1>2. Cardinality(U \cup V) = Cardinality(U) + Cardinality(V) - Cardinality(U \cap V)
  BY FS_Union
<1> QED BY <1>1, <1>2

\* Two disjoint sets of rows add up to their union.
LEMMA SumsOfUnion ==
  ASSUME NEW table \in Seq(Row), NEW ids \in SUBSET DOMAIN table,
         NEW others \in SUBSET DOMAIN table, ids \cap others = {}
  PROVE  \A field \in {"count", "income", "expense"} :
           Sums(table, ids)[field] + Sums(table, others)[field]
             = Sums(table, ids \cup others)[field]
<1>1. ids \cup others \in SUBSET DOMAIN table
  OBVIOUS
<1>2. Cardinality(ids \cup others) = Cardinality(ids) + Cardinality(others)
  BY TablesAreFinite, DisjointUnion
<1>3. ASSUME NEW type
      PROVE  Cardinality(Coins(table, ids \cup others, type))
               = Cardinality(Coins(table, ids, type)) + Cardinality(Coins(table, others, type))
  <2> DEFINE mine == Coins(table, ids, type)
             rest == Coins(table, others, type)
  <2>1. Coins(table, ids \cup others, type) = mine \cup rest /\ mine \cap rest = {}
    BY DEF Coins
  <2>2. IsFiniteSet(mine) /\ IsFiniteSet(rest)
    BY AmountsAreCoins
  <2> HIDE DEF mine, rest
  <2>3. Cardinality(mine \cup rest) = Cardinality(mine) + Cardinality(rest)
    BY <2>1, <2>2, DisjointUnion
  <2> QED BY <2>1, <2>3 DEF mine, rest
<1>4. ASSUME NEW field \in {"count", "income", "expense"}
      PROVE  Sums(table, ids)[field] + Sums(table, others)[field]
               = Sums(table, ids \cup others)[field]
  <2>1. CASE field = "count"
    BY <1>1, <1>2, <2>1, SumsAre
  <2>2. CASE field \in Types
    <3>1. /\ Sums(table, ids)[field] = Cardinality(Coins(table, ids, field))
          /\ Sums(table, others)[field] = Cardinality(Coins(table, others, field))
          /\ Sums(table, ids \cup others)[field] = Cardinality(Coins(table, ids \cup others, field))
      BY <1>1, <2>2, SumsAre
    <3> QED BY <1>3, <3>1
  <2> QED BY <2>1, <2>2 DEF Types
<1> QED
  BY <1>4

\* What a query asks for is in the table.
LEMMA WhereIsInTable ==
  ASSUME NEW table \in Seq(Row), NEW scope, NEW q, NEW start, NEW end
  PROVE  Where(table, scope, q, start, end) \in SUBSET DOMAIN table
BY DEF Where

\* The groups of a table add up to the sums over all its rows.
LEMMA GroupsAddUp ==
  ASSUME NEW table \in Seq(Row), NEW q, NEW scope
  PROVE  Added(Groups(table, q, scope)) = Sums(table, Wanted(table, q, scope))
<1> DEFINE ids == Wanted(table, q, scope)
           key(i) == Key(table[i].content, q.group)
           K == {key(i) : i \in ids}
           part(k) == {i \in ids : key(i) = k}
           groups == Groups(table, q, scope)
<1>1. ids \in SUBSET DOMAIN table /\ \A k \in K : part(k) \in SUBSET DOMAIN table
  BY WhereIsInTable DEF Wanted
<1>2. IsFiniteSet(ids) /\ Cardinality(ids) \in Nat
  BY <1>1, TablesAreFinite
<1>3. IsFiniteSet(K)
  <2> DEFINE image == [i \in ids |-> key(i)]
  <2>1. image \in [ids -> K] /\ \A k \in K : \E i \in ids : image[i] = k
    OBVIOUS
  <2> HIDE DEF image, K, ids
  <2>2. image \in Surjection(ids, K)
    BY <2>1 DEF Surjection
  <2> QED BY <1>2, <2>2, FS_Surjection
<1>4. DOMAIN groups = K /\ \A k \in K : groups[k] = Sums(table, part(k))
  BY DEF Groups
<1>5. ASSUME NEW field, NEW U, IsFiniteSet(U), NEW keys \in [U -> K],
             \A k \in K : /\ Sums(table, part(k))[field] = Cardinality(Part(U, keys, k))
                          /\ Sums(table, part(k))[field] \in Nat
      PROVE  SumFunction([k \in DOMAIN groups |-> groups[k][field]]) = Cardinality(U)
  <2> DEFINE n == [k \in K |-> Sums(table, part(k))[field]]
  <2>1. n \in [K -> Nat] /\ \A k \in K : n[k] = Cardinality(Part(U, keys, k))
    BY <1>5
  <2>2. [k \in DOMAIN groups |-> groups[k][field]] = n
    BY <1>4
  <2> HIDE DEF n, K, part, groups
  <2>3. SumFunction(n) = Cardinality(U)
    BY <1>3, <1>5, <2>1, SumOfParts
  <2> QED BY <2>2, <2>3
<1>6. ASSUME NEW field, field = "count"
      PROVE  SumFunction([k \in DOMAIN groups |-> groups[k][field]]) = Cardinality(ids)
  <2> DEFINE keys == [i \in ids |-> key(i)]
  <2>1. keys \in [ids -> K] /\ \A k \in K : part(k) = Part(ids, keys, k)
    BY DEF Part
  <2> HIDE DEF groups, K, part, ids, keys
  <2>2. \A k \in K : /\ Sums(table, part(k))[field] = Cardinality(part(k))
                     /\ Sums(table, part(k))[field] \in Nat
    BY <1>1, <1>6, SumsAre
  <2>3. keys \in [ids -> K]
    BY <2>1
  <2>4. \A k \in K : /\ Sums(table, part(k))[field] = Cardinality(Part(ids, keys, k))
                     /\ Sums(table, part(k))[field] \in Nat
    BY <2>1, <2>2
  <2> QED BY <1>2, <1>5, <2>3, <2>4
<1>7. ASSUME NEW type \in Types
      PROVE  SumFunction([k \in DOMAIN groups |-> groups[k][type]])
               = Cardinality(Coins(table, ids, type))
  <2> DEFINE U == Coins(table, ids, type)
             keys == [u \in U |-> key(u[1])]
  <2>1. keys \in [U -> K]
    BY DEF Coins
  <2>2. \A k \in K : Coins(table, part(k), type) = Part(U, keys, k)
    BY DEF Coins, Part
  <2>3. IsFiniteSet(U)
    BY <1>1, AmountsAreCoins
  <2> HIDE DEF groups, K, part, ids, U, keys
  <2>4. \A k \in K : /\ Sums(table, part(k))[type] = Cardinality(Coins(table, part(k), type))
                     /\ Sums(table, part(k))[type] \in Nat
    BY <1>1, SumsAre
  <2>5. SumFunction([k \in DOMAIN groups |-> groups[k][type]]) = Cardinality(U)
    BY <1>5, <2>1, <2>2, <2>3, <2>4, SMTT(30)
  <2> QED BY <2>5 DEF U
<1>8. /\ Amounts(table, ids, "income") = Cardinality(Coins(table, ids, "income"))
      /\ Amounts(table, ids, "expense") = Cardinality(Coins(table, ids, "expense"))
  BY <1>1, AmountsAreCoins
<1> HIDE DEF groups, ids
<1>9. Added(groups) = [count |-> Cardinality(ids), income |-> Amounts(table, ids, "income"),
                       expense |-> Amounts(table, ids, "expense")]
  BY <1>6, <1>7, <1>8, Zenon DEF Added, Types
<1> QED BY <1>9 DEF Sums, groups, ids

----------------------------------------------------------------------------
(* Listings. *)

\* A finite set has a listing in any strict total order: number the elements
\* by how many come before them.
LEMMA SortedListing ==
  ASSUME NEW S, IsFiniteSet(S), NEW R \in SUBSET (S \X S),
         \A x \in S : <<x, x>> \notin R,
         \A x, y, z \in S : <<x, y>> \in R /\ <<y, z>> \in R => <<x, z>> \in R,
         \A x, y \in S : x # y => <<x, y>> \in R \/ <<y, x>> \in R
  PROVE  /\ Cardinality(S) \in Nat
         /\ \E s \in [1..Cardinality(S) -> S] :
              \A i, j \in 1..Cardinality(S) : i < j => <<s[i], s[j]>> \in R
<1> DEFINE below(x) == {y \in S : <<y, x>> \in R}
           n == Cardinality(S)
           rank == [x \in S |-> Cardinality(below(x)) + 1]
<1>1. n \in Nat
  BY FS_CardinalityType
<1>2. ASSUME NEW x \in S
      PROVE  IsFiniteSet(below(x)) /\ Cardinality(below(x)) \in Nat /\ Cardinality(below(x)) < n
  <2>1. below(x) \in SUBSET S /\ below(x) # S
    OBVIOUS
  <2> HIDE DEF below
  <2>2. IsFiniteSet(below(x)) /\ Cardinality(below(x)) <= n /\ Cardinality(below(x)) # n
    BY <2>1, FS_Subset
  <2>3. Cardinality(below(x)) \in Nat
    BY <2>2, FS_CardinalityType
  <2> QED
    BY <1>1, <2>2, <2>3
<1>3. ASSUME NEW x \in S, NEW y \in S, <<x, y>> \in R
      PROVE  rank[x] < rank[y]
  <2>1. below(x) \in SUBSET below(y) /\ below(x) # below(y)
    BY <1>3
  <2>2. /\ IsFiniteSet(below(y)) /\ Cardinality(below(y)) \in Nat
        /\ Cardinality(below(x)) \in Nat
    BY <1>2
  <2>3. rank[x] = Cardinality(below(x)) + 1 /\ rank[y] = Cardinality(below(y)) + 1
    OBVIOUS
  <2> HIDE DEF below, rank
  <2>4. Cardinality(below(x)) <= Cardinality(below(y)) /\ Cardinality(below(y)) # Cardinality(below(x))
    BY <2>1, <2>2, FS_Subset
  <2> QED
    BY <2>2, <2>3, <2>4
<1>4. rank \in [S -> 1..n]
  <2> SUFFICES ASSUME NEW x \in S PROVE Cardinality(below(x)) + 1 \in 1..n
    OBVIOUS
  <2> HIDE DEF below
  <2> QED
    BY <1>1, <1>2
<1>5. \A x, y \in S : rank[x] = rank[y] => x = y
  <2> SUFFICES ASSUME NEW x \in S, NEW y \in S, x # y PROVE rank[x] # rank[y]
    OBVIOUS
  <2>1. rank[x] \in 1..n /\ rank[y] \in 1..n
    BY <1>4
  <2>2. rank[x] < rank[y] \/ rank[y] < rank[x]
    <3>1. CASE <<x, y>> \in R
      BY <1>3, <3>1
    <3>2. CASE <<y, x>> \in R
      BY <1>3, <3>2
    <3> QED
      BY <3>1, <3>2
  <2> HIDE DEF rank
  <2> QED
    BY <1>1, <2>1, <2>2
<1> HIDE DEF rank
<1>6. rank \in Surjection(S, 1..n)
  <2>1. IsFiniteSet(1..n) /\ Cardinality(1..n) = n
    BY <1>1, FS_Interval
  <2>2. rank \in Injection(S, 1..n)
    BY <1>4, <1>5 DEF Injection, IsInjective
  <2> QED
    BY <2>1, <2>2, FS_Injection
<1>7. \A i \in 1..n : \E x \in S : rank[x] = i
  BY <1>6 DEF Surjection
<1> DEFINE s == [i \in 1..n |-> CHOOSE x \in S : rank[x] = i]
<1>8. \A i \in 1..n : s[i] \in S /\ rank[s[i]] = i
  BY <1>7
<1>9. s \in [1..n -> S]
  BY <1>8
<1> HIDE DEF s
<1>10. ASSUME NEW i \in 1..n, NEW j \in 1..n, i < j
       PROVE  <<s[i], s[j]>> \in R
  <2>1. s[i] \in S /\ s[j] \in S /\ rank[s[i]] = i /\ rank[s[j]] = j
    BY <1>8
  <2>2. s[i] # s[j]
    BY <1>1, <1>10, <2>1
  <2>3. CASE <<s[j], s[i]>> \in R
    BY <1>1, <1>3, <1>10, <2>1, <2>3
  <2> QED
    BY <2>1, <2>2, <2>3
<1> QED
  BY <1>1, <1>9, <1>10

\* Text order tells the seconds of two instants apart, as time does.
LEMMA SecondsInOrder ==
  ASSUME NEW a \in Nat, NEW b \in Nat
  PROVE  /\ TextKey(a) \in Int /\ Second(a) \in Nat
         /\ Second(a) < Second(b) => a < b /\ TextKey(a) < TextKey(b)
<1>1. ASSUME NEW t \in Nat, NEW s, NEW r, s = t \div 2, r = t % 2
      PROVE  s \in Nat /\ r \in 0..1 /\ t = 2 * s + r
  BY <1>1
<1>2. PICK s, r : s = a \div 2 /\ r = a % 2
  OBVIOUS
<1>3. PICK v, w : v = b \div 2 /\ w = b % 2
  OBVIOUS
<1>4. /\ s \in Nat /\ r \in 0..1 /\ a = 2 * s + r
      /\ v \in Nat /\ w \in 0..1 /\ b = 2 * v + w
  BY <1>1, <1>2, <1>3
<1>5. TextKey(a) = 2 * s + 1 - r /\ TextKey(b) = 2 * v + 1 - w /\ Second(a) = s /\ Second(b) = v
  BY <1>2, <1>3 DEF TextKey, Second
<1> QED
  BY <1>4, <1>5

\* ORDER BY occurred_at, id lists every row of a set once, in that order.
LEMMA ListingFacts ==
  ASSUME NEW table \in Seq(Row), NEW ids \in SUBSET DOMAIN table
  PROVE  LET list == Listing(table, ids) n == Cardinality(ids) IN
         /\ n \in Nat /\ list \in [1..n -> ids]
         /\ \A i, j \in 1..n : i < j => Earlier(table, list[i], list[j])
         /\ \A id \in ids : \E i \in 1..n : list[i] = id
<1> DEFINE n == Cardinality(ids)
           key(i) == TextKey(table[i].content.at)
           R == {p \in ids \X ids : Earlier(table, p[1], p[2])}
           InOrder(list) == \A i, j \in DOMAIN list : i < j => Earlier(table, list[i], list[j])
           list == Listing(table, ids)
<1>1. \A i \in ids : i \in Nat /\ key(i) \in Int
  BY RowFacts, SecondsInOrder
<1>2. \A i, j \in ids : Earlier(table, i, j) <=> key(i) < key(j) \/ (key(i) = key(j) /\ i < j)
  BY DEF Earlier
<1> HIDE DEF key
<1>3. \A x, y \in ids : <<x, y>> \in R <=> Earlier(table, x, y)
  OBVIOUS
<1>4. R \in SUBSET (ids \X ids)
  OBVIOUS
<1> HIDE DEF R
<1>5. \A x \in ids : <<x, x>> \notin R
  BY <1>1, <1>2, <1>3
<1>6. \A x, y, z \in ids : <<x, y>> \in R /\ <<y, z>> \in R => <<x, z>> \in R
  BY <1>1, <1>2, <1>3
<1>7. \A x, y \in ids : x # y => <<x, y>> \in R \/ <<y, x>> \in R
  BY <1>1, <1>2, <1>3
<1>8. IsFiniteSet(ids) /\ n \in Nat
  BY TablesAreFinite
<1>9. \E s \in [1..n -> ids] : \A i, j \in 1..n : i < j => <<s[i], s[j]>> \in R
  BY <1>4, <1>5, <1>6, <1>7, <1>8, SortedListing
<1>10. \E s \in [1..n -> ids] : InOrder(s)
  BY <1>3, <1>9
<1>11. list = CHOOSE s \in [1..n -> ids] : InOrder(s)
  BY DEF Listing
<1>12. list \in [1..n -> ids] /\ InOrder(list)
  <2> HIDE DEF InOrder, list, n
  <2> QED BY <1>10, <1>11
<1> HIDE DEF list
<1>13. \A i, j \in 1..n : i < j => Earlier(table, list[i], list[j])
  BY <1>12
<1>14. \A i, j \in 1..n : list[i] = list[j] => i = j
  <2> SUFFICES ASSUME NEW i \in 1..n, NEW j \in 1..n, i < j PROVE list[i] # list[j]
    BY <1>8
  <2>1. list[i] \in ids /\ list[j] \in ids /\ <<list[i], list[j]>> \in R
    BY <1>3, <1>12, <1>13
  <2> QED BY <1>5, <2>1
<1>15. list \in Injection(1..n, ids)
  BY <1>12, <1>14 DEF Injection, IsInjective
<1>16. list \in Surjection(1..n, ids)
  <2>1. Cardinality(1..n) = n
    BY <1>8, FS_Interval
  <2> QED BY <1>8, <1>15, <2>1, FS_Injection
<1>17. \A id \in ids : \E i \in 1..n : list[i] = id
  BY <1>16 DEF Surjection
<1> QED
  BY <1>8, <1>12, <1>13, <1>17 DEF list

\* A page is the latest rows, at most Limit of them.
LEMMA PageFacts ==
  ASSUME NEW table \in Seq(Row), NEW q, NEW scope
  PROVE  LET ids == Wanted(table, q, scope)
             list == Listing(table, ids)
             n == Cardinality(ids)
             page == Page(table, q, scope)
         IN /\ page \in Seq(ids) /\ Len(page) = IF n < Limit THEN n ELSE Limit
            /\ \A k \in 1..Len(page) : n - k + 1 \in 1..n /\ page[k] = list[n - k + 1]
<1> DEFINE ids == Wanted(table, q, scope)
           list == Listing(table, ids)
           n == Cardinality(ids)
           m == IF n < Limit THEN n ELSE Limit
           page == Page(table, q, scope)
<1>1. n \in Nat /\ list \in [1..n -> ids]
  BY ListingFacts, WhereIsInTable DEF Wanted
<1> HIDE DEF ids, n, list
<1>2. list \in Seq(ids) /\ Len(list) = n
  BY <1>1
<1>3. Limit \in Nat
  BY QueriesAssumption
<1>4. Reverse(list) = [k \in 1..n |-> list[n - k + 1]]
  BY <1>2 DEF Reverse
<1>5. \A k \in 1..n : n - k + 1 \in 1..n
  BY <1>1
<1>6. Reverse(list) \in Seq(ids) /\ Len(Reverse(list)) = n
  BY <1>1, <1>4, <1>5
<1>7. page = SubSeq(Reverse(list), 1, m)
  BY <1>6 DEF First, Page, ids, list
<1>8. page \in Seq(ids) /\ Len(page) = m /\ \A k \in 1..m : page[k] = Reverse(list)[k]
  <2>1. m \in Nat /\ m <= n
    BY <1>1, <1>3
  <2> HIDE DEF m
  <2> QED BY <1>1, <1>6, <1>7, <2>1, SubSeqProperties
<1>9. \A k \in 1..m : k \in 1..n
  BY <1>1, <1>3
<1> HIDE DEF page, m
<1>10. \A k \in 1..m : page[k] = list[n - k + 1]
  BY <1>4, <1>8, <1>9
<1> QED
  BY <1>5, <1>8, <1>9, <1>10 DEF ids, n, list, page, m

----------------------------------------------------------------------------
(* The inductive invariant. *)

\* b is a with some rows deleted.
Fewer(a, b) ==
  /\ DOMAIN b = DOMAIN a
  /\ \A i \in DOMAIN a : /\ b[i].scope = a[i].scope /\ b[i].content = a[i].content
                         /\ a[i].deleted => b[i].deleted

\* What the SELECTs of a question are for.
SelectKinds == {"count", "list", "all", "totals", "groups", "compared"}

\* What a SELECT answers on a table.
AnswerTo(kind, table, q, scope) ==
  CASE kind = "count"    -> Cardinality(Wanted(table, q, scope))
    [] kind = "list"     -> Page(table, q, scope)
    [] kind = "all"      -> Whole(table, q, scope)
    [] kind = "totals"   -> Sums(table, Wanted(table, q, scope))
    [] kind = "groups"   -> Groups(table, q, scope)
    [] kind = "compared" -> Sums(table, Where(table, scope, q, q.cstart, q.cend))

\* All that SELECTs answer.
Answers == {AnswerTo(kind, table, q, scope) :
              kind \in SelectKinds, table \in Seq(Row), q \in Questions, scope \in Scopes}

\* A turn with its request, its answers and the tables they were read from.
TurnIs(t) ==
  t = [phase |-> t.phase, scope |-> t.scope, q |-> t.q, found |-> t.found, seen |-> t.seen]

\* Every answer is true of the table its SELECT read, and the tables differ by
\* deletions alone.
TurnInv ==
  /\ TurnIs(turn)
  /\ turn.scope \in Scopes /\ turn.q \in Questions /\ Valid(turn.q)
  /\ turn.found \in Seq(Answers) /\ turn.seen \in Seq(Seq(Row))
  /\ Len(turn.seen) = Len(turn.found)
  /\ Len(turn.found) <= Len(Selects(turn.q))
  /\ turn.phase = "answered" <=> Len(turn.found) = Len(Selects(turn.q))
  /\ \A k \in 1..Len(turn.found) :
       turn.found[k] = AnswerTo(Selects(turn.q)[k], turn.seen[k], turn.q, turn.scope)
  /\ \A k, l \in 1..Len(turn.seen) : k <= l => Fewer(turn.seen[k], turn.seen[l])

\* While a turn runs the table has lost rows at most.
RowsInv ==
  turn.phase = "running" => \A k \in 1..Len(turn.seen) : Fewer(turn.seen[k], rows)

\* The inductive invariant of the queries.
IInv ==
  /\ rows \in Seq(Row)
  /\ turn.phase \in {"idle", "refused", "failed", "running", "answered"}
  /\ turn.phase \in {"running", "answered"} => TurnInv
  /\ RowsInv

\* The SELECTs of a question: at least one, and of the known kinds.
LEMMA SelectsFacts ==
  ASSUME NEW q \in Questions
  PROVE  Selects(q) \in Seq(SelectKinds) /\ Len(Selects(q)) \in 1..3
<1>1. q.kind \in {"search", "export", "statistics"}
  BY QueriesAssumption DEF Question
<1>2. CASE q.kind = "search"
  BY <1>2 DEF Selects, SelectKinds
<1>3. CASE q.kind = "export"
  BY <1>3 DEF Selects, SelectKinds
<1>4. CASE q.kind = "statistics"
  <2> DEFINE groups == IF q.group = "total" THEN <<>> ELSE <<"groups">>
             compared == IF q.cstart = None THEN <<>> ELSE <<"compared">>
  <2>1. Selects(q) = <<"totals">> \o groups \o compared
    BY <1>4 DEF Selects
  <2>2. groups = <<>> \/ groups = <<"groups">>
    OBVIOUS
  <2>3. compared = <<>> \/ compared = <<"compared">>
    OBVIOUS
  <2> HIDE DEF groups, compared
  <2>4. <<>> \in Seq(SelectKinds) /\ Len(<<>>) = 0
    OBVIOUS
  <2>6. ASSUME NEW kind \in SelectKinds PROVE <<kind>> \in Seq(SelectKinds) /\ Len(<<kind>>) = 1
    OBVIOUS
  <2>7. <<"totals">> \in Seq(SelectKinds) /\ Len(<<"totals">>) = 1
    BY <2>6, Zenon DEF SelectKinds
  <2>8. <<"groups">> \in Seq(SelectKinds) /\ Len(<<"groups">>) = 1
    BY <2>6, Zenon DEF SelectKinds
  <2>9. <<"compared">> \in Seq(SelectKinds) /\ Len(<<"compared">>) = 1
    BY <2>6, Zenon DEF SelectKinds
  <2>10. groups \in Seq(SelectKinds) /\ Len(groups) \in 0..1
    <3>1. groups \in Seq(SelectKinds) /\ (Len(groups) = 0 \/ Len(groups) = 1)
      BY <2>2, <2>4, <2>8, Zenon
    <3> QED BY <3>1
  <2>11. compared \in Seq(SelectKinds) /\ Len(compared) \in 0..1
    <3>1. compared \in Seq(SelectKinds) /\ (Len(compared) = 0 \/ Len(compared) = 1)
      BY <2>3, <2>4, <2>9, Zenon
    <3> QED BY <3>1
  <2>5. <<"totals">> \o groups \in Seq(SelectKinds) /\ Len(<<"totals">> \o groups) \in 1..2
    BY <2>7, <2>10, ConcatProperties
  <2> QED
    BY <2>1, <2>5, <2>11, ConcatProperties
<1> QED
  BY <1>1, <1>2, <1>3, <1>4

\* A table has fewer rows than itself, and than one with fewer.
LEMMA FewerFacts ==
  ASSUME NEW a \in Seq(Row), NEW b \in Seq(Row), NEW c \in Seq(Row)
  PROVE  Fewer(a, a) /\ (Fewer(a, b) /\ Fewer(b, c) => Fewer(a, c))
BY DEF Fewer

\* A change of the table leaves rows, and a deletion the same with one deleted.
LEMMA ChangeFacts ==
  ASSUME rows \in Seq(Row), NEW scope \in Scopes, NEW source \in Sources,
         NEW m \in Mutation, Change(scope, source, m)
  PROVE  /\ rows' \in Seq(Row)
         /\ m.kind = "delete" => Fewer(rows, rows')
<1> DEFINE d == [rows |-> rows, audit |-> <<>>, batches |-> [s \in Sources |-> None]]
<1>1. d \in Database
  BY DEF Database
<1>2. Applicable(d, scope, m) /\ rows' = RowsAfter(d, scope, source, m) /\ ValidMutation(m)
  BY DEF Change, Applicable, Owned, RowsAfter
<1>3. rows' \in Seq(Row)
  <2> HIDE DEF d
  <2> QED BY <1>1, <1>2, RowsAfterFacts
<1>4. ASSUME m.kind = "delete" PROVE Fewer(rows, rows')
  <2>1. rows' = [rows EXCEPT ![m.id].deleted = TRUE]
    BY <1>2, <1>4 DEF RowsAfter
  <2>2. \A i \in DOMAIN rows : rows[i] \in Row
    OBVIOUS
  <2>3. DOMAIN rows' = DOMAIN rows /\ \A i \in DOMAIN rows :
          rows'[i] = IF i = m.id THEN [rows[i] EXCEPT !.deleted = TRUE] ELSE rows[i]
    BY <2>1
  <2> QED
    BY <2>2, <2>3 DEF Fewer, Row
<1> QED
  BY <1>3, <1>4

\* It holds before anything is asked.
LEMMA InitIInv == Init => IInv
<1> SUFFICES ASSUME Init PROVE IInv
  OBVIOUS
<1>1. rows = <<>> /\ turn.phase = "idle"
  BY DEF Init, Idle
<1> QED
  BY <1>1 DEF IInv, RowsInv

\* A turn begins with no answers.
LEMMA AskKeeps ==
  ASSUME IInv, NEW scope \in Scopes, NEW q \in Questions, Ask(scope, q)
  PROVE  IInv'
<1>1. rows' = rows /\ rows \in Seq(Row)
  BY DEF Ask, IInv
<1>2. CASE Valid(q)
  <2>1. turn' = Running(scope, q)
    BY <1>2 DEF Ask
  <2>2. /\ turn'.phase = "running" /\ turn'.scope = scope /\ turn'.q = q
        /\ turn'.found = <<>> /\ turn'.seen = <<>> /\ TurnIs(turn')
    BY <2>1 DEF Running, TurnIs
  <2>3. Len(Selects(q)) \in 1..3
    BY SelectsFacts
  <2>4. /\ turn'.found \in Seq(Answers) /\ turn'.seen \in Seq(Seq(Row))
        /\ Len(turn'.found) = 0 /\ Len(turn'.seen) = 0
        /\ 1..Len(turn'.found) = {} /\ 1..Len(turn'.seen) = {}
    BY <2>2
  <2>5. TurnInv'
    <3>1. TurnIs(turn)' /\ turn'.scope \in Scopes /\ turn'.q \in Questions
      BY <1>2, <2>2 DEF TurnIs
    <3>2. Valid(turn.q)'
      BY <1>2, <2>2
    <3>3. Len(turn'.found) <= Len(Selects(turn'.q))
      BY <1>2, <2>2, <2>3, <2>4
    <3>4. ~ (turn'.phase = "answered")
      BY <2>2
    <3>8. Len(turn'.found) # Len(Selects(turn'.q))
      <4>1. Len(Selects(q)) # 0
        BY <2>3
      <4> QED BY <2>2, <2>4, <4>1
    <3>5. \A k \in 1..Len(turn'.found) :
            turn'.found[k] = AnswerTo(Selects(turn'.q)[k], turn'.seen[k], turn'.q, turn'.scope)
      BY <2>4, Zenon
    <3>6. \A k, l \in 1..Len(turn'.seen) : k <= l => Fewer(turn'.seen[k], turn'.seen[l])
      BY <2>4, Zenon
    <3>7. Len(turn'.seen) = Len(turn'.found)
      BY <2>4
    <3> QED BY <2>4, <3>1, <3>2, <3>3, <3>4, <3>5, <3>6, <3>7, <3>8, Zenon DEF TurnInv
  <2> QED
    BY <1>1, <2>2, <2>4, <2>5 DEF IInv, RowsInv
<1>3. CASE ~ Valid(q)
  <2>1. turn'.phase = "refused"
    BY <1>3 DEF Ask
  <2> QED
    BY <1>1, <2>1 DEF IInv, RowsInv
<1> QED
  BY <1>2, <1>3

\* A SELECT answers on the table as it is now.
LEMMA SelectKeeps ==
  ASSUME IInv, NEW kind \in SelectKinds,
         Select(kind, AnswerTo(kind, rows, turn.q, turn.scope))
  PROVE  IInv'
<1> DEFINE q == turn.q
           scope == turn.scope
           n == Len(turn.found)
           answer == AnswerTo(kind, rows, q, scope)
<1>1. /\ rows \in Seq(Row) /\ rows' = rows /\ turn.phase = "running"
      /\ TurnInv /\ RowsInv
      /\ Selects(q)[n + 1] = kind
      /\ turn' = [turn EXCEPT !.found = Append(@, answer), !.seen = Append(@, rows),
                              !.phase = IF n + 1 = Len(Selects(q)) THEN "answered" ELSE "running"]
  BY DEF IInv, Select
<1>2. /\ turn'.scope = scope /\ turn'.q = q
      /\ turn'.found = Append(turn.found, answer) /\ turn'.seen = Append(turn.seen, rows)
      /\ turn'.phase = (IF n + 1 = Len(Selects(q)) THEN "answered" ELSE "running")
      /\ TurnIs(turn')
  <2>1. TurnIs(turn)
    BY <1>1 DEF TurnInv
  <2> HIDE DEF answer, n, q
  <2> QED BY <1>1, <2>1 DEF TurnIs, scope, q
<1>3. /\ turn.found \in Seq(Answers) /\ turn.seen \in Seq(Seq(Row)) /\ Len(turn.seen) = n
      /\ scope \in Scopes /\ q \in Questions /\ Valid(q)
      /\ n < Len(Selects(q)) /\ Len(Selects(q)) \in 1..3 /\ n \in Nat
  BY <1>1, SelectsFacts DEF TurnInv
<1>4. answer \in Answers
  BY <1>1, <1>3 DEF Answers
<1> HIDE DEF answer
<1>5. /\ turn'.found \in Seq(Answers) /\ Len(turn'.found) = n + 1
      /\ \A k \in 1..n : turn'.found[k] = turn.found[k]
      /\ turn'.found[n + 1] = answer
  BY <1>2, <1>3, <1>4, AppendProperties
<1>6. /\ turn'.seen \in Seq(Seq(Row)) /\ Len(turn'.seen) = n + 1
      /\ \A k \in 1..n : turn'.seen[k] = turn.seen[k]
      /\ turn'.seen[n + 1] = rows
  BY <1>1, <1>2, <1>3, AppendProperties
<1>7. \A k \in 1..(n + 1) : k \in 1..n \/ k = n + 1
  BY <1>3
<1>8. \A k \in 1..(n + 1) : turn'.found[k] = AnswerTo(Selects(q)[k], turn'.seen[k], q, scope)
  <2>1. \A k \in 1..n : turn.found[k] = AnswerTo(Selects(q)[k], turn.seen[k], q, scope)
    BY <1>1 DEF TurnInv
  <2> QED BY <1>1, <1>5, <1>6, <1>7, <2>1 DEF answer
<1>9. \A k \in 1..(n + 1) : Fewer(turn'.seen[k], rows)
  <2>1. \A k \in 1..n : Fewer(turn.seen[k], rows)
    BY <1>1, <1>3 DEF RowsInv
  <2>2. Fewer(rows, rows)
    BY <1>1, FewerFacts
  <2> QED BY <1>6, <1>7, <2>1, <2>2
<1>10. \A k, l \in 1..(n + 1) : k <= l => Fewer(turn'.seen[k], turn'.seen[l])
  <2> SUFFICES ASSUME NEW k \in 1..(n + 1), NEW l \in 1..(n + 1), k <= l
               PROVE  Fewer(turn'.seen[k], turn'.seen[l])
    OBVIOUS
  <2>1. CASE l = n + 1
    BY <1>6, <1>9, <2>1
  <2>2. CASE l \in 1..n
    <3>1. k \in 1..n
      BY <1>3, <2>2
    <3>2. \A i, j \in 1..n : i <= j => Fewer(turn.seen[i], turn.seen[j])
      BY <1>1, <1>3 DEF TurnInv
    <3> QED BY <1>6, <2>2, <3>1, <3>2
  <2> QED BY <1>7, <2>1, <2>2
<1>11. TurnInv'
  <2>1. n + 1 <= Len(Selects(q)) /\ (turn'.phase = "answered" <=> n + 1 = Len(Selects(q)))
    BY <1>2, <1>3
  <2> HIDE DEF n, q, scope
  <2> QED BY <1>2, <1>3, <1>5, <1>6, <1>8, <1>10, <2>1 DEF TurnInv
<1>12. RowsInv'
  BY <1>1, <1>6, <1>9 DEF RowsInv
<1>13. turn'.phase \in {"running", "answered"}
  BY <1>2
<1> QED
  BY <1>1, <1>11, <1>12, <1>13 DEF IInv

\* A delete button pressed while the turn runs only deletes.
LEMMA PressKeeps ==
  ASSUME IInv, NEW scope \in Scopes, NEW source \in Sources, NEW id \in 1..MaxRows,
         Press(scope, source, id)
  PROVE  IInv'
<1> DEFINE m == [kind |-> "delete", id |-> id, content |-> None]
<1>1. m \in Mutation /\ m.kind = "delete"
  BY QueriesAssumption DEF Mutation, Kinds
<1>2. Change(scope, source, m) /\ turn' = turn
  BY DEF Press, Change
<1> HIDE DEF m
<1>3. rows' \in Seq(Row) /\ Fewer(rows, rows')
  BY <1>1, <1>2, ChangeFacts DEF IInv
<1>4. RowsInv'
  <2> SUFFICES ASSUME turn.phase = "running", NEW k \in 1..Len(turn.seen)
               PROVE  Fewer(turn.seen[k], rows')
    BY <1>2 DEF RowsInv
  <2>1. turn.seen[k] \in Seq(Row) /\ Fewer(turn.seen[k], rows) /\ rows \in Seq(Row)
    BY DEF IInv, TurnInv, RowsInv
  <2> QED
    BY <1>3, <2>1, FewerFacts
<1>5. TurnInv' = TurnInv
  BY <1>2 DEF TurnInv
<1> QED
  BY <1>2, <1>3, <1>4, <1>5 DEF IInv

\* Every step keeps it.
LEMMA NextIInv == IInv /\ [Next]_vars => IInv'
<1> SUFFICES ASSUME IInv, [Next]_vars PROVE IInv'
  OBVIOUS
<1>1. ASSUME NEW scope \in Scopes, NEW q \in Questions, Ask(scope, q) PROVE IInv'
  BY <1>1, AskKeeps
<1>2. CASE Count \/ List \/ ExportRows \/ Totals \/ GroupBy \/ Compare
  <2> DEFINE answer(kind) == AnswerTo(kind, rows, turn.q, turn.scope)
  <2>1. PICK kind \in SelectKinds : Select(kind, answer(kind))
    BY <1>2, Zenon DEF Count, List, ExportRows, Totals, GroupBy, Compare, AnswerTo, SelectKinds
  <2> QED BY <2>1, SelectKeeps
<1>3. CASE SelectFails \/ End
  <2>1. rows' = rows /\ turn'.phase \in {"failed", "idle"}
    BY <1>3 DEF SelectFails, End, Idle
  <2> QED BY <2>1 DEF IInv, RowsInv
<1>4. ASSUME NEW scope \in Scopes, NEW source \in Sources, NEW m \in Mutations,
             MessageBatch(scope, source, m)
      PROVE  IInv'
  <2>1. m \in Mutation /\ Change(scope, source, m) /\ turn' = turn /\ turn.phase = "idle"
    BY <1>4, QueriesAssumption DEF MessageBatch, Change, Idle
  <2>2. rows' \in Seq(Row)
    BY <2>1, ChangeFacts DEF IInv
  <2> QED BY <2>1, <2>2 DEF IInv, RowsInv
<1>5. ASSUME NEW scope \in Scopes, NEW source \in Sources, NEW id \in 1..MaxRows,
             Press(scope, source, id)
      PROVE  IInv'
  BY <1>5, PressKeeps
<1>6. CASE UNCHANGED vars
  <2>1. rows' = rows /\ turn' = turn
    BY <1>6 DEF vars
  <2>2. TurnInv' = TurnInv
    BY <2>1 DEF TurnInv
  <2> QED BY <2>1, <2>2 DEF IInv, RowsInv
<1> QED
  BY <1>1, <1>2, <1>3, <1>4, <1>5, <1>6 DEF Next

\* And so it always holds.
LEMMA Invariance == Spec => []IInv
BY InitIInv, NextIInv, PTL DEF Spec

\* It says what the table and the turn may be.
LEMMA TypesFollow == IInv => TypeOK
BY DEF IInv, TurnInv, TypeOK

\* Between the SELECTs of a turn the table and the turn keep their shape.
THEOREM TypeCorrect == Spec => []TypeOK
BY Invariance, TypesFollow, PTL

----------------------------------------------------------------------------
(* Statistics. *)

\* One SELECT more, or none.
LEMMA OneMore ==
  ASSUME NEW s \in Seq(SelectKinds), NEW kind \in SelectKinds
  PROVE  /\ s \o <<>> = s
         /\ s \o <<kind>> \in Seq(SelectKinds) /\ Len(s \o <<kind>>) = Len(s) + 1
         /\ (s \o <<kind>>)[Len(s) + 1] = kind
         /\ \A i \in 1..Len(s) : (s \o <<kind>>)[i] = s[i]
<1>1. <<kind>> \in Seq(SelectKinds) /\ Len(<<kind>>) = 1 /\ <<kind>>[1] = kind
  OBVIOUS
<1>2. s \o <<>> = s
  BY ConcatEmptySeq
<1> QED
  BY <1>1, <1>2, ConcatProperties

\* The SELECTs of a statistics question by their places.
LEMMA StatisticsSelects ==
  ASSUME NEW q \in Questions, q.kind = "statistics"
  PROVE  /\ Selects(q)[1] = "totals"
         /\ q.group # "total" => Len(Selects(q)) >= 2 /\ Selects(q)[2] = "groups"
         /\ q.cstart # None => Selects(q)[Len(Selects(q))] = "compared"
<1> DEFINE first == <<"totals">>
           two == first \o (IF q.group = "total" THEN <<>> ELSE <<"groups">>)
           three == two \o (IF q.cstart = None THEN <<>> ELSE <<"compared">>)
<1>1. Selects(q) = three
  BY DEF Selects
<1>2. "totals" \in SelectKinds /\ "groups" \in SelectKinds /\ "compared" \in SelectKinds
  BY DEF SelectKinds
<1>3. first \in Seq(SelectKinds) /\ Len(first) = 1 /\ first[1] = "totals"
  BY <1>2
<1> HIDE DEF first
<1>4. /\ two \in Seq(SelectKinds) /\ Len(two) >= 1 /\ two[1] = "totals"
      /\ q.group # "total" => Len(two) >= 2 /\ two[2] = "groups"
  <2>1. CASE q.group = "total"
    <3>1. two = first \o <<>>
      BY <2>1
    <3> HIDE DEF two
    <3>2. two = first
      BY <3>1, <1>2, <1>3, OneMore
    <3> QED BY <3>2, <1>3, <2>1
  <2>2. CASE q.group # "total"
    <3>1. two = first \o <<"groups">>
      BY <2>2
    <3> HIDE DEF two
    <3>2. /\ two \in Seq(SelectKinds) /\ Len(two) = Len(first) + 1
          /\ two[Len(first) + 1] = "groups" /\ \A i \in 1..Len(first) : two[i] = first[i]
      <4>1. first \in Seq(SelectKinds) /\ "groups" \in SelectKinds
        BY <1>2, <1>3
      <4> QED BY ONLY <3>1, <4>1, OneMore, Zenon
    <3> QED BY <3>2, <1>3
  <2> QED BY <2>1, <2>2
<1> HIDE DEF two
<1>5. CASE q.cstart = None
  BY <1>1, <1>2, <1>4, <1>5, OneMore
<1>6. CASE q.cstart # None
  BY <1>1, <1>2, <1>4, <1>6, OneMore
<1> QED
  BY <1>5, <1>6

\* What an answered turn holds.
LEMMA AnsweredTurn ==
  ASSUME IInv, turn.phase = "answered"
  PROVE  LET q == turn.q n == Len(Selects(q)) IN
         /\ q \in Questions /\ turn.scope \in Scopes /\ Valid(q)
         /\ n \in 1..3 /\ Len(turn.found) = n
         /\ \A k \in 1..n : /\ turn.seen[k] \in Seq(Row)
                            /\ turn.found[k] = AnswerTo(Selects(q)[k], turn.seen[k], q, turn.scope)
         /\ \A k, l \in 1..n : k <= l => Fewer(turn.seen[k], turn.seen[l])
<1>1. TurnInv
  BY DEF IInv
<1>2. Len(Selects(turn.q)) \in 1..3
  BY <1>1, SelectsFacts DEF TurnInv
<1> DEFINE n == Len(Selects(turn.q))
<1>3. n \in 1..3 /\ Len(turn.found) = n /\ Len(turn.seen) = n
  BY <1>1, <1>2, Zenon DEF TurnInv
<1>4. turn.q \in Questions /\ turn.scope \in Scopes /\ Valid(turn.q)
  BY <1>1, Zenon DEF TurnInv
<1>5. \A k \in 1..n : turn.seen[k] \in Seq(Row)
  <2>1. turn.seen \in Seq(Seq(Row))
    BY <1>1, Zenon DEF TurnInv
  <2> QED BY <2>1, <1>3
<1>6. \A k \in 1..n : turn.found[k] = AnswerTo(Selects(turn.q)[k], turn.seen[k], turn.q, turn.scope)
  BY <1>1, <1>3, Zenon DEF TurnInv
<1>7. \A k, l \in 1..n : k <= l => Fewer(turn.seen[k], turn.seen[l])
  BY <1>1, <1>3, Zenon DEF TurnInv
<1> QED
  BY <1>3, <1>4, <1>5, <1>6, <1>7, Zenon

\* A deletion adds nothing to what a query finds.
LEMMA WhereOfFewer ==
  ASSUME NEW a \in Seq(Row), NEW b \in Seq(Row), Fewer(a, b),
         NEW scope, NEW q, NEW start, NEW end
  PROVE  /\ Where(b, scope, q, start, end) \subseteq Where(a, scope, q, start, end)
         /\ \A i \in Where(b, scope, q, start, end) : b[i].content = a[i].content
BY DEF Fewer, Where, Matches

\* The groups add up to the totals of the table their SELECT read, which is
\* the one the totals were read from with some rows deleted.
LEMMA GroupsFollow == IInv => GroupsWithinTotals
<1> SUFFICES ASSUME IInv, Grouped PROVE GroupsWithinTotals
  BY DEF GroupsWithinTotals
<1> DEFINE q == turn.q
           scope == turn.scope
           before == turn.seen[1]
           after == turn.seen[2]
           all == Wanted(before, q, scope)
           ids == Wanted(after, q, scope)
           added == Added(turn.found[2])
           totals == turn.found[1]
<1>1. turn.phase = "answered" /\ q.kind = "statistics" /\ q.group # "total"
  BY DEF Grouped, Answered
<1>2. /\ q \in Questions /\ Len(Selects(q)) \in 1..3
      /\ \A k \in 1..Len(Selects(q)) :
           /\ turn.seen[k] \in Seq(Row)
           /\ turn.found[k] = AnswerTo(Selects(q)[k], turn.seen[k], q, scope)
      /\ \A k, l \in 1..Len(Selects(q)) : k <= l => Fewer(turn.seen[k], turn.seen[l])
  BY <1>1, AnsweredTurn
<1>3. /\ Selects(q)[1] = "totals" /\ Selects(q)[2] = "groups"
      /\ 1 \in 1..Len(Selects(q)) /\ 2 \in 1..Len(Selects(q))
  BY <1>1, <1>2, StatisticsSelects
<1>4. /\ before \in Seq(Row) /\ after \in Seq(Row) /\ Fewer(before, after)
      /\ totals = AnswerTo("totals", before, q, scope)
      /\ turn.found[2] = AnswerTo("groups", after, q, scope)
  BY <1>2, <1>3
<1>5. totals = Sums(before, all) /\ turn.found[2] = Groups(after, q, scope)
  BY <1>4 DEF AnswerTo
<1>6. added = Sums(after, ids)
  BY <1>4, <1>5, GroupsAddUp
<1>7. /\ ids \in SUBSET DOMAIN after /\ all \in SUBSET DOMAIN before
      /\ ids \subseteq all /\ \A i \in ids : after[i].content = before[i].content
  BY <1>4, WhereIsInTable, WhereOfFewer DEF Wanted
<1>8. before = after => added = totals
  BY <1>5, <1>6
<1> HIDE DEF all, ids, before, after
<1>9. \A field \in {"count", "income", "expense"} :
        Sums(after, ids)[field] <= Sums(before, all)[field]
  BY <1>4, <1>7, SumsOfFewer
<1>10. DOMAIN totals = {"count", "income", "expense"}
  BY <1>4, <1>5, <1>7, SumsAre
<1>11. \A field \in DOMAIN totals : added[field] <= totals[field]
  <2> HIDE DEF added, totals
  <2> QED BY <1>5, <1>6, <1>9, <1>10
<1> QED
  BY <1>8, <1>11 DEF GroupsWithinTotals, before, after

\* The groups of an answer add up to its totals, short of what a button
\* deleted between the two SELECTs.
THEOREM GroupsAreWithin == Spec => []GroupsWithinTotals
BY Invariance, GroupsFollow, PTL

\* The rows of the two periods are together rows of both in one, and those of
\* the later SELECT are fewer.
LEMMA PeriodsFollow == IInv => PeriodsAddUp
<1> DEFINE q == turn.q
           scope == turn.scope
           n == Len(turn.found)
           table == turn.seen[1]
           last == Where(table, scope, q, q.cstart, q.cend)
           this == Where(table, scope, q, q.start, q.end)
           both == Sums(table, Where(table, scope, q, q.cstart, q.end))
<1> SUFFICES ASSUME IInv, Answered("statistics"), q.cstart # None, q.cend = q.start,
                    turn.seen[1] = turn.seen[n],
                    Second(q.cstart) < Second(q.start), Second(q.start) < Second(q.end)
             PROVE  \A field \in DOMAIN both :
                      turn.found[1][field] + turn.found[n][field] = both[field]
  BY Zenon DEF PeriodsAddUp
<1>1. turn.phase = "answered" /\ q.kind = "statistics"
  BY DEF Answered
<1>2. /\ q \in Questions /\ Valid(q) /\ n \in 1..3 /\ n = Len(Selects(q)) /\ table \in Seq(Row)
      /\ turn.found[1] = AnswerTo(Selects(q)[1], table, q, scope)
      /\ turn.found[n] = AnswerTo(Selects(q)[n], table, q, scope)
  <2>1. n = Len(Selects(q))
    BY <1>1, AnsweredTurn
  <2>5. n \in 1..3
    BY <1>1, AnsweredTurn
  <2>2. 1 \in 1..n /\ n \in 1..n
    <3> HIDE DEF n
    <3> QED BY <2>5
  <2>3. \A k \in 1..n : /\ turn.seen[k] \in Seq(Row)
                        /\ turn.found[k] = AnswerTo(Selects(q)[k], turn.seen[k], q, scope)
    BY <1>1, <2>1, AnsweredTurn
  <2>4. q \in Questions /\ Valid(q)
    BY <1>1, AnsweredTurn
  <2> HIDE DEF n, q, scope
  <2> QED BY <2>1, <2>2, <2>3, <2>4, <2>5 DEF n
<1>3. Selects(q)[1] = "totals" /\ Selects(q)[n] = "compared"
  BY <1>1, <1>2, StatisticsSelects
<1>4. turn.found[1] = Sums(table, this) /\ turn.found[n] = Sums(table, last)
  BY <1>2, <1>3 DEF AnswerTo, Wanted
<1>5. q.cstart \in Nat /\ q.start \in Nat /\ q.end \in Nat
  <2>1. q.start # None /\ q.end # None
    BY <1>1, <1>2 DEF Valid, Ordered
  <2> QED BY <1>2, <2>1, QueriesAssumption DEF Question
<1>6. /\ TextKey(q.cstart) \in Int /\ TextKey(q.start) \in Int /\ TextKey(q.end) \in Int
      /\ TextKey(q.cstart) < TextKey(q.start) /\ TextKey(q.start) < TextKey(q.end)
  BY <1>5, SecondsInOrder
<1>7. \A i \in DOMAIN table : TextKey(table[i].content.at) \in Int
  BY <1>2, RowFacts, SecondsInOrder
<1>8. q.cstart # None /\ q.start # None
  BY <1>1, <1>2 DEF Valid, Ordered
<1>9. Where(table, scope, q, q.cstart, q.end) = last \cup this
  BY <1>6, <1>7, <1>8 DEF Where, Within
<1>10. last \cap this = {}
  BY <1>6, <1>7, <1>8 DEF Where, Within
<1>11. last \in SUBSET DOMAIN table /\ this \in SUBSET DOMAIN table
  BY <1>2, WhereIsInTable
<1> HIDE DEF last, this
<1>12. both = Sums(table, this \cup last) /\ DOMAIN both = {"count", "income", "expense"}
  <2>1. Where(table, scope, q, q.cstart, q.end) = this \cup last
    BY <1>9
  <2>2. this \cup last \in SUBSET DOMAIN table
    BY <1>11
  <2> QED BY <1>2, <2>1, <2>2, SumsAre
<1> HIDE DEF both, table
<1> QED
  BY <1>2, <1>4, <1>10, <1>11, <1>12, SumsOfUnion

\* Periods that meet lose no row and double none.
THEOREM PeriodsDoAddUp == Spec => []PeriodsAddUp
BY Invariance, PeriodsFollow, PTL

----------------------------------------------------------------------------
(* Listings are complete. *)

\* What a query of the turn finds lies between what it surely and what it
\* possibly holds.
LEMMA BetweenBounds ==
  ASSUME NEW table \in Seq(Row), turn.q \in Questions, Valid(turn.q), turn.q.kind # "statistics"
  PROVE  /\ Surely(table) \subseteq Wanted(table, turn.q, turn.scope)
         /\ Wanted(table, turn.q, turn.scope) \subseteq Possibly(table)
<1> DEFINE q == turn.q
           at(i) == table[i].content.at
<1>1. CASE q.start = None
  BY <1>1 DEF Surely, Possibly, Wanted, Where, Within, Inside
<1>2. CASE q.start # None
  <2>1. q.start \in Nat /\ q.end \in Nat
    <3>1. Ordered(q.start, q.end)
      BY <1>2 DEF Valid, Absent
    <3>2. q.end # None
      BY <3>1 DEF Ordered
    <3> QED BY <1>2, <3>2, QueriesAssumption DEF Question
  <2>2. ASSUME NEW i \in DOMAIN table
        PROVE  /\ Inside(at(i), q) /\ ~ AtBoundary(at(i), q) => Within(at(i), q.start, q.end)
               /\ Within(at(i), q.start, q.end) => Inside(at(i), q) \/ AtBoundary(at(i), q)
    <3>1. at(i) \in Nat
      BY RowFacts
    <3> HIDE DEF at, q
    <3>2. PICK t \in Nat : t = at(i)
      BY <3>1
    <3>3. /\ TextKey(t) \in Int /\ TextKey(q.start) \in Int /\ TextKey(q.end) \in Int
          /\ Second(t) \in Nat /\ Second(q.start) \in Nat /\ Second(q.end) \in Nat
          /\ Second(t) < Second(q.start) => t < q.start /\ TextKey(t) < TextKey(q.start)
          /\ Second(q.start) < Second(t) => q.start < t /\ TextKey(q.start) < TextKey(t)
          /\ Second(t) < Second(q.end) => t < q.end /\ TextKey(t) < TextKey(q.end)
          /\ Second(q.end) < Second(t) => q.end < t /\ TextKey(q.end) < TextKey(t)
      BY <2>1, SecondsInOrder
    <3>4. AtBoundary(t, q) <=> Second(t) = Second(q.start) \/ Second(t) = Second(q.end)
      BY <1>2 DEF AtBoundary, q
    <3>5. Inside(t, q) <=> q.start <= t /\ t < q.end
      BY <1>2 DEF Inside, q
    <3>6. Within(t, q.start, q.end) <=> TextKey(q.start) <= TextKey(t) /\ TextKey(t) < TextKey(q.end)
      BY <1>2 DEF Within, q
    <3>7. Inside(t, q) /\ ~ AtBoundary(t, q) => Within(t, q.start, q.end)
      BY <2>1, <3>3, <3>4, <3>5, <3>6 DEF q
    <3>8. Within(t, q.start, q.end) => Inside(t, q) \/ AtBoundary(t, q)
      BY <2>1, <3>3, <3>4, <3>5, <3>6 DEF q
    <3> QED BY <3>2, <3>7, <3>8
  <2> QED
    BY <2>2 DEF Surely, Possibly, Wanted, Where
<1> QED
  BY <1>1, <1>2

\* The seconds of a listing rise, and those of a page fall.
LEMMA EarlierSeconds ==
  ASSUME NEW table \in Seq(Row), NEW i \in DOMAIN table, NEW j \in DOMAIN table,
         Earlier(table, i, j)
  PROVE  At(table, i) <= At(table, j)
<1>1. /\ table[i].content.at \in Nat /\ table[j].content.at \in Nat /\ i \in Nat /\ j \in Nat
  BY RowFacts
<1>2. PICK a \in Nat, b \in Nat : a = table[i].content.at /\ b = table[j].content.at
  BY <1>1
<1>3. TextKey(a) \in Int /\ TextKey(b) \in Int /\ TextKey(a) <= TextKey(b)
  <2>1. TextKey(a) < TextKey(b) \/ TextKey(a) = TextKey(b)
    BY <1>2, Zenon DEF Earlier
  <2>2. TextKey(a) \in Int /\ TextKey(b) \in Int
    BY SecondsInOrder
  <2> QED BY <2>1, <2>2
<1>4. Second(a) \in Nat /\ Second(b) \in Nat /\ (Second(b) < Second(a) => TextKey(b) < TextKey(a))
  BY SecondsInOrder
<1>5. Second(a) <= Second(b)
  BY <1>3, <1>4
<1> QED
  BY <1>2, <1>5 DEF At

\* A search counts its rows first and lists the latest of what is left.
LEMMA SearchFollows ==
  ASSUME IInv, Answered("search")
  PROVE  LET total == turn.found[1]
             page  == turn.found[2]
             table == turn.seen[2]
             left  == Surely(table) \ ToSet(page)
         IN /\ ToSet(page) \subseteq Possibly(table)
            /\ \A i, j \in DOMAIN page : i < j => At(table, page[i]) >= At(table, page[j])
            /\ total <= Len(page) => left = {}
            /\ \A id \in left, k \in DOMAIN page : At(table, id) <= At(table, page[k])
            /\ total > Len(page) => Len(page) = Limit \/ turn.seen[1] # table
<1> DEFINE q == turn.q
           scope == turn.scope
           total == turn.found[1]
           page == turn.found[2]
           before == turn.seen[1]
           table == turn.seen[2]
           left == Surely(table) \ ToSet(page)
           ids == Wanted(table, q, scope)
           n == Cardinality(ids)
           list == Listing(table, ids)
           m == Len(page)
<1>1. /\ turn.phase = "answered" /\ q.kind = "search" /\ Selects(q) = <<"count", "list">>
  BY DEF Answered, Selects
<1>2. /\ q \in Questions /\ Valid(q) /\ before \in Seq(Row) /\ table \in Seq(Row)
      /\ total = AnswerTo("count", before, q, scope) /\ page = AnswerTo("list", table, q, scope)
      /\ Fewer(before, table)
  <2>1. Len(Selects(q)) = 2 /\ Selects(q)[1] = "count" /\ Selects(q)[2] = "list"
    BY <1>1
  <2>2. 1 \in 1..2 /\ 2 \in 1..2 /\ 1 <= 2
    OBVIOUS
  <2> QED BY <1>1, <2>1, <2>2, AnsweredTurn
<1>3. total = Cardinality(Wanted(before, q, scope)) /\ page = Page(table, q, scope)
  BY <1>2 DEF AnswerTo
<1>4. /\ n \in Nat /\ page \in Seq(ids) /\ m = IF n < Limit THEN n ELSE Limit
      /\ \A k \in 1..m : n - k + 1 \in 1..n /\ page[k] = list[n - k + 1]
      /\ list \in [1..n -> ids]
      /\ \A i, j \in 1..n : i < j => Earlier(table, list[i], list[j])
      /\ \A id \in ids : \E i \in 1..n : list[i] = id
  <2>1. ids \in SUBSET DOMAIN table
    BY <1>2, WhereIsInTable DEF Wanted
  <2>2. /\ n \in Nat /\ list \in [1..n -> ids]
        /\ \A i, j \in 1..n : i < j => Earlier(table, list[i], list[j])
        /\ \A id \in ids : \E i \in 1..n : list[i] = id
    <3> HIDE DEF ids, table
    <3> QED BY <1>2, <2>1, ListingFacts
  <2>3. /\ page \in Seq(ids) /\ m = IF n < Limit THEN n ELSE Limit
        /\ \A k \in 1..m : n - k + 1 \in 1..n /\ page[k] = list[n - k + 1]
    <3> HIDE DEF table, q, scope, page
    <3> QED BY <1>2, <1>3, PageFacts
  <2> QED BY <2>2, <2>3
<1>5. Surely(table) \subseteq ids /\ ids \subseteq Possibly(table)
  BY <1>1, <1>2, BetweenBounds
<1>6. ids \in SUBSET DOMAIN table
  BY <1>2, WhereIsInTable DEF Wanted
<1>7. Limit \in Nat
  BY QueriesAssumption
<1>8. n <= total /\ total \in Nat /\ (before = table => total = n)
  <2>1. ids \subseteq Wanted(before, q, scope) /\ Wanted(before, q, scope) \in SUBSET DOMAIN before
    BY <1>2, WhereOfFewer, WhereIsInTable DEF Wanted
  <2>2. before = table => total = n
    BY <1>3
  <2>3. IsFiniteSet(Wanted(before, q, scope)) /\ total \in Nat
    BY <1>2, <1>3, <2>1, TablesAreFinite
  <2> HIDE DEF ids, before, table, total
  <2> QED BY <1>3, <2>1, <2>2, <2>3, FS_Subset
<1>9. \A k \in 1..m : page[k] \in ids
  BY <1>4
<1>10. DOMAIN page = 1..m /\ ToSet(page) = {page[k] : k \in 1..m}
  <2> HIDE DEF page, ids
  <2>1. page \in Seq(ids)
    BY <1>4
  <2> QED BY <2>1 DEF ToSet
<1> HIDE DEF q, scope, total, page, before, table, ids, n, list, m
<1>11. ToSet(page) \subseteq Possibly(table)
  BY <1>5, <1>9, <1>10
<1>12. \A i, j \in 1..n : i < j => At(table, list[i]) <= At(table, list[j])
  <2> SUFFICES ASSUME NEW i \in 1..n, NEW j \in 1..n, i < j
               PROVE  At(table, list[i]) <= At(table, list[j])
    OBVIOUS
  <2>1. list[i] \in DOMAIN table /\ list[j] \in DOMAIN table
    BY <1>4, <1>6
  <2> QED BY <1>2, <1>4, <2>1, EarlierSeconds
<1>13. \A id \in DOMAIN table : At(table, id) \in Nat
  BY <1>2, RowFacts, SecondsInOrder DEF At
<1>14. \A k \in 1..m : k \in Nat /\ m \in Nat /\ m <= n
  BY <1>4, <1>7
<1>15. ASSUME NEW i \in 1..m, NEW j \in 1..m, i < j
       PROVE  At(table, page[i]) >= At(table, page[j])
  <2>1. /\ n - j + 1 \in 1..n /\ n - i + 1 \in 1..n /\ n - j + 1 < n - i + 1
        /\ page[i] = list[n - i + 1] /\ page[j] = list[n - j + 1]
    BY <1>4, <1>14, <1>15
  <2>2. At(table, list[n - j + 1]) <= At(table, list[n - i + 1])
    BY <1>12, <2>1
  <2>3. At(table, page[i]) \in Nat /\ At(table, page[j]) \in Nat
    BY <1>6, <1>9, <1>13
  <2> QED BY <2>1, <2>2, <2>3
<1>16. ASSUME NEW id \in left
       PROVE  \E i \in 1..(n - m) : list[i] = id
  <2>1. PICK i \in 1..n : list[i] = id
    BY <1>4, <1>5
  <2>2. ASSUME i > n - m PROVE FALSE
    <3>1. n - i + 1 \in 1..m /\ n - (n - i + 1) + 1 = i
      BY <1>4, <1>7, <2>1, <2>2
    <3>2. page[n - i + 1] = id
      BY <1>4, <2>1, <3>1
    <3> QED BY <1>10, <3>1, <3>2
  <2> QED BY <1>4, <1>7, <2>1, <2>2
<1>17. ASSUME total <= m PROVE left = {}
  <2>1. n - m = 0
    BY <1>4, <1>7, <1>8, <1>17
  <2> QED BY <1>16, <2>1
<1>18. ASSUME NEW id \in left, NEW k \in 1..m
       PROVE  At(table, id) <= At(table, page[k])
  <2>1. PICK i \in 1..(n - m) : list[i] = id
    BY <1>16
  <2>2. i \in 1..n /\ n - k + 1 \in 1..n /\ i < n - k + 1 /\ page[k] = list[n - k + 1]
    BY <1>4, <1>7, <2>1
  <2> QED BY <1>12, <2>1, <2>2
<1>19. ASSUME total > m, before = table PROVE m = Limit
  BY <1>4, <1>7, <1>8, <1>19
<1> QED
  BY <1>10, <1>11, <1>15, <1>17, <1>18, <1>19 DEF total, page, table, before, m

\* An export lists every row there is.
LEMMA ExportFollows ==
  ASSUME IInv, Answered("export")
  PROVE  LET list == turn.found[1] table == turn.seen[1]
         IN Surely(table) \subseteq ToSet(list) /\ ToSet(list) \subseteq Possibly(table)
<1> DEFINE q == turn.q
           scope == turn.scope
           table == turn.seen[1]
           ids == Wanted(table, q, scope)
           n == Cardinality(ids)
           list == Listing(table, ids)
<1>1. /\ turn.phase = "answered" /\ q.kind = "export" /\ Selects(q) = <<"all">>
  BY DEF Answered, Selects
<1>2. /\ q \in Questions /\ Valid(q) /\ table \in Seq(Row)
      /\ turn.found[1] = AnswerTo("all", table, q, scope)
  <2>1. Len(Selects(q)) = 1 /\ Selects(q)[1] = "all"
    BY <1>1
  <2>2. 1 \in 1..1
    OBVIOUS
  <2> QED BY <1>1, <2>1, <2>2, AnsweredTurn
<1>3. turn.found[1] = list
  BY <1>2 DEF AnswerTo, Whole
<1>4. n \in Nat /\ list \in [1..n -> ids] /\ \A id \in ids : \E i \in 1..n : list[i] = id
  BY <1>2, WhereIsInTable, ListingFacts DEF Wanted
<1>5. Surely(table) \subseteq ids /\ ids \subseteq Possibly(table)
  BY <1>1, <1>2, BetweenBounds
<1> HIDE DEF list, ids, n
<1>6. ToSet(list) = ids
  BY <1>4 DEF ToSet
<1> QED
  BY <1>3, <1>5, <1>6

\* A listing shows nothing else, and one that is not marked truncated shows
\* everything.
THEOREM CompleteListings == Spec => []ListingsAreComplete
<1>1. IInv => ListingsAreComplete
  BY SearchFollows, ExportFollows DEF ListingsAreComplete
<1> QED
  BY <1>1, Invariance, PTL

----------------------------------------------------------------------------
(* Amounts. *)

\* f holds the values after up to n steps.
Steps(f, n, S, first, next) ==
  f \in [0..n -> S] /\ f[0] = first /\ \A k \in 1..n : f[k] = next[<<f[k - 1], k>>]

\* A step taken n times from a first value.
LEMMA Iterates ==
  ASSUME NEW n \in Nat, NEW S, NEW first \in S, NEW next \in [S \X (1..n) -> S]
  PROVE  \E f : Steps(f, n, S, first, next)
<1> DEFINE Goes(f, m) == f[0] = first /\ \A k \in 1..m : f[k] = next[<<f[k - 1], k>>]
           N == {m \in Nat : \E f \in [0..m -> S] : Goes(f, m)}
<1>1. 0 \in N
  <2> DEFINE f == [k \in 0..0 |-> first]
  <2>1. f \in [0..0 -> S] /\ f[0] = first /\ 1..0 = {}
    OBVIOUS
  <2> QED BY <2>1
<1>2. ASSUME NEW m \in 0..(n - 1), m \in N PROVE m + 1 \in N
  <2>1. PICK g \in [0..m -> S] : Goes(g, m)
    BY <1>2
  <2>2. m \in Nat /\ m + 1 \in 1..n /\ m \in 0..m
    OBVIOUS
  <2> DEFINE f == [k \in 0..(m + 1) |-> IF k = m + 1 THEN next[<<g[m], m + 1>>] ELSE g[k]]
  <2>3. next[<<g[m], m + 1>>] \in S
    BY <2>2
  <2>4. f \in [0..(m + 1) -> S]
    BY <2>2, <2>3
  <2>5. \A k \in 0..m : k \in 0..(m + 1) /\ k # m + 1 /\ f[k] = g[k]
    BY <2>2
  <2>6. f[m + 1] = next[<<g[m], m + 1>>]
    BY <2>2
  <2> HIDE DEF f
  <2>7. f[0] = first
    BY <2>1, <2>2, <2>5
  <2>8. \A k \in 1..(m + 1) : f[k] = next[<<f[k - 1], k>>]
    <3> SUFFICES ASSUME NEW k \in 1..(m + 1) PROVE f[k] = next[<<f[k - 1], k>>]
      OBVIOUS
    <3>1. CASE k = m + 1
      <4>1. k - 1 = m
        BY <2>2, <3>1
      <4> QED BY <2>2, <2>5, <2>6, <3>1, <4>1
    <3>2. CASE k # m + 1
      <4>1. k \in 1..m /\ k \in 0..m /\ k - 1 \in 0..m
        BY <2>2, <3>2
      <4> QED BY <2>1, <2>5, <4>1
    <3> QED BY <3>1, <3>2
  <2> QED BY <2>2, <2>4, <2>7, <2>8
<1>3. 0..n \subseteq N
  <2> HIDE DEF N
  <2> QED BY <1>1, <1>2, SetInduction
<1>4. n \in N
  <2> HIDE DEF N
  <2> QED BY <1>3
<1> QED BY <1>4 DEF Steps

\* p holds the powers of b up to the n-th.
PowersTo(p, b, n) ==
  p \in [0..n -> Nat] /\ p[0] = 1 /\ \A k \in 1..n : p[k] = b * p[k - 1]

\* The power is the last of the recursion that defines it.
LEMMA RaisedIs ==
  ASSUME NEW b \in Nat, NEW n \in Nat
  PROVE  \E p : PowersTo(p, b, n) /\ Raised(b, n) = p[n]
<1> DEFINE Solves(p) == p = [k \in 0..n |-> IF k = 0 THEN 1 ELSE b * p[k - 1]]
           next == [x \in Nat \X (1..n) |-> b * x[1]]
<1>1. next \in [Nat \X (1..n) -> Nat]
  OBVIOUS
<1>2. PICK f : Steps(f, n, Nat, 1, next)
  <2> HIDE DEF next
  <2>1. \E f : Steps(f, n, Nat, 1, next)
    BY <1>1, Iterates
  <2> QED BY <2>1
<1>3. \A k \in 1..n : f[k] = b * f[k - 1]
  <2> SUFFICES ASSUME NEW k \in 1..n PROVE f[k] = b * f[k - 1]
    OBVIOUS
  <2>1. k - 1 \in 0..n
    OBVIOUS
  <2>2. <<f[k - 1], k>> \in Nat \X (1..n)
    BY <1>2, <2>1 DEF Steps
  <2> QED BY <1>2, <2>2 DEF Steps
<1>4. Solves(f)
  BY <1>2, <1>3 DEF Steps
<1> DEFINE p == CHOOSE p : Solves(p)
<1>5. Solves(p)
  <2> HIDE DEF Solves
  <2> QED BY <1>4
<1>6. Raised(b, n) = p[n]
  BY Zenon DEF Raised
<1> HIDE DEF p
<1>7. p[0] = 1 /\ \A k \in 1..n : p[k] = b * p[k - 1]
  BY <1>5
<1>8. \A k \in 0..n : p[k] \in Nat
  <2> DEFINE N == {k \in Nat : p[k] \in Nat}
  <2>1. 0 \in N
    BY <1>7
  <2>2. ASSUME NEW k \in 0..(n - 1), k \in N PROVE k + 1 \in N
    <3>1. k + 1 \in 1..n /\ (k + 1) - 1 = k
      OBVIOUS
    <3>2. p[k + 1] = b * p[k]
      BY <1>7, <3>1
    <3> QED BY <2>2, <3>2
  <2> HIDE DEF N
  <2>3. 0..n \subseteq N
    BY <2>1, <2>2, SetInduction
  <2> QED BY <2>3 DEF N
<1>9. p \in [0..n -> Nat]
  BY <1>5, <1>8
<1> QED BY <1>6, <1>7, <1>9 DEF PowersTo

\* One power more is one factor more.
LEMMA RaisedOnce ==
  ASSUME NEW b \in Nat, NEW n \in Nat
  PROVE  /\ Raised(b, n) \in Nat /\ Raised(b, 0) = 1
         /\ Raised(b, n + 1) = b * Raised(b, n)
<1>1. PICK p : PowersTo(p, b, n) /\ Raised(b, n) = p[n]
  BY RaisedIs
<1>2. PICK q : PowersTo(q, b, n + 1) /\ Raised(b, n + 1) = q[n + 1]
  BY RaisedIs
<1>3. PICK o : PowersTo(o, b, 0) /\ Raised(b, 0) = o[0]
  BY RaisedIs
<1> DEFINE N == {k \in Nat : p[k] = q[k]}
<1>4. 0 \in N
  BY <1>1, <1>2 DEF PowersTo
<1>5. ASSUME NEW k \in 0..(n - 1), k \in N PROVE k + 1 \in N
  <2>1. k + 1 \in 1..n /\ k + 1 \in 1..(n + 1) /\ (k + 1) - 1 = k
    OBVIOUS
  <2>2. p[k + 1] = b * p[k] /\ q[k + 1] = b * q[k]
    BY <1>1, <1>2, <2>1 DEF PowersTo
  <2> QED BY <1>5, <2>2
<1>6. 0..n \subseteq N
  <2> HIDE DEF N
  <2> QED BY <1>4, <1>5, SetInduction
<1>7. p[n] = q[n]
  BY <1>6
<1>8. n + 1 \in 1..(n + 1) /\ (n + 1) - 1 = n /\ n \in 0..n
  OBVIOUS
<1>9. q[n + 1] = b * q[n] /\ p[n] \in Nat
  BY <1>1, <1>2, <1>8 DEF PowersTo
<1> QED BY <1>1, <1>2, <1>3, <1>7, <1>9 DEF PowersTo

\* A power is positive, and turns sums into products.
LEMMA RaisedFacts ==
  ASSUME NEW b \in Nat \ {0}, NEW m \in Nat, NEW n \in Nat
  PROVE  /\ Raised(b, n) \in Nat \ {0}
         /\ Raised(b, m + n) = Raised(b, m) * Raised(b, n)
<1> DEFINE N == {k \in Nat : /\ Raised(b, k) # 0
                             /\ Raised(b, m + k) = Raised(b, m) * Raised(b, k)}
<1>1. 0 \in N
  <2>1. Raised(b, 0) = 1 /\ Raised(b, m) \in Nat /\ m + 0 = m
    BY RaisedOnce
  <2> QED BY <2>1
<1>2. ASSUME NEW k \in 0..(n - 1), k \in N PROVE k + 1 \in N
  <2>1. PICK x \in Nat, y \in Nat, z \in Nat :
          x = Raised(b, m) /\ y = Raised(b, k) /\ z = Raised(b, m + k)
    <3>1. k \in Nat /\ m + k \in Nat
      OBVIOUS
    <3>2. Raised(b, m) \in Nat /\ Raised(b, k) \in Nat /\ Raised(b, m + k) \in Nat
      BY <3>1, RaisedOnce
    <3> QED BY <3>2
  <2>2. Raised(b, k + 1) = b * y /\ Raised(b, m + (k + 1)) = b * z
    <3>1. m + (k + 1) = (m + k) + 1 /\ m + k \in Nat /\ k \in Nat
      OBVIOUS
    <3> QED BY <2>1, <3>1, RaisedOnce
  <2>3. y # 0 /\ z = x * y
    BY <1>2, <2>1
  <2>4. b * y # 0 /\ b * (x * y) = x * (b * y)
    BY <2>3
  <2> QED BY <2>1, <2>2, <2>3, <2>4
<1>3. 0..n \subseteq N
  <2> HIDE DEF N
  <2> QED BY <1>1, <1>2, SetInduction
<1>4. n \in N
  BY <1>3
<1> QED BY <1>4, RaisedOnce

\* A group of digits: how many, and their value.
IsGroup(g) == g.len \in Nat /\ g.value \in Nat

\* A run of groups is a number, each group after what is before it.
LEMMA JoinedIs ==
  ASSUME Base \in Nat, NEW groups, Len(groups) \in Nat,
         \A k \in 1..Len(groups) : IsGroup(groups[k])
  PROVE  \E f \in [0..Len(groups) -> Nat] :
           /\ f[0] = 0 /\ Joined(groups) = f[Len(groups)]
           /\ \A k \in 1..Len(groups) : f[k] = f[k - 1] * Power(groups[k].len) + groups[k].value
<1> DEFINE n == Len(groups)
           after(m, k) == m * Power(groups[k].len) + groups[k].value
           Solves(f) == f = [k \in 0..n |-> IF k = 0 THEN 0 ELSE after(f[k - 1], k)]
           next == [x \in Nat \X (1..n) |-> after(x[1], x[2])]
<1>1. n \in Nat
  OBVIOUS
<1>2. \A m \in Nat, k \in 1..n : after(m, k) \in Nat
  <2> SUFFICES ASSUME NEW m \in Nat, NEW k \in 1..n PROVE after(m, k) \in Nat
    OBVIOUS
  <2>1. groups[k].len \in Nat /\ groups[k].value \in Nat
    BY DEF IsGroup
  <2>2. Power(groups[k].len) \in Nat
    BY <2>1, RaisedOnce DEF Power
  <2> QED BY <2>1, <2>2
<1>3. Solves(CHOOSE h : Solves(h)) => Joined(groups) = (CHOOSE h : Solves(h))[n]
  BY Zenon DEF Joined
<1> HIDE DEF after
<1>4. next \in [Nat \X (1..n) -> Nat]
  BY <1>2
<1>5. PICK f : Steps(f, n, Nat, 0, next)
  <2> HIDE DEF next, n
  <2>1. \E f : Steps(f, n, Nat, 0, next)
    BY <1>1, <1>4, Iterates
  <2> QED BY <2>1
<1>6. \A k \in 1..n : f[k] = after(f[k - 1], k)
  <2> SUFFICES ASSUME NEW k \in 1..n PROVE f[k] = after(f[k - 1], k)
    OBVIOUS
  <2>1. <<f[k - 1], k>> \in Nat \X (1..n)
    <3>1. k - 1 \in 0..n
      BY <1>1
    <3> QED BY <1>5, <3>1 DEF Steps
  <2> QED BY <1>5, <2>1 DEF Steps
<1>7. Solves(f)
  BY <1>5, <1>6 DEF Steps
<1> DEFINE g == CHOOSE h : Solves(h)
<1>8. Solves(g)
  <2> HIDE DEF Solves
  <2> QED BY <1>7
<1>9. Joined(groups) = g[n]
  BY <1>3, <1>8
<1> HIDE DEF g
<1>10. g[0] = 0 /\ \A k \in 1..n : g[k] = after(g[k - 1], k)
  BY <1>1, <1>8
<1>11. \A k \in 0..n : g[k] \in Nat
  <2> DEFINE N == {k \in Nat : g[k] \in Nat}
  <2>1. 0 \in N
    BY <1>10
  <2>2. ASSUME NEW k \in 0..(n - 1), k \in N PROVE k + 1 \in N
    <3>1. k + 1 \in 1..n /\ (k + 1) - 1 = k
      BY <1>1
    <3>2. g[k + 1] = after(g[k], k + 1)
      BY <1>10, <3>1
    <3> QED BY <1>2, <2>2, <3>1, <3>2
  <2> HIDE DEF N, n
  <2>3. 0..n \subseteq N
    BY <1>1, <2>1, <2>2, SetInduction
  <2> QED BY <2>3 DEF N
<1>12. g \in [0..n -> Nat]
  BY <1>8, <1>11
<1> QED BY <1>9, <1>10, <1>12 DEF after

\* The number that one group or two make.
LEMMA JoinedFacts ==
  ASSUME Base \in Nat
  PROVE  /\ \A groups \in Seq(Group) : Joined(groups) \in Nat
         /\ \A g : IsGroup(g) => Joined(<<g>>) = g.value
         /\ \A g, h : IsGroup(g) /\ IsGroup(h) =>
              Joined(<<g, h>>) = g.value * Power(h.len) + h.value
<1>1. ASSUME NEW groups \in Seq(Group) PROVE Joined(groups) \in Nat
  <2>1. Len(groups) \in Nat /\ \A k \in 1..Len(groups) : groups[k] \in Group
    OBVIOUS
  <2>2. \A k \in 1..Len(groups) : IsGroup(groups[k])
    BY <2>1 DEF Group, IsGroup
  <2>3. PICK f \in [0..Len(groups) -> Nat] : Joined(groups) = f[Len(groups)]
    BY <2>1, <2>2, JoinedIs
  <2>4. Len(groups) \in 0..Len(groups)
    BY <2>1
  <2> QED BY <2>3, <2>4
<1>2. ASSUME NEW g, IsGroup(g), NEW f, f[0] = 0, f[1] = f[0] * Power(g.len) + g.value
      PROVE  f[1] = g.value
  <2>1. Power(g.len) \in Nat /\ g.value \in Nat
    BY <1>2, RaisedOnce DEF Power, IsGroup
  <2> QED BY <1>2, <2>1
<1>3. ASSUME NEW g, IsGroup(g) PROVE Joined(<<g>>) = g.value
  <2> DEFINE groups == <<g>>
  <2>1. Len(groups) = 1 /\ groups[1] = g /\ \A k \in 1..1 : IsGroup(groups[k])
    BY <1>3
  <2> HIDE DEF groups
  <2>2. PICK f : /\ f[0] = 0 /\ Joined(groups) = f[Len(groups)]
                 /\ \A k \in 1..Len(groups) :
                      f[k] = f[k - 1] * Power(groups[k].len) + groups[k].value
    BY <2>1, JoinedIs
  <2>3. f[1] = f[0] * Power(g.len) + g.value
    BY <2>1, <2>2
  <2>4. f[1] = g.value
    BY <1>2, <1>3, <2>2, <2>3
  <2> QED BY <2>1, <2>2, <2>4 DEF groups
<1>4. ASSUME NEW g, NEW h, IsGroup(g), IsGroup(h)
      PROVE  Joined(<<g, h>>) = g.value * Power(h.len) + h.value
  <2> DEFINE groups == <<g, h>>
  <2>1. /\ Len(groups) = 2 /\ groups[1] = g /\ groups[2] = h
        /\ \A k \in 1..2 : IsGroup(groups[k])
    BY <1>4
  <2> HIDE DEF groups
  <2>2. PICK f : /\ f[0] = 0 /\ Joined(groups) = f[Len(groups)]
                 /\ \A k \in 1..Len(groups) :
                      f[k] = f[k - 1] * Power(groups[k].len) + groups[k].value
    BY <2>1, JoinedIs
  <2>3. f[1] = f[0] * Power(g.len) + g.value /\ f[2] = f[1] * Power(h.len) + h.value
    BY <2>1, <2>2
  <2>4. f[1] = g.value
    BY <1>2, <1>4, <2>2, <2>3
  <2> QED BY <2>1, <2>2, <2>3, <2>4 DEF groups
<1> QED BY <1>1, <1>3, <1>4

\* What fits an integer is not wrapped.
LEMMA WrapIsExact ==
  ASSUME Bits \in Nat \ {0}, NEW n \in Nat, n <= Largest
  PROVE  Wrap(n) = n
<1>1. PICK h \in Nat : h = Raised(2, Bits - 1)
  BY RaisedOnce
<1>2. Raised(2, Bits) = 2 * h
  <2>1. Bits - 1 \in Nat /\ (Bits - 1) + 1 = Bits
    OBVIOUS
  <2> QED BY <1>1, <2>1, RaisedOnce
<1>3. Largest = h - 1
  BY <1>1 DEF Largest
<1>4. Wrap(n) = ((n + (h - 1) + 1) % (2 * h)) - (h - 1) - 1
  BY <1>2, <1>3 DEF Wrap
<1>5. n + (h - 1) + 1 = n + h /\ n + h \in 0..(2 * h - 1) /\ 2 * h \in Nat /\ 2 * h > 0
  BY <1>3
<1>6. ASSUME NEW x \in Nat, NEW d \in Nat, x < d PROVE x % d = x
  BY <1>6
<1>7. (n + h) % (2 * h) = n + h
  BY <1>5, <1>6
<1> QED BY <1>4, <1>5, <1>7

\* One group and the decimals of a million: a whole number of dong.
LEMMA MillionsAreWhole ==
  ASSUME NEW g, NEW h, IsGroup(g), IsGroup(h), Short(h)
  PROVE  /\ g.value * Million + Decimals(h, h.len) \in Nat
         /\ ((g.value * Power(h.len) + h.value) * Million) \div Power(h.len)
              = g.value * Million + Decimals(h, h.len)
<1>1. /\ Base \in Nat \ {0} /\ GroupLen \in Nat /\ h.len \in Nat /\ 2 * GroupLen - h.len \in Nat
      /\ h.len + (2 * GroupLen - h.len) = 2 * GroupLen
  BY ArgumentsAssumption DEF Short, IsGroup
<1>2. PICK p \in Nat \ {0}, r \in Nat \ {0} : p = Power(h.len) /\ r = Power(2 * GroupLen - h.len)
  <2>1. Raised(Base, h.len) \in Nat \ {0}
    BY <1>1, RaisedFacts
  <2>2. Raised(Base, 2 * GroupLen - h.len) \in Nat \ {0}
    BY <1>1, RaisedFacts
  <2> QED BY <2>1, <2>2 DEF Power
<1>3. Million = p * r
  <2>1. ASSUME NEW m \in Nat, NEW n \in Nat
        PROVE  Raised(Base, m + n) = Raised(Base, m) * Raised(Base, n)
    BY <1>1, RaisedFacts
  <2>2. Raised(Base, h.len + (2 * GroupLen - h.len)) = p * r
    BY <1>1, <1>2, <2>1 DEF Power
  <2> QED BY <1>1, <2>2 DEF Million, Power
<1>4. Decimals(h, h.len) = h.value * r
  BY <1>2 DEF Decimals
<1>5. PICK x \in Nat, y \in Nat : x = g.value /\ y = h.value
  BY DEF IsGroup
<1>6. ((x * p + y) * (p * r)) = ((x * (p * r)) + y * r) * p + 0
  OBVIOUS
<1>7. (x * (p * r)) + y * r \in Nat
  OBVIOUS
<1>8. ASSUME NEW t \in Int, NEW d \in Nat, d > 0 PROVE (t * d + 0) \div d = t
  BY <1>8
<1>9. ((x * p + y) * (p * r)) \div p = (x * (p * r)) + y * r
  <2> DEFINE t == (x * (p * r)) + y * r
  <2>1. t \in Int /\ p > 0
    BY <1>7
  <2>2. (x * p + y) * (p * r) = t * p + 0
    BY <1>6
  <2> HIDE DEF t
  <2>3. (t * p + 0) \div p = t
    BY <1>8, <2>1
  <2> QED BY <2>2, <2>3 DEF t
<1> QED
  BY <1>2, <1>3, <1>4, <1>5, <1>7, <1>9

\* A second element.
LEMMA AppendedToOne ==
  ASSUME NEW a, NEW b
  PROVE  Append(<<a>>, b) = <<a, b>>
<1>1. <<a>> \in Seq({a, b}) /\ <<a, b>> \in Seq({a, b}) /\ b \in {a, b}
  OBVIOUS
<1> DEFINE s == Append(<<a>>, b)
           t == <<a, b>>
<1>2. s \in Seq({a, b}) /\ Len(s) = 2 /\ s[1] = a /\ s[2] = b
  BY <1>1
<1>3. t \in Seq({a, b}) /\ Len(t) = 2 /\ t[1] = a /\ t[2] = b
  BY <1>1
<1> HIDE DEF s, t
<1>4. \A i \in 1..Len(s) : s[i] = t[i]
  BY <1>2, <1>3
<1>5. s = t
  BY <1>2, <1>3, <1>4, SeqEqual
<1> QED BY <1>5 DEF s, t

\* An amount in a plain notation is read as what it says.
LEMMA PlainIsExact ==
  ASSUME NEW v, Value(v), ParseAmount(v).ok, Plain(v),
         Exact(v) <= Largest
  PROVE  ParseAmount(v).value = Exact(v)
<1>1. /\ Base \in Nat \ {0} /\ GroupLen \in Nat /\ Bits \in Nat \ {0}
  BY ArgumentsAssumption
<1>2. CASE v.is = "number"
  BY <1>2 DEF ParseAmount, Exact, Read
<1>3. CASE v.is = "amount"
  <2> DEFINE groups == v.groups
             whole == ParseDigits(groups)
  <2>1. /\ v.unit \in {"vnd", "k", "tr"} /\ groups \in Seq(Group)
        /\ v.tail.len \in Nat /\ v.tail.value \in Nat
    BY <1>3 DEF Value
  <2>2. whole.ok => whole.value = Joined(groups)
    BY DEF ParseDigits, Read, Unread
  <2>3. Joined(groups) \in Nat /\ Thousand \in Nat /\ Million \in Nat
    <3>1. Joined(groups) \in Nat
      BY <1>1, <2>1, JoinedFacts
    <3>2. 2 * GroupLen \in Nat
      BY <1>1
    <3>3. Thousand \in Nat /\ Million \in Nat
      BY <1>1, <3>2, RaisedOnce DEF Thousand, Million, Power
    <3> QED BY <3>1, <3>3
  <2>4. CASE v.unit = "vnd"
    BY <1>3, <2>2, <2>4 DEF ParseAmount, Exact
  <2>5. CASE v.unit = "k"
    <3>1. ParseAmount(v) = [whole EXCEPT !.value = Wrap(@ * Thousand)]
      BY <1>3, <2>5 DEF ParseAmount
    <3>2. whole = [ok |-> whole.ok, value |-> whole.value]
      BY DEF ParseDigits, Read, Unread
    <3> HIDE DEF whole
    <3>3. ParseAmount(v).ok = whole.ok /\ ParseAmount(v).value = Wrap(whole.value * Thousand)
      BY <3>1, <3>2
    <3>4. Exact(v) = Joined(groups) * Thousand
      BY <1>3, <2>5 DEF Exact
    <3>5. Joined(groups) * Thousand \in Nat
      BY <2>3
    <3> QED BY <1>1, <2>2, <3>3, <3>4, <3>5, WrapIsExact
  <2>6. CASE v.unit = "tr"
    <3>1. ParseAmount(v) = Millions(v)
      <4>1. v.tail.is # "thousands"
        BY <1>3, <2>6 DEF Plain
      <4> QED BY <1>3, <2>6, <4>1 DEF ParseAmount
    <3>2. CASE Len(groups) = 1 /\ v.tail.is = "none"
      <4>1. Millions(v) = IF whole.ok THEN Read(Wrap(whole.value * Million)) ELSE Unread
        BY <3>2 DEF Millions
      <4>2. whole.ok /\ ParseAmount(v).value = Wrap(Joined(groups) * Million)
        BY <2>2, <3>1, <4>1 DEF Read, Unread
      <4>3. Exact(v) = (Joined(groups) * Million) \div Power(0)
        BY <1>3, <2>6, <3>2 DEF Exact
      <4>4. Power(0) = 1
        BY <1>1, RaisedOnce DEF Power
      <4>5. Joined(groups) * Million \in Nat
        BY <2>3
      <4>6. ASSUME NEW x \in Nat PROVE x \div 1 = x
        BY <4>6
      <4>7. Exact(v) = Joined(groups) * Million
        BY <4>3, <4>4, <4>5, <4>6
      <4> QED BY <1>1, <4>2, <4>5, <4>7, WrapIsExact
    <3>3. ASSUME NEW g, NEW h, IsGroup(g), IsGroup(h), Short(h),
                 Millions(v).value = Wrap(g.value * Million + Decimals(h, h.len)),
                 Exact(v) = (Joined(<<g, h>>) * Million) \div Power(h.len)
          PROVE  Millions(v).value = Exact(v)
      <4>1. Joined(<<g, h>>) = g.value * Power(h.len) + h.value
        BY <1>1, <3>3, JoinedFacts
      <4>2. /\ g.value * Million + Decimals(h, h.len) \in Nat
            /\ Exact(v) = g.value * Million + Decimals(h, h.len)
        BY <3>3, <4>1, MillionsAreWhole
      <4> QED BY <1>1, <3>3, <4>2, WrapIsExact
    <3>4. CASE /\ Len(groups) = 1 /\ v.tail.is = "digits"
               /\ v.tail.marks = 0 /\ Short(v.tail)
      <4> DEFINE g == groups[1]
                 h == v.tail
      <4>1. g \in Group /\ groups = <<g>>
        BY <2>1, <3>4
      <4>2. IsGroup(g) /\ IsGroup(h)
        BY <2>1, <4>1 DEF IsGroup, Group
      <4>9. Width(v.tail) = h.len /\ Width(v.tail) <= GroupLen
        BY <2>1, <3>4 DEF Width, Short
      <4>3. Millions(v) = IF whole.ok
                            THEN Read(Wrap(whole.value * Million + Decimals(h, h.len)))
                            ELSE Unread
        BY <3>4, <4>9 DEF Millions
      <4>4. whole.ok
        BY <3>1, <4>3 DEF Unread
      <4>5. Joined(groups) = g.value
        BY <1>1, <4>1, <4>2, JoinedFacts
      <4>6. Millions(v).value = Wrap(g.value * Million + Decimals(h, h.len))
        BY <2>2, <4>3, <4>4, <4>5 DEF Read
      <4>7. Append(groups, h) = <<g, h>> /\ Len(<<g, h>>) = 2 /\ <<g, h>>[2] = h
        <5> HIDE DEF g, h
        <5>1. groups = <<g>>
          BY <4>1
        <5> QED BY <5>1, AppendedToOne
      <4>8. Exact(v) = (Joined(<<g, h>>) * Million) \div Power(h.len)
        <5>1. Exact(v) = (Joined(Append(groups, h)) * Million)
                             \div Power(IF Len(Append(groups, h)) = 2
                                             THEN Append(groups, h)[2].len ELSE 0)
          BY <1>3, <2>6, <3>4 DEF Exact
        <5> HIDE DEF g, h
        <5> QED BY <4>7, <5>1
      <4> HIDE DEF g, h
      <4> QED BY <3>1, <3>3, <3>4, <4>2, <4>6, <4>8 DEF h
    <3>5. CASE Len(groups) = 2 /\ groups[2].len < GroupLen /\ v.tail.is = "none"
      <4> DEFINE g == groups[1]
                 h == groups[2]
      <4>1. g \in Group /\ h \in Group /\ groups = <<g, h>>
        BY <2>1, <3>5
      <4>2. IsGroup(g) /\ IsGroup(h)
        BY <4>1 DEF IsGroup, Group
      <4>3. Short(g) /\ Short(h)
        BY <1>1, <1>3, <2>6, <3>5, <4>2 DEF Plain, Short, IsGroup
      <4>4. Millions(v) = Read(Wrap(g.value * Million + Decimals(h, h.len)))
        BY <3>5, <4>3 DEF Millions
      <4>5. Exact(v) = (Joined(<<g, h>>) * Million) \div Power(h.len)
        <5>1. Exact(v) = (Joined(groups) * Million) \div Power(h.len)
          BY <1>3, <2>6, <3>5 DEF Exact
        <5> QED BY <4>1, <5>1
      <4> HIDE DEF g, h
      <4> QED BY <3>1, <3>3, <4>2, <4>3, <4>4, <4>5 DEF Read
    <3> QED BY <1>3, <2>6, <3>2, <3>4, <3>5 DEF Plain
  <2> QED BY <2>1, <2>4, <2>5, <2>6
<1> QED
  BY <1>2, <1>3 DEF Plain

----------------------------------------------------------------------------
(* Days. *)

\* A time of day does not leave its day, and is read back from the clock.
LEMMA DayAndClock ==
  ASSUME NEW day \in Int, NEW hour \in 0..(HoursInDay - 1)
  PROVE  DayOf(AtClock(day, hour)) = day /\ Clock(AtClock(day, hour)) = hour
<1>1. HoursInDay \in Nat /\ HoursInDay > 0 /\ HoursAhead \in Int
  BY ArgumentsAssumption
<1>2. PICK t \in Int : t = AtClock(day, hour) + HoursAhead /\ t = day * HoursInDay + hour
  <2>1. AtClock(day, hour) + HoursAhead = day * HoursInDay + hour
    BY <1>1 DEF AtClock
  <2> QED BY <1>1, <2>1
<1>3. ASSUME NEW x \in Int, NEW d \in Nat, d > 0, NEW h \in 0..(d - 1)
      PROVE  (x * d + h) \div d = x /\ (x * d + h) % d = h
  BY <1>3
<1>4. /\ (day * HoursInDay + hour) \div HoursInDay = day
      /\ (day * HoursInDay + hour) % HoursInDay = hour
  BY <1>1, <1>3
<1> QED BY <1>2, <1>4 DEF DayOf, Clock

\* A clock shows an hour of the day, and an instant is of some day.
LEMMA ClockIsAnHour ==
  ASSUME NEW at \in Int
  PROVE  Clock(at) \in 0..(HoursInDay - 1) /\ DayOf(at) \in Int
<1>1. HoursInDay \in Nat /\ HoursInDay > 0 /\ HoursAhead \in Int
  BY ArgumentsAssumption
<1>2. at + HoursAhead \in Int
  BY <1>1
<1>3. ASSUME NEW x \in Int, NEW d \in Nat, d > 0 PROVE x % d \in 0..(d - 1) /\ x \div d \in Int
  BY <1>3
<1> QED BY <1>1, <1>2, <1>3 DEF Clock, DayOf

\* The day that is named is the day of the record, at the hour of its part, and
\* it begins where a query with the same words does.
LEMMA NamedDays ==
  ASSUME NEW v, Value(v), NEW received \in Int,
         ValidToolTime(v) \/ Blank(v), OccurredAt(v, received) # NoTime
  PROVE  /\ Names(v) => ParseTime(v, received)
                            = AtClock(DayOf(OccurredAt(v, received)), 0)
         /\ v.is = "time" /\ v.form = "relative" /\ v.part \in DOMAIN PartHour =>
              Clock(OccurredAt(v, received)) = PartHour[v.part]
<1>1. v.is = "time" => ~Blank(v) /\ v.day \in Int /\ v.offset \in Int \cup {NoTime}
  BY DEF Blank, Value
<1>2. CASE v.is = "time" /\ v.form = "relative"
  <2>1. v.offset # NoTime /\ v.offset \in Int
    BY <1>1, <1>2 DEF OccurredAt
  <2> DEFINE day == DayOf(received) + v.offset
             hour == IF v.part \in DOMAIN PartHour THEN PartHour[v.part] ELSE Clock(received)
  <2>2. OccurredAt(v, received) = AtClock(day, hour)
    BY <1>1, <1>2, <2>1 DEF OccurredAt, OnPart
  <2>3. ParseTime(v, received) = AtClock(day, 0)
    BY <1>1, <1>2, <2>1 DEF ParseTime
  <2>4. day \in Int
    BY <2>1, ClockIsAnHour
  <2>5. hour \in 0..(HoursInDay - 1)
    BY ClockIsAnHour, ArgumentsAssumption
  <2>6. v.part \in DOMAIN PartHour => hour = PartHour[v.part]
    OBVIOUS
  <2> HIDE DEF day, hour
  <2> QED BY <2>2, <2>3, <2>4, <2>5, <2>6, DayAndClock
<1>3. CASE v.is = "time" /\ v.form \in {"date", "ngay"}
  <2>1. OccurredAt(v, received) = AtClock(v.day, Clock(received))
    BY <1>1, <1>3 DEF OccurredAt
  <2>2. ParseTime(v, received) = AtClock(v.day, 0)
    BY <1>1, <1>3 DEF ParseTime
  <2>3. DayOf(AtClock(v.day, Clock(received))) = v.day
    BY <1>1, <1>3, ClockIsAnHour, DayAndClock
  <2> QED BY <1>3, <2>1, <2>2, <2>3
<1> QED BY <1>2, <1>3 DEF Names

----------------------------------------------------------------------------
(* The tool calls. *)

\* What a record is made of: the fields of its call, once they are all in order.
Decoded ==
  LET note == Subject(Words("note"), call.message) IN
  outcome.is \in {"input", "saved"} =>
    /\ call.tool \in {"create_transaction", "update_transaction"} /\ Bad = {}
    /\ outcome = [is |-> outcome.is, id |-> outcome.id, note |-> outcome.note,
                  amount |-> outcome.amount, category |-> outcome.category,
                  at |-> outcome.at, type |-> outcome.type]
    /\ outcome.note = note
    /\ outcome.amount = Number("amount_vnd")
    /\ outcome.at = OccurredAt(When("occurred_at"), call.received) /\ outcome.at # NoTime
    /\ outcome.category \in Categories(Words("category"), note)
    /\ outcome.type = TypeOf(Words("type"), outcome.category, note)

\* The inductive invariant of the tool calls.
CallInv == CallTypeOK /\ Decoded /\ CreatesEndInAQuestion

\* The fields of a record that the properties are about.
LEMMA RecordFields ==
  ASSUME call.tool \in {"create_transaction", "update_transaction"}
  PROVE  /\ {"type", "amount_vnd", "category", "note", "occurred_at"} \subseteq DOMAIN Fields
         /\ Fields["amount_vnd"] = Needed("int")
         /\ Fields["type"].kind = "string" /\ Fields["category"].kind = "string"
         /\ Fields["occurred_at"].kind = "time"
<1>1. CASE call.tool = "create_transaction"
  BY <1>1 DEF Fields, Schema, Needed, Optional
<1>2. CASE call.tool = "update_transaction"
  BY <1>2 DEF Fields, Schema, Needed, Optional
<1> QED BY <1>1, <1>2

\* A bad field of a new record is the note, or one the user is asked about.
LEMMA CreateAsks ==
  ASSUME call.tool = "create_transaction", NEW f \in Bad, f \notin AskedFor
  PROVE  f = "note"
<1>1. DOMAIN Fields = {"type", "amount_vnd", "category", "note", "occurred_at"}
  BY DEF Fields, Schema
<1>2. f \in DOMAIN Fields
  BY DEF Bad
<1> QED BY <1>1, <1>2 DEF AskedFor

\* Nothing about the call changes with it.
LEMMA CallStays ==
  ASSUME call' = call
  PROVE  /\ Unknown' = Unknown /\ Bad' = Bad
         /\ \A f : Words(f)' = Words(f) /\ When(f)' = When(f) /\ Number(f)' = Number(f)
BY DEF Unknown, Bad, Words, When, Number, Present, Fields

\* Every step keeps it.
LEMMA NextCallInv ==
  ASSUME CallInv, [CallNext]_callVars
  PROVE  CallInv'
<1>0. CallTypeOK /\ Decoded /\ CreatesEndInAQuestion
  BY DEF CallInv
<1> USE <1>0 DEF CallInv
<1>1. call' = call
  BY DEF CallNext, callVars, RejectFields, DecodeInput, DecodeId, Apply, DecodeQuery
<1>2. CASE RejectFields
  <2>1. outcome' \in {Asked, Error}
    BY <1>2 DEF RejectFields, About
  <2>2. CallTypeOK' /\ Decoded'
    BY <1>1, <2>1 DEF CallTypeOK, Decoded, Asked, Error
  <2>3. CreatesEndInAQuestion'
    <3>1. ASSUME call.tool = "create_transaction", outcome' = Error
          PROVE  Unknown \ AskedFor # {} \/ "note" \in Bad
      <4>1. Unknown \ AskedFor # {} \/ \E f \in Bad : f \notin AskedFor
        BY <1>2, <3>1 DEF RejectFields, About, Asked, Error
      <4> QED BY <3>1, <4>1, CreateAsks
    <3>2. outcome'.is = "error" => outcome' = Error
      BY <2>1 DEF Asked
    <3> QED BY <1>1, <3>1, <3>2, CallStays DEF CreatesEndInAQuestion
  <2> QED BY <2>2, <2>3
<1>3. CASE DecodeInput
  <2> DEFINE note == Subject(Words("note"), call.message)
             at == OccurredAt(When("occurred_at"), call.received)
             record(category) ==
               [is |-> "input", id |-> Number("transaction_id"), note |-> note,
                amount |-> Number("amount_vnd"), category |-> category, at |-> at,
                type |-> TypeOf(Words("type"), category, note)]
  <2>1. /\ call.tool \in {"create_transaction", "update_transaction"} /\ Bad = {}
        /\ \/ outcome' = Asked
           \/ /\ at # NoTime
              /\ \E category \in Categories(Words("category"), note) : outcome' = record(category)
    BY <1>3 DEF DecodeInput, Accepted
  <2>2. CASE outcome' = Asked
    BY <1>1, <2>2 DEF CallTypeOK, Decoded, CreatesEndInAQuestion, Asked
  <2>3. ASSUME at # NoTime,
               NEW category \in Categories(Words("category"), note), outcome' = record(category)
        PROVE  CallInv'
    <3> HIDE DEF note, at
    <3>1. CallTypeOK' /\ CreatesEndInAQuestion'
      BY <1>1, <2>3 DEF CallTypeOK, CreatesEndInAQuestion
    <3>2. /\ outcome' = [is |-> outcome'.is, id |-> outcome'.id, note |-> outcome'.note,
                         amount |-> outcome'.amount, category |-> outcome'.category,
                         at |-> outcome'.at, type |-> outcome'.type]
          /\ outcome'.note = note
          /\ outcome'.amount = Number("amount_vnd") /\ outcome'.at = at
          /\ outcome'.category = category /\ outcome'.type = TypeOf(Words("type"), category, note)
      BY <2>3
    <3>3. Decoded'
      BY <1>1, <2>1, <2>3, <3>2, CallStays DEF Decoded, note, at
    <3> QED BY <3>1, <3>3
  <2> QED BY <2>1, <2>2, <2>3
<1>4. CASE DecodeId
  <2>1. outcome'.is = "row"
    BY <1>4 DEF DecodeId
  <2> QED BY <1>1, <2>1 DEF CallTypeOK, Decoded, CreatesEndInAQuestion
<1>5. CASE Apply
  <2>1. CASE outcome' = Asked
    BY <1>1, <2>1 DEF CallTypeOK, Decoded, CreatesEndInAQuestion, Asked
  <2>2. CASE outcome' = [outcome EXCEPT !.is = "saved"]
    <3>1. outcome.is = "input"
      BY <1>5 DEF Apply
    <3>2. /\ outcome'.is = "saved" /\ outcome'.amount = outcome.amount /\ outcome'.at = outcome.at
          /\ outcome'.category = outcome.category /\ outcome'.type = outcome.type
          /\ outcome' = [is |-> "saved", id |-> outcome.id, note |-> outcome.note,
                         amount |-> outcome.amount, category |-> outcome.category,
                         at |-> outcome.at, type |-> outcome.type]
          /\ outcome'.id = outcome.id /\ outcome'.note = outcome.note
      BY <2>2, <3>1 DEF Decoded
    <3>3. CallTypeOK' /\ CreatesEndInAQuestion'
      BY <1>1, <3>2 DEF CallTypeOK, CreatesEndInAQuestion
    <3>4. Decoded'
      BY <1>1, <3>1, <3>2, CallStays DEF Decoded
    <3> QED BY <3>3, <3>4
  <2>3. CASE outcome' = Error /\ TooLong(outcome.note)
    <3>1. outcome.note = Subject(Words("note"), call.message)
      BY <1>5 DEF Apply, Decoded
    <3>2. CallTypeOK' /\ Decoded' /\ CreatesEndInAQuestion'
      BY <1>1, <2>3, <3>1, CallStays DEF CallTypeOK, Decoded, CreatesEndInAQuestion, Error
    <3> QED BY <3>2
  <2> QED BY <1>5, <2>1, <2>2, <2>3 DEF Apply
<1>6. CASE DecodeQuery
  <2>1. outcome'.is \in {"query", "error", "asked"} /\ call.tool # "create_transaction"
    BY <1>6 DEF DecodeQuery, Accepted, Error, Asked
  <2> QED BY <1>1, <2>1 DEF CallTypeOK, Decoded, CreatesEndInAQuestion
<1>7. CASE UNCHANGED callVars
  <2>1. outcome' = outcome
    BY <1>7 DEF callVars
  <2> QED BY <1>1, <2>1, CallStays DEF CallTypeOK, Decoded, CreatesEndInAQuestion
<1> QED BY <1>2, <1>3, <1>4, <1>5, <1>6, <1>7 DEF CallNext

\* And so it always holds.
LEMMA CallInvariance == CallSpec => []CallInv
<1>1. CallInit => CallInv
  BY DEF CallInit, CallInv, CallTypeOK, Decoded, CreatesEndInAQuestion
<1> QED
  BY <1>1, NextCallInv, PTL DEF CallSpec

\* A tool call ends in one of its outcomes.
THEOREM CallTypeCorrect == CallSpec => []CallTypeOK
<1>1. CallInv => CallTypeOK
  BY DEF CallInv
<1> QED
  BY <1>1, CallInvariance, PTL

\* An incomplete or unreadable new record ends in a question, whichever of its
\* bad fields is reported, unless a field is undeclared, the note is no text or
\* what it is filed under is too long.
THEOREM CreatesAreAsked == CallSpec => []CreatesEndInAQuestion
<1>1. CallInv => CreatesEndInAQuestion
  BY DEF CallInv
<1> QED
  BY <1>1, CallInvariance, PTL

\* The amount of a record has been read.
LEMMA AmountIsRead ==
  ASSUME CallInv, Saved
  PROVE  /\ Value(Amount) /\ ParseAmount(Amount).ok
         /\ outcome.amount = ParseAmount(Amount).value
<1>1. /\ call.tool \in {"create_transaction", "update_transaction"} /\ Bad = {}
      /\ outcome.amount = Number("amount_vnd")
  BY DEF CallInv, Decoded, Saved
<1>2. "amount_vnd" \in DOMAIN Fields /\ Fields["amount_vnd"] = Needed("int")
  BY <1>1, RecordFields
<1>3. "amount_vnd" \in Present /\ FieldOK(Fields["amount_vnd"], call.args["amount_vnd"])
  <2>1. Fields["amount_vnd"].required
    BY <1>2 DEF Needed
  <2> QED BY <1>1, <1>2, <2>1 DEF Bad
<1>4. Value(Amount)
  BY <1>3, ArgumentsAssumption DEF CallInv, CallTypeOK, Present, Amount
<1>5. ParseAmount(Amount).ok
  BY <1>2, <1>3 DEF FieldOK, Needed, Amount
<1> QED BY <1>1, <1>3, <1>4, <1>5 DEF Number, Amount

\* An amount in a plain notation that fits an integer is saved to the dong, for
\* any base, length of groups and width of integers.
THEOREM ExactAmounts == CallSpec => []PlainAmountsAreExact
<1>1. CallInv => PlainAmountsAreExact
  <2> SUFFICES ASSUME CallInv, Saved, Plain(Amount), Exact(Amount) <= Largest
               PROVE  outcome.amount = Exact(Amount)
    BY DEF PlainAmountsAreExact
  <2>1. /\ Value(Amount) /\ ParseAmount(Amount).ok
        /\ outcome.amount = ParseAmount(Amount).value
    BY AmountIsRead DEF CallInv
  <2> QED BY <2>1, PlainIsExact
<1> QED
  BY <1>1, CallInvariance, PTL

\* The words of a type or a category are finitely many.
LEMMA TextWords ==
  ASSUME CallInv, Saved, NEW f \in {"type", "category"}
  PROVE  IsFiniteSet(Words(f))
<1>1. f \in DOMAIN Fields /\ Fields[f].kind = "string" /\ Bad = {}
  <2>1. /\ call.tool \in {"create_transaction", "update_transaction"} /\ Bad = {}
    BY DEF CallInv, Decoded, Saved
  <2> QED BY <2>1, RecordFields
<1>2. CASE f \in Present
  <2>1. FieldOK(Fields[f], call.args[f])
    BY <1>1, <1>2 DEF Bad
  <2>2. call.args[f].is = "text"
    BY <1>1, <2>1 DEF FieldOK
  <2>3. Value(call.args[f])
    BY <1>2, ArgumentsAssumption DEF CallInv, CallTypeOK, Present
  <2>4. IsFiniteSet(call.args[f].words)
    BY <2>2, <2>3 DEF Value
  <2> QED BY <1>2, <2>4 DEF Words
<1>3. CASE f \notin Present
  BY <1>3, FS_EmptySet DEF Words
<1> QED BY <1>2, <1>3

\* When a record was made is a time the tools take, or not said.
LEMMA WhenIsATime ==
  ASSUME CallInv, Saved
  PROVE  /\ Value(When("occurred_at")) /\ call.received \in Int
         /\ ValidToolTime(When("occurred_at")) \/ Blank(When("occurred_at"))
<1>1. "occurred_at" \in DOMAIN Fields /\ Fields["occurred_at"].kind = "time" /\ Bad = {}
  <2>1. /\ call.tool \in {"create_transaction", "update_transaction"} /\ Bad = {}
    BY DEF CallInv, Decoded, Saved
  <2> QED BY <2>1, RecordFields
<1>2. call.received \in Int
  BY ArgumentsAssumption DEF CallInv, CallTypeOK
<1>3. CASE "occurred_at" \in Present
  <2>1. FieldOK(Fields["occurred_at"], call.args["occurred_at"])
    BY <1>1, <1>3 DEF Bad
  <2>2. Value(call.args["occurred_at"])
    BY <1>3, ArgumentsAssumption DEF CallInv, CallTypeOK, Present
  <2> QED BY <1>1, <1>2, <1>3, <2>1, <2>2 DEF FieldOK, When
<1>4. CASE "occurred_at" \notin Present
  <2>1. When("occurred_at") = [is |-> "text", words |-> {}]
    BY <1>4 DEF When
  <2> DEFINE when == When("occurred_at")
  <2>2. when.is = "text" /\ when.words = {} /\ IsFiniteSet(when.words)
    BY <2>1, FS_EmptySet
  <2> HIDE DEF when
  <2>3. Value(when) /\ Blank(when)
    BY <2>2 DEF Value, Blank
  <2> QED BY <1>2, <2>3 DEF when
<1> QED BY <1>3, <1>4

\* The day, the type and the category that are said are those of the record.
THEOREM WhatIsSaidIsKept == CallSpec => []RecordsKeepWhatIsSaid
<1>1. ASSUME CallInv PROVE RecordsKeepWhatIsSaid
  <2> SUFFICES ASSUME Saved PROVE RecordsKeepWhatIsSaid
    BY DEF RecordsKeepWhatIsSaid
  <2> DEFINE when == When("occurred_at")
             note == Subject(Words("note"), call.message)
             said == Words("category")
  <2>1. /\ outcome.at = OccurredAt(when, call.received) /\ outcome.at # NoTime
        /\ outcome.category \in Categories(said, note)
        /\ outcome.type = TypeOf(Words("type"), outcome.category, note)
    BY <1>1 DEF CallInv, Decoded, Saved
  <2>2. /\ Names(when) => Starts("occurred_at") = AtClock(DayOf(outcome.at), 0)
        /\ when.is = "time" /\ when.form = "relative" /\ when.part \in DOMAIN PartHour =>
             Clock(outcome.at) = PartHour[when.part]
    <3>1. /\ Value(when) /\ call.received \in Int
          /\ ValidToolTime(when) \/ Blank(when)
      BY <1>1, WhenIsATime DEF CallInv
    <3> HIDE DEF when
    <3>2. /\ Names(when) => ParseTime(when, call.received) = AtClock(DayOf(outcome.at), 0)
          /\ when.is = "time" /\ when.form = "relative" /\ when.part \in DOMAIN PartHour =>
               Clock(outcome.at) = PartHour[when.part]
      BY <2>1, <3>1, NamedDays
    <3> QED BY <3>2 DEF when, Starts
  <2>3. Blank(when) => outcome.at = call.received
    BY <2>1 DEF OccurredAt
  <2>4. Words("type") # {} => outcome.type \in Words("type")
    BY <2>1 DEF TypeOf
  <2>5. ASSUME NEW w \in said \cap DOMAIN Phrases, Cardinality(said) = 1
        PROVE  outcome.category = Phrases[w]
    <3>1. IsFiniteSet(said)
      BY <1>1, TextWords
    <3>2. PICK x : said = {x}
      BY <2>5, <3>1, FS_Singleton
    <3>3. said = {w}
      BY <2>5, <3>2
    <3> HIDE DEF said, note
    <3>4. outcome.category \in {Phrases[p] : p \in {w} \cap DOMAIN Phrases}
      BY <2>1, <2>5, <3>3 DEF Categories
    <3> QED BY <3>4
  <2>6. \A w \in said \cap DOMAIN Phrases : Cardinality(said) = 1 => outcome.category = Phrases[w]
    BY <2>5
  <2> QED
    BY <2>2, <2>3, <2>4, <2>6, Zenon DEF RecordsKeepWhatIsSaid
<1> QED
  BY <1>1, CallInvariance, PTL
=============================================================================
