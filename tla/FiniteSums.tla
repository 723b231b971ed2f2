----------------------------- MODULE FiniteSums ------------------------------
(***************************************************************************)
(* What the sum of a function over a finite set is, for the totals that    *)
(* the governor and the pairing journal keep.  The library defines the sum *)
(* by a table over all subsets; that the table exists and what it contains *)
(* is proved here by least counterexample on the number of elements.       *)
(***************************************************************************)
EXTENDS Integers, FiniteSets, Functions, FiniteSetTheorems, WellFoundedInduction, TLAPS

\* The sum of cost over the elements of S.
Total(cost, S) == FoldFunctionOnSet(+, 0, cost, S)

\* A set of numbers has a least one: the form of induction used below.
LEMMA LeastNat ==
  ASSUME NEW T, T \subseteq Nat, T # {}
  PROVE \E x \in T : \A y \in T : x <= y
<1>1. IsWellFoundedOn(OpToRel(<,Nat), Nat) BY NatLessThanWellFounded
<1>2. PICK x \in T : \A y \in T : ~ (<<y,x>> \in OpToRel(<,Nat)) BY <1>1, WFMin
<1>3. \A y \in T : ~(y < x)
   BY <1>2 DEF OpToRel
<1> QED BY <1>3

Some(s) == CHOOSE x \in s : TRUE

\* One step of the fold, from a table of the smaller sets.
Entry(it, cost, s) == IF s = {} THEN 0 ELSE cost[Some(s)] + it[s \ {Some(s)}]

IsTable(it, cost, S) == it = [s \in SUBSET S |-> Entry(it, cost, s)]

\* The fold of the library is the entry of its table of smaller sets.
LEMMA TotalIsTable ==
  ASSUME NEW cost, NEW S
  PROVE Total(cost, S) = (CHOOSE it : IsTable(it, cost, S))[S]
BY Zenon DEF Total, FoldFunctionOnSet, MapThenFoldSet, Some, IsTable, Entry

\* The element the fold takes out first is one of the set.
LEMMA SomeOf == ASSUME NEW s, s # {} PROVE Some(s) \in s
BY DEF Some

Below(S, n) == {s \in SUBSET S : Cardinality(s) <= n}

\* Without one element a finite set is one smaller.
LEMMA Smaller ==
  ASSUME NEW S, IsFiniteSet(S), NEW s \in SUBSET S, NEW x \in s
  PROVE /\ IsFiniteSet(s) /\ Cardinality(s) \in Nat /\ s \ {x} \in SUBSET S
        /\ Cardinality(s \ {x}) = Cardinality(s) - 1
<1>1. IsFiniteSet(s) BY FS_Subset
<1>2. QED BY <1>1, FS_CardinalityType, FS_RemoveElement

\* A table exists for the sets of at most n elements, by least counterexample.
LEMMA TableTo ==
  ASSUME NEW S, IsFiniteSet(S), NEW cost \in [S -> Nat], NEW n \in Nat
  PROVE  \E it \in [Below(S, n) -> Nat] : \A s \in Below(S, n) : it[s] = Entry(it, cost, s)
<1> DEFINE Good(k) == \E it \in [Below(S, k) -> Nat] :
                         \A s \in Below(S, k) : it[s] = Entry(it, cost, s)
           Bad == {k \in Nat : ~Good(k)}
<1>1. Good(0)
  <2> DEFINE it == [s \in Below(S, 0) |-> 0]
  <2>1. \A s \in Below(S, 0) : s = {}
    <3> SUFFICES ASSUME NEW s \in Below(S, 0), s # {} PROVE FALSE OBVIOUS
    <3>1. PICK x : x \in s OBVIOUS
    <3>2. /\ Cardinality(s) \in Nat /\ Cardinality(s \ {x}) = Cardinality(s) - 1
          /\ s \in SUBSET S /\ Cardinality(s) <= 0
       BY <3>1, Smaller DEF Below
    <3>3. IsFiniteSet(s \ {x}) BY <3>2, FS_Subset
    <3>4. Cardinality(s \ {x}) \in Nat BY <3>3, FS_CardinalityType
    <3> QED BY <3>2, <3>4
  <2>2. it \in [Below(S, 0) -> Nat] OBVIOUS
  <2>3. \A s \in Below(S, 0) : it[s] = Entry(it, cost, s) BY <2>1 DEF Entry
  <2> QED BY <2>2, <2>3
<1>2. ASSUME NEW k \in Nat, Good(k) PROVE Good(k+1)
  <2>1. PICK it \in [Below(S, k) -> Nat] : \A s \in Below(S, k) : it[s] = Entry(it, cost, s)
     BY <1>2
  <2> DEFINE jt == [s \in Below(S, k+1) |-> Entry(it, cost, s)]
  <2>2. ASSUME NEW s \in Below(S, k+1), s # {}
        PROVE /\ Some(s) \in S /\ s \ {Some(s)} \in Below(S, k) 
    <3>1. Some(s) \in s BY <2>2, SomeOf
    <3>2. s \in SUBSET S /\ Cardinality(s) <= k + 1 BY DEF Below
    <3>3. QED BY <3>1, <3>2, Smaller DEF Below
  <2>3. jt \in [Below(S, k+1) -> Nat]
    BY <2>2 DEF Entry
  <2>4. \A s \in Below(S, k) : s \in Below(S, k+1) /\ jt[s] = it[s]
    <3> SUFFICES ASSUME NEW s \in Below(S, k) PROVE s \in Below(S, k+1) /\ jt[s] = it[s] OBVIOUS
    <3>1. IsFiniteSet(s) BY FS_Subset DEF Below
    <3>2. Cardinality(s) \in Nat BY <3>1, FS_CardinalityType
    <3>3. s \in Below(S, k+1) BY <3>2 DEF Below
    <3> QED BY <3>3, <2>1
  <2>5. ASSUME NEW s \in Below(S, k+1) PROVE jt[s] = Entry(jt, cost, s)
    BY <2>2, <2>4 DEF Entry
  <2> QED BY <2>3, <2>5
<1> HIDE DEF Good
<1>3. Bad = {}
  <2> SUFFICES ASSUME Bad # {} PROVE FALSE OBVIOUS
  <2>1. PICK k \in Bad : \A j \in Bad : k <= j BY LeastNat
  <2>2. k # 0 BY <1>1
  <2>3. k - 1 \in Nat /\ k-1 \notin Bad BY <2>1, <2>2
  <2>4. Good(k-1) BY <2>3
  <2>5. Good((k-1)+1) BY <2>3, <2>4, <1>2
  <2> QED BY <2>5, <2>1
<1>4. Good(n) BY <1>3
<1> QED BY <1>4 DEF Good

\* So there is a table for all subsets of a finite set.
LEMMA TableExists ==
  ASSUME NEW S, IsFiniteSet(S), NEW cost \in [S -> Nat]
  PROVE \E it \in [SUBSET S -> Nat] : IsTable(it, cost, S)
<1>1. Cardinality(S) \in Nat BY FS_CardinalityType
<1>2. Below(S, Cardinality(S)) = SUBSET S
   <2>1. \A s \in SUBSET S : Cardinality(s) <= Cardinality(S) BY FS_Subset
   <2> QED BY <2>1 DEF Below
<1>3. PICK it \in [SUBSET S -> Nat] : \A s \in SUBSET S : it[s] = Entry(it, cost, s)
  <2>1. \E it \in [Below(S, Cardinality(S)) -> Nat] :
            \A s \in Below(S, Cardinality(S)) : it[s] = Entry(it, cost, s)
     BY <1>1, TableTo
  <2> QED BY <1>2, <2>1
<1>4. it = [s \in SUBSET S |-> Entry(it, cost, s)] BY <1>3
<1> QED BY <1>3, <1>4 DEF IsTable

\* the table is order-independent
LEMMA TableStep ==
  ASSUME NEW S, IsFiniteSet(S), NEW cost \in [S -> Nat], NEW it \in [SUBSET S -> Nat],
         IsTable(it, cost, S),
         NEW s \in SUBSET S, NEW x \in s
  PROVE it[s] = cost[x] + it[s \ {x}]
<1> DEFINE Bad == {k \in Nat : \E u \in SUBSET S :
                      Cardinality(u) = k /\ \E y \in u : it[u] # cost[y] + it[u \ {y}]}
<1>0. \A u \in SUBSET S : u # {} => it[u] = cost[Some(u)] + it[u \ {Some(u)}]
   BY DEF IsTable, Entry
<1>1. Bad = {}
  <2> SUFFICES ASSUME Bad # {} PROVE FALSE OBVIOUS
  <2>1. PICK k \in Bad : \A j \in Bad : k <= j BY LeastNat
  <2>2. PICK u \in SUBSET S :
           Cardinality(u) = k /\ \E y \in u : it[u] # cost[y] + it[u \ {y}]
    OBVIOUS
  <2>3. PICK y \in u : it[u] # cost[y] + it[u \ {y}] BY <2>2
  <2> DEFINE z == Some(u)
  <2>4. z \in u /\ z # y /\ it[u] = cost[z] + it[u \ {z}] BY <1>0, <2>3, SomeOf
  <2> HIDE DEF z
  <2>5. \A v \in SUBSET S : Cardinality(v) \in Nat /\ Cardinality(v) < k =>
           \A w \in v : it[v] = cost[w] + it[v \ {w}]
    <3> SUFFICES ASSUME NEW v \in SUBSET S, Cardinality(v) \in Nat, Cardinality(v) < k,
                        NEW w \in v, it[v] # cost[w] + it[v \ {w}] PROVE FALSE OBVIOUS
    <3>1. Cardinality(v) \in Bad OBVIOUS
    <3>2. k <= Cardinality(v) /\ k \in Nat BY <3>1, <2>1
    <3> QED BY <3>2
  <2>6. /\ Cardinality(u \ {z}) = k - 1 /\ Cardinality(u \ {y}) = k - 1 /\ k \in Nat
        /\ u \ {z} \in SUBSET S /\ u \ {y} \in SUBSET S
     BY <2>2, <2>3, <2>4, Smaller
  <2>7. Cardinality(u \ {z}) \in Nat /\ Cardinality(u \ {y}) \in Nat 
     BY <2>3, <2>4, Smaller
  <2> HIDE DEF Bad
  <2>a. /\ Cardinality(u \ {z}) < k /\ Cardinality(u \ {y}) < k BY <2>6, <2>7
  <2>b. y \in u \ {z} /\ z \in u \ {y} BY <2>4
  <2>8. it[u \ {z}] = cost[y] + it[(u \ {z}) \ {y}] BY <2>a, <2>b, <2>5, <2>6, <2>7
  <2>9. it[u \ {y}] = cost[z] + it[(u \ {y}) \ {z}] BY <2>a, <2>b, <2>5, <2>6, <2>7
  <2>10. (u \ {z}) \ {y} = (u \ {y}) \ {z} OBVIOUS
  <2>11. it[(u \ {y}) \ {z}] \in Nat /\ cost[y] \in Nat /\ cost[z] \in Nat BY <2>4
  <2>12. it[u \ {z}] = cost[y] + it[(u \ {y}) \ {z}] BY <2>8, <2>10
  <2> QED BY <2>3, <2>4, <2>9, <2>11, <2>12
<1>2. Cardinality(s) \in Nat BY Smaller
<1> QED BY <1>1, <1>2

\* Two tables agree where both are defined.
LEMMA TablesAgree ==
  ASSUME NEW S, IsFiniteSet(S), NEW T \in SUBSET S, NEW cost, NEW a, NEW b,
         IsTable(a, cost, S), IsTable(b, cost, T), NEW s \in SUBSET T
  PROVE a[s] = b[s]
<1> DEFINE Bad == {k \in Nat : \E u \in SUBSET T : Cardinality(u) = k /\ a[u] # b[u]}
<1>0. \A u \in SUBSET T : a[u] = Entry(a, cost, u) /\ b[u] = Entry(b, cost, u)
   BY DEF IsTable
<1>1. Bad = {}
  <2> SUFFICES ASSUME Bad # {} PROVE FALSE OBVIOUS
  <2>1. PICK k \in Bad : \A j \in Bad : k <= j BY LeastNat
  <2>2. PICK u \in SUBSET T : Cardinality(u) = k /\ a[u] # b[u] OBVIOUS
  <2>3. u # {} BY <1>0, <2>2 DEF Entry
  <2> DEFINE z == Some(u)
  <2>4. z \in u BY <2>3, SomeOf
  <2>5. a[u] = cost[z] + a[u \ {z}] /\ b[u] = cost[z] + b[u \ {z}]
     BY <1>0, <2>3 DEF Entry
  <2> HIDE DEF z
  <2>6. Cardinality(u \ {z}) = k - 1 /\ k \in Nat BY <2>2, <2>4, Smaller
  <2>7. IsFiniteSet(u \ {z}) BY FS_Subset
  <2>8. Cardinality(u \ {z}) \in Nat BY <2>7, FS_CardinalityType
  <2>9. Cardinality(u \ {z}) \notin Bad
    <3> HIDE DEF Bad
    <3> QED BY <2>1, <2>6, <2>8
  <2>10. a[u \ {z}] = b[u \ {z}] BY <2>8, <2>9
  <2> QED BY <2>2, <2>5, <2>10
<1>2. IsFiniteSet(s) BY FS_Subset
<1>3. Cardinality(s) \in Nat BY <1>2, FS_CardinalityType
<1> QED BY <1>1, <1>3

\* The sum over any part of S is an entry of S's table.
LEMMA TotalOf ==
  ASSUME NEW S, IsFiniteSet(S), NEW cost \in [S -> Nat], NEW it, IsTable(it, cost, S),
         NEW T \in SUBSET S
  PROVE Total(cost, T) = it[T]
<1> DEFINE c == [x \in T |-> cost[x]]
<1>1. \A j, s : s \in SUBSET T => Entry(j, c, s) = Entry(j, cost, s)
   BY SomeOf DEF Entry
<1>2. IsFiniteSet(T) BY FS_Subset
<1>3. c \in [T -> Nat] OBVIOUS
<1> HIDE DEF c
<1>4. PICK kt \in [SUBSET T -> Nat] : IsTable(kt, c, T) BY <1>2, <1>3, TableExists
<1>5. IsTable(kt, cost, T) BY <1>1, <1>4 DEF IsTable
<1> DEFINE jt == CHOOSE j : IsTable(j, cost, T)
<1>6. IsTable(jt, cost, T) BY <1>5
<1>7. Total(cost, T) = jt[T] BY TotalIsTable
<1> HIDE DEF jt
<1>8. it[T] = jt[T] BY <1>6, TablesAgree
<1> QED BY <1>7, <1>8

\* Taking one element out
LEMMA TotalSplit ==
  ASSUME NEW S, IsFiniteSet(S), NEW cost \in [S -> Nat], NEW T \in SUBSET S
  PROVE /\ Total(cost, T) \in Nat
        /\ Total(cost, {}) = 0
        /\ \A x \in T : Total(cost, T) = cost[x] + Total(cost, T \ {x})
<1>1. PICK it \in [SUBSET S -> Nat] : IsTable(it, cost, S) BY TableExists
<1>2. \A U \in SUBSET S : Total(cost, U) = it[U] BY <1>1, TotalOf
<1>3. it[{}] = 0 BY <1>1 DEF IsTable, Entry
<1>4. \A x \in T : it[T] = cost[x] + it[T \ {x}] BY <1>1, TableStep
<1>5. \A x \in T : T \ {x} \in SUBSET S OBVIOUS
<1>6. {} \in SUBSET S OBVIOUS
<1>7. \A x \in T : Total(cost, T \ {x}) = it[T \ {x}] BY <1>2, <1>5
<1>8. Total(cost, T) = it[T] /\ it[T] \in Nat BY <1>2
<1> QED BY <1>2, <1>3, <1>4, <1>6, <1>7, <1>8

\* Same elements' cost, same sum, whatever else the two functions are defined on.
LEMMA TotalSame ==
  ASSUME NEW S, IsFiniteSet(S), NEW R, IsFiniteSet(R), NEW c \in [S -> Nat],
         NEW d \in [R -> Nat], NEW T \in SUBSET S, T \in SUBSET R, \A x \in T : c[x] = d[x]
  PROVE Total(c, T) = Total(d, T)
<1>1. PICK it \in [SUBSET R -> Nat] : IsTable(it, d, R) BY TableExists
<1>2. IsFiniteSet(T) BY FS_Subset
<1>3. PICK jt : IsTable(jt, c, S) BY TableExists
<1> DEFINE kt == [s \in SUBSET T |-> jt[s]]
<1>4. \A s \in SUBSET T : s # {} => Some(s) \in T /\ s \ {Some(s)} \in SUBSET T BY SomeOf
<1>5. \A s \in SUBSET T : jt[s] = Entry(jt, c, s) BY <1>3 DEF IsTable
<1>6. \A s \in SUBSET T : kt[s] = Entry(kt, d, s)
   BY <1>4, <1>5 DEF Entry
<1>7. IsTable(kt, d, T)
  <2>1. kt = [s \in SUBSET T |-> Entry(kt, d, s)] BY <1>6
  <2> QED BY <2>1 DEF IsTable
<1>8. kt[T] = jt[T] OBVIOUS
<1> HIDE DEF kt
<1>9. it[T] = kt[T] BY <1>1, <1>7, TablesAgree
<1>10. Total(c, T) = jt[T] /\ Total(d, T) = it[T] BY <1>1, <1>3, TotalOf
<1> QED BY <1>8, <1>9, <1>10

\* In particular for two functions on the same set.
LEMMA TotalAgrees ==
  ASSUME NEW S, IsFiniteSet(S), NEW c \in [S -> Nat], NEW d \in [S -> Nat], NEW T \in SUBSET S,
         \A x \in T : c[x] = d[x]
  PROVE Total(c, T) = Total(d, T)
BY TotalSame

\* Taking a part out.
LEMMA TotalWithout ==
  ASSUME NEW S, IsFiniteSet(S), NEW c \in [S -> Nat], NEW T \in SUBSET S, NEW U \in SUBSET T
  PROVE Total(c, T \ U) = Total(c, T) - Total(c, U)
<1> DEFINE Bad == {k \in Nat : \E V \in SUBSET T :
                      Cardinality(V) = k /\ Total(c, T \ V) # Total(c, T) - Total(c, V)}
<1>1. Bad = {}
  <2> SUFFICES ASSUME Bad # {} PROVE FALSE OBVIOUS
  <2>1. PICK k \in Bad : \A j \in Bad : k <= j BY LeastNat
  <2>2. PICK V \in SUBSET T :
           Cardinality(V) = k /\ Total(c, T \ V) # Total(c, T) - Total(c, V)
    OBVIOUS
  <2>3. V # {}
    <3> SUFFICES ASSUME V = {} PROVE FALSE OBVIOUS
    <3>1. T \ V = T OBVIOUS
    <3>2. Total(c, V) = 0 /\ Total(c, T) \in Nat BY TotalSplit
    <3>3. Total(c, T \ V) = Total(c, T) BY <3>1
    <3> HIDE DEF Bad
    <3> QED BY <2>2, <3>2, <3>3
  <2>4. PICK z : z \in V BY <2>3
  <2>5. /\ V \ {z} \in SUBSET T /\ V \in SUBSET S /\ V \ {z} \in SUBSET S
        /\ T \ V \in SUBSET S /\ T \ (V \ {z}) \in SUBSET S
     OBVIOUS
  <2>6. Cardinality(V \ {z}) = k - 1 /\ k \in Nat BY <2>2, <2>4, <2>5, Smaller
  <2>7. IsFiniteSet(V \ {z}) BY FS_Subset
  <2>8. Cardinality(V \ {z}) \in Nat BY <2>7, FS_CardinalityType
  <2>9. Cardinality(V \ {z}) \notin Bad
    <3> HIDE DEF Bad
    <3> QED BY <2>1, <2>6, <2>8
  <2>10. Total(c, T \ (V \ {z})) = Total(c, T) - Total(c, V \ {z}) BY <2>5, <2>8, <2>9
  <2> HIDE DEF Bad
  <2>11. Total(c, V) = c[z] + Total(c, V \ {z}) BY <2>4, <2>5, TotalSplit
  <2>12. z \in T \ (V \ {z}) /\ (T \ (V \ {z})) \ {z} = T \ V BY <2>4
  <2>13. Total(c, T \ (V \ {z})) = c[z] + Total(c, T \ V) BY <2>5, <2>12, TotalSplit
  <2>14. /\ Total(c, V \ {z}) \in Nat /\ Total(c, T) \in Nat /\ Total(c, T \ V) \in Nat
         /\ c[z] \in Nat BY <2>4, <2>5, TotalSplit
  <2> QED BY <2>2, <2>10, <2>11, <2>13, <2>14
<1>2. IsFiniteSet(U) BY FS_Subset
<1>3. Cardinality(U) \in Nat BY <1>2, FS_CardinalityType
<1> QED BY <1>1, <1>3
=============================================================================
