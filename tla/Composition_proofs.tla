-------------------------- MODULE Composition_proofs --------------------------
(***************************************************************************)
(* What is composed from parts keeps what the parts say: the registry of    *)
(* tables and the frontend contract, and the profile of API modules, for    *)
(* any number of modules, tables, fragments, documents and routes.          *)
(*                                                                         *)
(* The loops of the compositions are recursive functions.  The lemmas whose *)
(* names end in Unfolds say that each of them satisfies its equation; what  *)
(* holds of every round is then shown by counting up.                       *)
(***************************************************************************)
EXTENDS Deployment, FiniteSetTheorems, WellFoundedInduction, TLAPS

-------------------------------------------------------------------------------
(* Counting. *)

\* The least-number principle, from the well-foundedness of < on Nat.
LEMMA LeastNat ==
    ASSUME NEW T \in SUBSET Nat, T # {}
    PROVE  \E x \in T : \A y \in T : x <= y
<1> DEFINE R == {ss \in Nat \X Nat : ss[1] < ss[2]}
<1>1. IsWellFoundedOn(R, Nat)
  BY NatLessThanWellFounded DEF OpToRel
<1>2. PICK x \in T : \A y \in T : ~(<<y, x>> \in R)
  BY <1>1, WFMin
<1>3. ASSUME NEW y \in T PROVE x <= y
  <2>1. <<y, x>> \in Nat \X Nat /\ <<y, x>>[1] = y /\ <<y, x>>[2] = x
    OBVIOUS
  <2>2. ~(<<y, x>>[1] < <<y, x>>[2])
    BY <1>2, <2>1
  <2> QED
    BY <2>1, <2>2
<1> QED
  BY <1>3

\* What holds before a loop and is kept by every round holds throughout.
LEMMA CountingUp ==
    ASSUME NEW n \in Nat, NEW S, 0 \in S, \A m \in 0..n - 1 : m \in S => m + 1 \in S
    PROVE  0..n \subseteq S
<1> DEFINE T == {m \in 0..n : m \notin S}
<1> SUFFICES ASSUME T # {} PROVE FALSE
  OBVIOUS
<1>1. T \in SUBSET Nat
  OBVIOUS
<1>2. PICK l \in T : \A m \in T : l <= m
  <2> HIDE DEF T
  <2> QED BY <1>1, LeastNat
<1>3. l # 0 /\ l - 1 \in 0..n - 1 /\ l - 1 \in S
  BY <1>2
<1> QED BY <1>2, <1>3

-------------------------------------------------------------------------------
(* The composed registry of tables. *)

\* Dependencies are loaded one after the other (load_dependency_tables).
LEMMA LoadedUnfolds ==
    ASSUME NEW order, Len(order) \in Nat
    PROVE  Schema!LoadedUpTo(order) =
            [n \in 0..Len(order) |->
                IF n = 0 THEN <<>>
                ELSE IF files[order[n]] # MissingFile THEN Schema!AddTables(Schema!LoadedUpTo(order)[n - 1], order[n])
                ELSE IF Require THEN Invalid ELSE Schema!LoadedUpTo(order)[n - 1]]
<1> DEFINE Base == <<>>
           Round(before, n) == IF files[order[n]] # MissingFile THEN Schema!AddTables(before, order[n])
                ELSE IF Require THEN Invalid ELSE before
           Unfolds(f, l) == f = [n \in 0..l |-> IF n = 0 THEN Base ELSE Round(f[n - 1], n)]
           S == {l \in 0..Len(order) : \E f : Unfolds(f, l)}
<1> HIDE DEF Base, Round
<1>1. 0 \in S
  <2> DEFINE f == [n \in 0..0 |-> Base]
  <2>1. Unfolds(f, 0)
    OBVIOUS
  <2> HIDE DEF f, Unfolds
  <2> QED BY <2>1
<1>2. ASSUME NEW l \in 0..Len(order) - 1, l \in S PROVE l + 1 \in S
  <2>1. PICK f : Unfolds(f, l)
    BY <1>2
  <2> DEFINE g == [n \in 0..l + 1 |-> IF n <= l THEN f[n] ELSE Round(f[n - 1], n)]
  <2>2. Unfolds(g, l + 1)
    BY <2>1
  <2> HIDE DEF g, Unfolds
  <2> QED BY <2>2
<1>3. 0..Len(order) \subseteq S
  <2> HIDE DEF S
  <2> QED BY <1>1, <1>2, CountingUp
<1>4. PICK f : Unfolds(f, Len(order))
  <2> HIDE DEF Unfolds
  <2> QED BY <1>3
<1> QED BY <1>4 DEF Base, Round, Schema!LoadedUpTo

\* The application's tables are merged one after the other (compose_schema_registry).
LEMMA EffectiveUnfolds ==
    ASSUME NEW dependencies, Len(app) \in Nat
    PROVE  Schema!EffectiveUpTo(dependencies) =
            [n \in 0..Len(app) |->
                IF n = 0 THEN dependencies
                ELSE Schema!MergeTable(Schema!EffectiveUpTo(dependencies)[n - 1], app[n])]
<1> DEFINE Base == dependencies
           Round(before, n) == Schema!MergeTable(before, app[n])
           Unfolds(f, l) == f = [n \in 0..l |-> IF n = 0 THEN Base ELSE Round(f[n - 1], n)]
           S == {l \in 0..Len(app) : \E f : Unfolds(f, l)}
<1> HIDE DEF Base, Round
<1>1. 0 \in S
  <2> DEFINE f == [n \in 0..0 |-> Base]
  <2>1. Unfolds(f, 0)
    OBVIOUS
  <2> HIDE DEF f, Unfolds
  <2> QED BY <2>1
<1>2. ASSUME NEW l \in 0..Len(app) - 1, l \in S PROVE l + 1 \in S
  <2>1. PICK f : Unfolds(f, l)
    BY <1>2
  <2> DEFINE g == [n \in 0..l + 1 |-> IF n <= l THEN f[n] ELSE Round(f[n - 1], n)]
  <2>2. Unfolds(g, l + 1)
    BY <2>1
  <2> HIDE DEF g, Unfolds
  <2> QED BY <2>2
<1>3. 0..Len(app) \subseteq S
  <2> HIDE DEF S
  <2> QED BY <1>1, <1>2, CountingUp
<1>4. PICK f : Unfolds(f, Len(app))
  <2> HIDE DEF Unfolds
  <2> QED BY <1>3
<1> QED BY <1>4 DEF Base, Round, Schema!EffectiveUpTo

\* Fragments are merged one after the other (compose_frontend_field_contract).
LEMMA CompiledUnfolds ==
    ASSUME NEW fragments, Len(fragments) \in Nat
    PROVE  Schema!CompiledUpTo(fragments) =
            [n \in 0..Len(fragments) |->
                IF n = 0 THEN [s \in Schema!ListSections \cup Schema!MappingSections |-> <<>>]
                ELSE Schema!MergeFragment(Schema!CompiledUpTo(fragments)[n - 1], fragments[n])]
<1> DEFINE Base == [s \in Schema!ListSections \cup Schema!MappingSections |-> <<>>]
           Round(before, n) == Schema!MergeFragment(before, fragments[n])
           Unfolds(f, l) == f = [n \in 0..l |-> IF n = 0 THEN Base ELSE Round(f[n - 1], n)]
           S == {l \in 0..Len(fragments) : \E f : Unfolds(f, l)}
<1> HIDE DEF Base, Round
<1>1. 0 \in S
  <2> DEFINE f == [n \in 0..0 |-> Base]
  <2>1. Unfolds(f, 0)
    OBVIOUS
  <2> HIDE DEF f, Unfolds
  <2> QED BY <2>1
<1>2. ASSUME NEW l \in 0..Len(fragments) - 1, l \in S PROVE l + 1 \in S
  <2>1. PICK f : Unfolds(f, l)
    BY <1>2
  <2> DEFINE g == [n \in 0..l + 1 |-> IF n <= l THEN f[n] ELSE Round(f[n - 1], n)]
  <2>2. Unfolds(g, l + 1)
    BY <2>1
  <2> HIDE DEF g, Unfolds
  <2> QED BY <2>2
<1>3. 0..Len(fragments) \subseteq S
  <2> HIDE DEF S
  <2> QED BY <1>1, <1>2, CountingUp
<1>4. PICK f : Unfolds(f, Len(fragments))
  <2> HIDE DEF Unfolds
  <2> QED BY <1>3
<1> QED BY <1>4 DEF Base, Round, Schema!CompiledUpTo

\* The entries that the fragments list are added up.
LEMMA ListedUnfolds ==
    ASSUME NEW fragments, NEW s, Len(fragments) \in Nat
    PROVE  Schema!ListedUpTo(fragments, s) =
            [n \in 0..Len(fragments) |->
                IF n = 0 THEN 0
                ELSE Schema!ListedUpTo(fragments, s)[n - 1] + Len(Schema!Declared(fragments[n], s, <<>>))]
<1> DEFINE Base == 0
           Round(before, n) == before + Len(Schema!Declared(fragments[n], s, <<>>))
           Unfolds(f, l) == f = [n \in 0..l |-> IF n = 0 THEN Base ELSE Round(f[n - 1], n)]
           S == {l \in 0..Len(fragments) : \E f : Unfolds(f, l)}
<1> HIDE DEF Base, Round
<1>1. 0 \in S
  <2> DEFINE f == [n \in 0..0 |-> Base]
  <2>1. Unfolds(f, 0)
    OBVIOUS
  <2> HIDE DEF f, Unfolds
  <2> QED BY <2>1
<1>2. ASSUME NEW l \in 0..Len(fragments) - 1, l \in S PROVE l + 1 \in S
  <2>1. PICK f : Unfolds(f, l)
    BY <1>2
  <2> DEFINE g == [n \in 0..l + 1 |-> IF n <= l THEN f[n] ELSE Round(f[n - 1], n)]
  <2>2. Unfolds(g, l + 1)
    BY <2>1
  <2> HIDE DEF g, Unfolds
  <2> QED BY <2>2
<1>3. 0..Len(fragments) \subseteq S
  <2> HIDE DEF S
  <2> QED BY <1>1, <1>2, CountingUp
<1>4. PICK f : Unfolds(f, Len(fragments))
  <2> HIDE DEF Unfolds
  <2> QED BY <1>3
<1> QED BY <1>4 DEF Base, Round, Schema!ListedUpTo

\* A strict total order on 1..L has its members in order: each is inserted behind
\* those before it.
LEMMA SortedExists ==
    ASSUME NEW L \in Nat, NEW R,
           \A i, j \in 1..L : i # j => (<<i, j>> \in R <=> <<j, i>> \notin R),
           \A i, j, k \in 1..L : <<i, j>> \in R /\ <<j, k>> \in R => <<i, k>> \in R
    PROVE  \E p \in [1..L -> 1..L] : /\ \A i, j \in 1..L : i < j => <<p[i], p[j]>> \in R /\ p[i] # p[j]
                                     /\ \A t \in 1..L : \E i \in 1..L : p[i] = t
<1> DEFINE Sorts(p, n) == /\ p \in [1..n -> 1..n]
                          /\ \A i, j \in 1..n : i < j => <<p[i], p[j]>> \in R /\ p[i] # p[j]
                          /\ \A t \in 1..n : \E i \in 1..n : p[i] = t
           S == {n \in 0..L : \E p : Sorts(p, n)}
<1>1. 0 \in S
  <2> DEFINE p == [i \in 1..0 |-> i]
  <2>1. Sorts(p, 0)
    OBVIOUS
  <2> HIDE DEF p, Sorts
  <2> QED BY <2>1
<1>2. ASSUME NEW n \in 0..L - 1, n \in S PROVE n + 1 \in S
  <2>1. PICK p : Sorts(p, n)
    BY <1>2
  <2> DEFINE K == {i \in 1..n : <<p[i], n + 1>> \notin R} \cup {n + 1}
  <2>2. PICK k \in K : \A i \in K : k <= i
    <3>1. K \in SUBSET Nat /\ K # {}
      OBVIOUS
    <3> HIDE DEF K
    <3> QED BY <3>1, LeastNat
  <2>3. k \in 1..n + 1
    OBVIOUS
  <2>4. ASSUME NEW i \in 1..n, i < k PROVE <<p[i], n + 1>> \in R
    BY <2>2, <2>4
  <2>5. ASSUME NEW i \in 1..n, k <= i PROVE <<n + 1, p[i]>> \in R
    <3>0. k \in 1..n
      BY <2>3, <2>5
    <3>1. /\ k \in 1..n /\ p[k] \in 1..n /\ p[i] \in 1..n
          /\ n + 1 \in 1..L /\ p[k] \in 1..L /\ p[i] \in 1..L /\ p[k] # n + 1 /\ p[i] # n + 1
      <4>1. p[k] \in 1..n /\ p[i] \in 1..n
        BY <2>1, <3>0
      <4> QED BY <3>0, <4>1
    <3>2. <<p[k], n + 1>> \notin R
      BY <2>2, <3>1
    <3>3. CASE i = k
      BY <3>1, <3>2, <3>3
    <3>4. CASE i # k
      <4>1. <<p[k], p[i]>> \in R
        BY <2>1, <2>5, <3>1, <3>4
      <4> QED BY <3>1, <3>2, <4>1
    <3> QED BY <3>3, <3>4
  <2> DEFINE q == [i \in 1..n + 1 |-> IF i < k THEN p[i] ELSE IF i = k THEN n + 1 ELSE p[i - 1]]
  <2>6. q \in [1..n + 1 -> 1..n + 1]
    <3>1. ASSUME NEW i \in 1..n PROVE p[i] \in 1..n + 1
      <4>1. p[i] \in 1..n
        BY <2>1
      <4> QED BY <4>1
    <3>2. ASSUME NEW i \in 1..n + 1 PROVE q[i] \in 1..n + 1
      <4>1. CASE i < k
        <5>1. i \in 1..n
          BY <2>3, <4>1
        <5> QED BY <3>1, <4>1, <5>1
      <4>2. CASE i = k
        BY <4>2
      <4>3. CASE i > k
        <5>1. i - 1 \in 1..n /\ ~(i < k) /\ i # k
          BY <2>3, <4>3
        <5> QED BY <3>1, <5>1
      <4> QED BY <2>3, <4>1, <4>2, <4>3
    <3> QED BY <3>2
  <2>7. ASSUME NEW i \in 1..n + 1, NEW j \in 1..n + 1, i < j PROVE <<q[i], q[j]>> \in R /\ q[i] # q[j]
    <3>1. CASE j < k
      BY <2>1, <2>3, <2>7, <3>1
    <3>2. CASE j = k
      BY <2>1, <2>3, <2>4, <2>7, <3>2
    <3>3. CASE j > k /\ i < k
      BY <2>1, <2>3, <2>7, <3>3
    <3>4. CASE j > k /\ i = k
      <4>1. j - 1 \in 1..n /\ k <= j - 1 /\ q[i] = n + 1 /\ q[j] = p[j - 1]
        BY <2>3, <2>7, <3>4
      <4>2. p[j - 1] \in 1..n
        BY <2>1, <4>1
      <4>3. p[j - 1] # n + 1
        BY <4>2
      <4> QED BY <2>5, <4>1, <4>3
    <3>5. CASE j > k /\ i > k
      BY <2>1, <2>3, <2>7, <3>5
    <3> QED BY <2>3, <3>1, <3>2, <3>3, <3>4, <3>5
  <2>8. ASSUME NEW t \in 1..n + 1 PROVE \E i \in 1..n + 1 : q[i] = t
    <3>1. CASE t = n + 1
      BY <2>3, <3>1
    <3>2. CASE t # n + 1
      <4>1. PICK i \in 1..n : p[i] = t
        BY <2>1, <3>2
      <4>2. CASE i < k
        BY <4>1, <4>2
      <4>3. CASE i >= k
        <5>1. i + 1 \in 1..n + 1 /\ q[i + 1] = t
          BY <2>3, <4>1, <4>3
        <5> QED BY <5>1
      <4> QED BY <2>3, <4>2, <4>3
    <3> QED BY <3>1, <3>2
  <2>9. Sorts(q, n + 1)
    BY <2>6, <2>7, <2>8
  <2> HIDE DEF q, Sorts
  <2> QED BY <2>9
<1>3. 0..L \subseteq S
  <2> HIDE DEF S
  <2> QED BY <1>1, <1>2, CountingUp
<1>4. PICK p : Sorts(p, L)
  <2> HIDE DEF Sorts
  <2> QED BY <1>3
<1> QED BY <1>4

\* The order in which the composer visits the modules, by the order they declare and
\* then by id (parse_registry_dependencies).
VisitOrder == Schema!ParseRegistryDependencies(Module)

\* Whatever orders the dependencies declare, every one is visited
\* (parse_registry_dependencies).
LEMMA EveryModuleIsVisited ==
    /\ Len(Module) \in Nat /\ DOMAIN VisitOrder = 1..Len(Module)
    /\ \A i \in 1..Len(Module) : VisitOrder[i] \in Schema!Range(Module)
    /\ \A m \in Schema!Range(Module) : \E i \in 1..Len(Module) : VisitOrder[i] = m
    /\ Len(VisitOrder) = Len(Module)
<1> DEFINE D == 1..Len(Module)
           Before(i, j) == \/ ModuleOrder[Module[i]] < ModuleOrder[Module[j]]
                           \/ ModuleOrder[Module[i]] = ModuleOrder[Module[j]] /\ i < j
           R == {ij \in D \X D : Before(ij[1], ij[2])}
<1>1. Len(Module) \in Nat /\ DOMAIN Module = D /\ \A i \in D : Module[i] \in Schema!Range(Module)
  BY SchemaAssumption
<1>2. \A i \in D : ModuleOrder[Module[i]] \in Int
  BY <1>1, SchemaAssumption
<1>3. \A i, j \in D : <<i, j>> \in R <=> Before(i, j)
  OBVIOUS
<1>4. \A i, j \in D : i # j => (Before(i, j) <=> ~Before(j, i))
  BY <1>2
<1>5. \A i, j, k \in D : Before(i, j) /\ Before(j, k) => Before(i, k)
  BY <1>2
<1>6. \E p \in [D -> D] : /\ \A i, j \in D : i < j => <<p[i], p[j]>> \in R /\ p[i] # p[j]
                          /\ \A t \in D : \E i \in D : p[i] = t
  <2>1. /\ \A i, j \in D : i # j => (<<i, j>> \in R <=> <<j, i>> \notin R)
        /\ \A i, j, k \in D : <<i, j>> \in R /\ <<j, k>> \in R => <<i, k>> \in R
    <3> HIDE DEF R, Before
    <3> QED BY <1>3, <1>4, <1>5
  <2> HIDE DEF R
  <2> QED BY <1>1, <2>1, SortedExists
<1>7. PICK p \in [D -> D] : /\ \A i, j \in D : i < j => <<p[i], p[j]>> \in R /\ p[i] # p[j]
                            /\ \A t \in D : \E i \in D : p[i] = t
  BY <1>6
<1>8. p \in Schema!Bijection(D, D) /\ \A i, j \in D : i < j => Before(p[i], p[j])
  <2>1. \A i, j \in D : p[i] = p[j] => i = j
    <3>1. \A i, j \in D : i < j \/ j < i \/ i = j
      BY <1>1
    <3> HIDE DEF R, D
    <3> QED BY <1>7, <3>1
  <2>2. p \in Schema!Bijection(D, D)
    BY <1>7, <2>1 DEF Schema!Bijection, Schema!Injection, Schema!Surjection, Schema!IsInjective
  <2>3. \A i, j \in D : i < j => Before(p[i], p[j])
    <3> HIDE DEF R, Before
    <3> QED BY <1>3, <1>7
  <2> QED BY <2>2, <2>3
<1> DEFINE sorted == CHOOSE o \in Schema!Bijection(D, D) : \A i, j \in D : i < j => Before(o[i], o[j])
<1>9. sorted \in Schema!Bijection(D, D)
  <2> HIDE DEF Before
  <2> QED BY <1>8
<1>10. Schema!ParseRegistryDependencies(Module) = [i \in D |-> Module[sorted[i]]]
  BY <1>1 DEF Schema!ParseRegistryDependencies
<1>11. sorted \in [D -> D] /\ \A t \in D : \E i \in D : sorted[i] = t
  <2> HIDE DEF sorted
  <2> QED BY <1>9 DEF Schema!Bijection, Schema!Surjection
<1>12. DOMAIN VisitOrder = D /\ \A i \in D : VisitOrder[i] = Module[sorted[i]] /\ sorted[i] \in D
  <2> HIDE DEF sorted
  <2> QED BY <1>10, <1>11 DEF VisitOrder
<1>13. \A i \in D : VisitOrder[i] \in Schema!Range(Module)
  <2> HIDE DEF sorted
  <2> QED BY <1>1, <1>12
<1>14. ASSUME NEW m \in Schema!Range(Module) PROVE \E i \in D : VisitOrder[i] = m
  <2>1. PICK t \in D : Module[t] = m
    BY <1>1 DEF Schema!Range
  <2>2. PICK i \in D : sorted[i] = t
    BY <1>11
  <2>3. VisitOrder[i] = m
    <3> HIDE DEF sorted
    <3> QED BY <1>12, <2>1, <2>2
  <2> QED BY <2>3
<1>15. Len(VisitOrder) = Len(Module)
  BY <1>1, <1>10 DEF VisitOrder
<1> HIDE DEF D
<1>16. D = 1..Len(Module)
  BY DEF D
<1> QED BY <1>1, <1>12, <1>13, <1>14, <1>15, <1>16

\* Adding the tables of a module leaves the tables before it alone, and holds
\* every table of the module as it is annotated (load_dependency_tables).
LEMMA AddTablesKeeps ==
    ASSUME NEW tables, NEW m, Schema!AddTables(tables, m) # Invalid
    PROVE  /\ tables # Invalid
           /\ \A n \in DOMAIN tables : /\ n \in DOMAIN Schema!AddTables(tables, m)
                                       /\ Schema!AddTables(tables, m)[n] = tables[n]
           /\ \A i \in DOMAIN files[m] :
                /\ Schema!TableName(files[m][i]) \in DOMAIN Schema!AddTables(tables, m)
                /\ Schema!AddTables(tables, m)[Schema!TableName(files[m][i])] = Schema!AnnotateTable(files[m][i], m)
<1> DEFINE names == [i \in DOMAIN files[m] |-> Schema!TableName(files[m][i])]
           added == [n \in Schema!Range(names) |->
                        Schema!AnnotateTable(files[m][CHOOSE i \in DOMAIN names : names[i] = n], m)]
<1>1. /\ tables # Invalid
      /\ ~\E i \in DOMAIN names : names[i] \in DOMAIN tables
      /\ Schema!IsInjective(names)
      /\ Schema!AddTables(tables, m) = Schema!Insert(tables, added)
  BY DEF Schema!AddTables
<1>2. DOMAIN added = Schema!Range(names) /\ DOMAIN names = DOMAIN files[m]
  OBVIOUS
<1>3. \A i \in DOMAIN names : names[i] \in Schema!Range(names)
  BY DEF Schema!Range
<1>4. ASSUME NEW i \in DOMAIN names
      PROVE  added[names[i]] = Schema!AnnotateTable(files[m][i], m)
  <2> DEFINE c == CHOOSE j \in DOMAIN names : names[j] = names[i]
  <2>1. c \in DOMAIN names /\ names[c] = names[i]
    <3> HIDE DEF names
    <3> QED OBVIOUS
  <2>2. c = i
    <3> HIDE DEF names, c
    <3> QED BY <1>1, <2>1 DEF Schema!IsInjective
  <2>3. added[names[i]] = Schema!AnnotateTable(files[m][c], m)
    <3> HIDE DEF names
    <3> QED BY <1>3
  <2> HIDE DEF added, c
  <2> QED BY <2>2, <2>3
<1>5. ASSUME NEW n \in Schema!Range(names) PROVE n \notin DOMAIN tables
  <2>1. PICK i \in DOMAIN names : names[i] = n
    BY DEF Schema!Range
  <2> HIDE DEF names
  <2> QED BY <1>1, <2>1
<1>6. ASSUME NEW n \in DOMAIN tables
      PROVE  n \in DOMAIN Schema!AddTables(tables, m) /\ Schema!AddTables(tables, m)[n] = tables[n]
  <2> HIDE DEF names, added
  <2> QED BY <1>1, <1>2, <1>5 DEF Schema!Insert
<1>7. ASSUME NEW i \in DOMAIN files[m]
      PROVE  /\ Schema!TableName(files[m][i]) \in DOMAIN Schema!AddTables(tables, m)
             /\ Schema!AddTables(tables, m)[Schema!TableName(files[m][i])] = Schema!AnnotateTable(files[m][i], m)
  <2>1. i \in DOMAIN names /\ names[i] = Schema!TableName(files[m][i])
    OBVIOUS
  <2> HIDE DEF names, added
  <2>2. /\ names[i] \in DOMAIN Schema!AddTables(tables, m)
        /\ Schema!AddTables(tables, m)[names[i]] = added[names[i]]
    BY <1>1, <1>2, <1>3, <2>1 DEF Schema!Insert
  <2> QED BY <1>4, <2>1, <2>2
<1> QED BY <1>1, <1>6, <1>7

\* What is loaded from the dependencies.
Loaded == Schema!LoadedUpTo(VisitOrder)

\* Every table of a registry that is there is loaded, annotated with its module:
\* later modules do not replace it (load_dependency_tables).
LEMMA DependenciesAreLoaded ==
    ASSUME Schema!LoadDependencyTables # Invalid,
           NEW m \in Schema!Range(Module), files[m] # MissingFile, NEW i \in DOMAIN files[m]
    PROVE  /\ Schema!TableName(files[m][i]) \in DOMAIN Schema!LoadDependencyTables
           /\ Schema!LoadDependencyTables[Schema!TableName(files[m][i])] = Schema!AnnotateTable(files[m][i], m)
<1> DEFINE N == Len(Module)
           Holds(n, k) == \A j \in DOMAIN files[VisitOrder[k]] :
                            /\ Schema!TableName(files[VisitOrder[k]][j]) \in DOMAIN Loaded[n]
                            /\ Loaded[n][Schema!TableName(files[VisitOrder[k]][j])]
                                = Schema!AnnotateTable(files[VisitOrder[k]][j], VisitOrder[k])
           S == {n \in 0..N : \A k \in 1..n : files[VisitOrder[k]] # MissingFile => Holds(n, k)}
           V == {n \in 0..N : Loaded[N - n] # Invalid}
<1>0. N \in Nat /\ Len(VisitOrder) = N
  BY EveryModuleIsVisited
<1>1. ASSUME NEW n \in 1..N
      PROVE  Loaded[n] = IF files[VisitOrder[n]] # MissingFile THEN Schema!AddTables(Loaded[n - 1], VisitOrder[n])
                         ELSE IF Require THEN Invalid ELSE Loaded[n - 1]
  <2>1. n \in 0..Len(VisitOrder) /\ n # 0
    BY <1>0
  <2> QED BY <1>0, <2>1, LoadedUnfolds DEF Loaded
<1>2. Schema!LoadDependencyTables = Loaded[N]
  BY DEF Schema!LoadDependencyTables, Loaded, VisitOrder
<1>3. 0..N \subseteq V
  <2>1. 0 \in V
    BY <1>0, <1>2
  <2>2. ASSUME NEW n \in 0..N - 1, n \in V PROVE n + 1 \in V
    <3>1. N - n \in 1..N /\ (N - n) - 1 = N - (n + 1) /\ n + 1 \in 0..N
      BY <1>0
    <3>2. Loaded[N - n] # Invalid
      BY <2>2
    <3>3. Loaded[(N - n) - 1] # Invalid
      BY <1>1, <3>1, <3>2, AddTablesKeeps
    <3> QED BY <3>1, <3>3
  <2> HIDE DEF V
  <2> QED BY <1>0, <2>1, <2>2, CountingUp
<1>4. ASSUME NEW n \in 0..N PROVE Loaded[n] # Invalid
  <2>1. N - n \in 0..N /\ N - (N - n) = n
    BY <1>0
  <2> QED BY <1>3, <2>1
<1>5. 0..N \subseteq S
  <2>1. 0 \in S
    BY <1>0
  <2>2. ASSUME NEW n \in 0..N - 1, n \in S PROVE n + 1 \in S
    <3>1. n + 1 \in 1..N /\ n + 1 \in 0..N /\ (n + 1) - 1 = n /\ n \in 0..N
      BY <1>0
    <3>2. Loaded[n + 1] # Invalid
      BY <1>4, <3>1
    <3>3. ASSUME NEW k \in 1..n + 1, files[VisitOrder[k]] # MissingFile PROVE Holds(n + 1, k)
      <4>1. CASE files[VisitOrder[n + 1]] # MissingFile
        <5>1. Loaded[n + 1] = Schema!AddTables(Loaded[n], VisitOrder[n + 1])
          BY <1>1, <3>1, <4>1
        <5>2. Schema!AddTables(Loaded[n], VisitOrder[n + 1]) # Invalid
          BY <3>2, <5>1
        <5>3. CASE k = n + 1
          BY <5>1, <5>2, <5>3, AddTablesKeeps
        <5>4. CASE k # n + 1
          <6>1. k \in 1..n
            BY <5>4
          <6>2. Holds(n, k)
            BY <2>2, <3>3, <6>1
          <6> QED BY <5>1, <5>2, <6>2, AddTablesKeeps
        <5> QED BY <5>3, <5>4
      <4>2. CASE files[VisitOrder[n + 1]] = MissingFile
        <5>1. Loaded[n + 1] = Loaded[n]
          BY <1>1, <3>1, <3>2, <4>2
        <5>2. k \in 1..n
          BY <3>3, <4>2
        <5>3. Holds(n, k)
          BY <2>2, <3>3, <5>2
        <5> QED BY <5>1, <5>3
      <4> QED BY <4>1, <4>2
    <3> HIDE DEF Holds
    <3> QED BY <3>1, <3>3
  <2> HIDE DEF S
  <2> QED BY <1>0, <2>1, <2>2, CountingUp
<1>6. PICK k \in 1..N : VisitOrder[k] = m
  BY EveryModuleIsVisited
<1>7. Holds(N, k)
  <2> HIDE DEF Holds
  <2>1. N \in S
    BY <1>0, <1>5
  <2> QED BY <1>6, <2>1
<1> QED BY <1>2, <1>6, <1>7

\* Merging a table of the application adds its name and replaces nothing
\* (merge_table).
LEMMA MergeTableKeeps ==
    ASSUME NEW effective, NEW table, Schema!MergeTable(effective, table) # Invalid
    PROVE  /\ effective # Invalid
           /\ \A n \in DOMAIN effective : /\ n \in DOMAIN Schema!MergeTable(effective, table)
                                          /\ Schema!MergeTable(effective, table)[n] = effective[n]
           /\ Schema!TableName(table) \in DOMAIN Schema!MergeTable(effective, table)
<1> DEFINE n == Schema!TableName(table)
           added == [k \in {n} |-> Schema!AnnotateTable(table, MissingFile)]
<1>1. effective # Invalid
  BY DEF Schema!MergeTable
<1>2. CASE n \in DOMAIN effective
  BY <1>1, <1>2 DEF Schema!MergeTable
<1>3. CASE n \notin DOMAIN effective
  <2>1. Schema!MergeTable(effective, table) = Schema!Insert(effective, added)
    BY <1>1, <1>3 DEF Schema!MergeTable
  <2>2. DOMAIN added = {n}
    OBVIOUS
  <2> HIDE DEF n, added
  <2>3. /\ n \in DOMAIN Schema!MergeTable(effective, table)
        /\ \A k \in DOMAIN effective : /\ k \in DOMAIN Schema!MergeTable(effective, table)
                                       /\ Schema!MergeTable(effective, table)[k] = effective[k]
    BY <1>3, <2>1, <2>2 DEF Schema!Insert
  <2> QED BY <1>1, <2>3 DEF n
<1> QED BY <1>2, <1>3

\* The composed registry holds what its dependencies declare unchanged, and a
\* table of every name the application declares (compose_schema_registry).
LEMMA CompositionKeepsDependencies ==
    ASSUME Schema!ComposeSchemaRegistry # Invalid, Len(app) \in Nat
    PROVE  /\ Schema!LoadDependencyTables # Invalid
           /\ \A n \in DOMAIN Schema!LoadDependencyTables :
                /\ n \in DOMAIN Schema!ComposeSchemaRegistry
                /\ Schema!ComposeSchemaRegistry[n] = Schema!LoadDependencyTables[n]
           /\ \A i \in 1..Len(app) : Schema!TableName(app[i]) \in DOMAIN Schema!ComposeSchemaRegistry
<1> DEFINE N == Len(app)
           dependencies == Schema!LoadDependencyTables
           E == Schema!EffectiveUpTo(dependencies)
           S == {n \in 0..N : /\ \A k \in DOMAIN dependencies : k \in DOMAIN E[n] /\ E[n][k] = dependencies[k]
                              /\ \A i \in 1..n : Schema!TableName(app[i]) \in DOMAIN E[n]}
           V == {n \in 0..N : E[N - n] # Invalid}
<1>1. dependencies # Invalid /\ Schema!ComposeSchemaRegistry = E[N]
  BY DEF Schema!ComposeSchemaRegistry
<1>2. E[0] = dependencies
  <2>1. 0 \in 0..N
    OBVIOUS
  <2> HIDE DEF dependencies
  <2> QED BY <2>1, EffectiveUnfolds
<1>3. ASSUME NEW n \in 1..N PROVE E[n] = Schema!MergeTable(E[n - 1], app[n])
  <2>1. n \in 0..N /\ n # 0
    OBVIOUS
  <2> HIDE DEF dependencies
  <2> QED BY <2>1, EffectiveUnfolds
<1> HIDE DEF E, dependencies
<1>4. 0..N \subseteq V
  <2>1. 0 \in V
    BY <1>1
  <2>2. ASSUME NEW n \in 0..N - 1, n \in V PROVE n + 1 \in V
    <3>1. N - n \in 1..N /\ (N - n) - 1 = N - (n + 1) /\ n + 1 \in 0..N
      OBVIOUS
    <3>2. E[N - n] # Invalid
      BY <2>2
    <3>3. E[(N - n) - 1] # Invalid
      BY <1>3, <3>1, <3>2, MergeTableKeeps
    <3> QED BY <3>1, <3>3
  <2> HIDE DEF V
  <2> QED BY <2>1, <2>2, CountingUp
<1>5. 0..N \subseteq S
  <2>1. 0 \in S
    BY <1>2
  <2>2. ASSUME NEW n \in 0..N - 1, n \in S PROVE n + 1 \in S
    <3>1. n + 1 \in 1..N /\ n + 1 \in 0..N /\ (n + 1) - 1 = n /\ N - (n + 1) \in 0..N /\ N - (N - (n + 1)) = n + 1
      OBVIOUS
    <3>2. E[n + 1] = Schema!MergeTable(E[n], app[n + 1]) /\ E[n + 1] # Invalid
      BY <1>3, <1>4, <3>1
    <3>3. \A k \in DOMAIN dependencies : k \in DOMAIN E[n + 1] /\ E[n + 1][k] = dependencies[k]
      BY <2>2, <3>2, MergeTableKeeps
    <3>4. ASSUME NEW i \in 1..n + 1 PROVE Schema!TableName(app[i]) \in DOMAIN E[n + 1]
      <4>1. CASE i = n + 1
        BY <3>2, <4>1, MergeTableKeeps
      <4>2. CASE i # n + 1
        <5>1. i \in 1..n
          BY <4>2
        <5>2. Schema!TableName(app[i]) \in DOMAIN E[n]
          BY <2>2, <5>1
        <5> QED BY <3>2, <5>2, MergeTableKeeps
      <4> QED BY <4>1, <4>2
    <3> QED BY <3>1, <3>3, <3>4
  <2> HIDE DEF S
  <2> QED BY <2>1, <2>2, CountingUp
<1>6. N \in S
  BY <1>5
<1> QED BY <1>1, <1>6 DEF dependencies

\* A compiled contract has as many entries in a list as its fragments declare
\* (merge_fragment, compose_frontend_field_contract).
LEMMA ListsAreComplete ==
    ASSUME NEW fragments \in Schema!SeqOf(Fragments, MaxFragments),
           Schema!ComposeFrontendFieldContract(fragments) # Invalid, NEW s \in Schema!ListSections
    PROVE  Len(Schema!ComposeFrontendFieldContract(fragments)[s]) = Schema!ListedUpTo(fragments, s)[Len(fragments)]
<1> DEFINE N == Len(fragments)
           X == UNION {Schema!Range(f[s]) : f \in Fragments}
           C == Schema!CompiledUpTo(fragments)
           T == Schema!ListedUpTo(fragments, s)
           S == {n \in 0..N : s \in DOMAIN C[n] /\ C[n][s] \in Seq(X) /\ T[n] = Len(C[n][s])}
           V == {n \in 0..N : C[N - n] # Invalid}
<1>1. N \in Nat /\ \A n \in 1..N : fragments[n] \in Fragments
  <2>1. PICK m \in 0..MaxFragments : fragments \in [1..m -> Fragments]
    BY DEF Schema!SeqOf
  <2> QED BY <2>1, SchemaAssumption
<1>2. Schema!ComposeFrontendFieldContract(fragments) = C[N]
  BY DEF Schema!ComposeFrontendFieldContract
<1>3. C[0] = [t \in Schema!ListSections \cup Schema!MappingSections |-> <<>>] /\ T[0] = 0
  <2>1. 0 \in 0..N
    BY <1>1
  <2> QED BY <1>1, <2>1, CompiledUnfolds, ListedUnfolds
<1>4. ASSUME NEW n \in 1..N
      PROVE  C[n] = Schema!MergeFragment(C[n - 1], fragments[n])
             /\ T[n] = T[n - 1] + Len(Schema!Declared(fragments[n], s, <<>>))
  <2>1. n \in 0..N /\ n # 0
    BY <1>1
  <2> QED BY <1>1, <2>1, CompiledUnfolds, ListedUnfolds
<1> HIDE DEF C, T
<1>5. \A compiled, fragment : Schema!MergeFragment(compiled, fragment) # Invalid => compiled # Invalid
  BY DEF Schema!MergeFragment
<1>6. 0..N \subseteq V
  <2>1. 0 \in V
    BY <1>1, <1>2
  <2>2. ASSUME NEW n \in 0..N - 1, n \in V PROVE n + 1 \in V
    <3>1. N - n \in 1..N /\ (N - n) - 1 = N - (n + 1) /\ n + 1 \in 0..N
      BY <1>1
    <3>2. C[N - n] # Invalid
      BY <2>2
    <3>3. C[(N - n) - 1] # Invalid
      BY <1>4, <1>5, <3>1, <3>2
    <3> QED BY <3>1, <3>3
  <2> HIDE DEF V
  <2> QED BY <1>1, <2>1, <2>2, CountingUp
<1>7. 0..N \subseteq S
  <2>1. 0 \in S
    <3>1. s \in DOMAIN C[0] /\ C[0][s] = <<>>
      BY <1>3
    <3>2. <<>> \in Seq(X) /\ Len(<<>>) = 0
      OBVIOUS
    <3>3. 0 \in 0..N
      BY <1>1
    <3>4. T[0] = Len(C[0][s]) /\ C[0][s] \in Seq(X)
      <4> HIDE DEF X
      <4> QED BY <1>3, <3>1, <3>2, Zenon
    <3> HIDE DEF X
    <3> QED BY <3>1, <3>3, <3>4, Zenon
  <2>2. ASSUME NEW n \in 0..N - 1, n \in S PROVE n + 1 \in S
    <3>1. n + 1 \in 1..N /\ n + 1 \in 0..N /\ (n + 1) - 1 = n /\ N - (n + 1) \in 0..N /\ N - (N - (n + 1)) = n + 1
      BY <1>1
    <3> DEFINE fragment == fragments[n + 1]
               sections == DOMAIN fragment \ Schema!MetadataKeys
               added == [t \in sections |->
                    CASE t \in Schema!ListSections -> C[n][t] \o fragment[t]
                      [] t \in Schema!MappingSections -> Schema!Insert(C[n][t], fragment[t])
                      [] OTHER -> fragment[t]]
    <3>2. C[n + 1] = Schema!MergeFragment(C[n], fragment) /\ C[n + 1] # Invalid
      BY <1>4, <1>6, <3>1
    <3>3. C[n + 1] = Schema!Insert(C[n], added)
      BY <3>2 DEF Schema!MergeFragment
    <3>4. T[n + 1] = T[n] + Len(Schema!Declared(fragment, s, <<>>))
      BY <1>4, <3>1
    <3>5. fragment \in Fragments /\ DOMAIN added = sections
      BY <1>1, <3>1
    <3>6. CASE s \in DOMAIN fragment
      <4>1. s \in sections
        BY <3>6 DEF Schema!ListSections, Schema!MetadataKeys
      <4>2. added[s] = C[n][s] \o fragment[s]
        BY <4>1 DEF Schema!ListSections, Schema!MappingSections
      <4>3. fragment[s] \in Seq(Schema!Range(fragment[s])) /\ Schema!Range(fragment[s]) \subseteq X
        <5> HIDE DEF fragment
        <5> QED BY <3>5, <3>6, SchemaAssumption
      <4> HIDE DEF fragment, added, sections
      <4>4. fragment[s] \in Seq(X)
        <5>1. \A A, B : A \subseteq B => Seq(A) \subseteq Seq(B)
          OBVIOUS
        <5> HIDE DEF X
        <5> QED BY <4>3, <5>1
      <4>5. s \in DOMAIN C[n + 1] /\ C[n + 1][s] = added[s]
        BY <3>3, <3>5, <4>1 DEF Schema!Insert
      <4>6. Schema!Declared(fragment, s, <<>>) = fragment[s]
        BY <3>6 DEF Schema!Declared
      <4>7. C[n][s] \in Seq(X) /\ T[n] = Len(C[n][s])
        BY <2>2
      <4>8. C[n + 1][s] \in Seq(X) /\ T[n + 1] = Len(C[n + 1][s])
        <5> DEFINE c == C[n][s]
                   d == fragment[s]
        <5>1. c \in Seq(X) /\ d \in Seq(X)
          BY <4>4, <4>7
        <5> HIDE DEF X, c, d
        <5>2. c \o d \in Seq(X) /\ Len(c \o d) = Len(c) + Len(d)
          BY <5>1
        <5>3. C[n + 1][s] = c \o d /\ T[n + 1] = Len(c) + Len(d)
          BY <3>4, <4>2, <4>5, <4>6, <4>7 DEF c, d
        <5> QED BY <5>2, <5>3
      <4> QED BY <3>1, <4>5, <4>8
    <3>7. CASE s \notin DOMAIN fragment
      <4>1. s \notin sections
        BY <3>7
      <4>2. Schema!Declared(fragment, s, <<>>) = <<>>
        BY <3>7 DEF Schema!Declared
      <4>3. s \in DOMAIN C[n] /\ C[n][s] \in Seq(X) /\ T[n] = Len(C[n][s])
        BY <2>2
      <4> HIDE DEF fragment, added, sections
      <4>4. s \in DOMAIN C[n + 1] /\ C[n + 1][s] = C[n][s]
        BY <3>3, <3>5, <4>1, <4>3 DEF Schema!Insert
      <4>5. Len(C[n][s]) \in Nat
        <5> HIDE DEF X
        <5> QED BY <4>3
      <4>6. T[n + 1] = T[n]
        <5> HIDE DEF X
        <5> QED BY <3>4, <4>2, <4>3, <4>5
      <4> HIDE DEF X
      <4> QED BY <3>1, <4>3, <4>4, <4>6
    <3> QED BY <3>6, <3>7
  <2> HIDE DEF S
  <2> QED BY <1>1, <2>1, <2>2, CountingUp
<1>8. T[N] = Len(C[N][s])
  <2>1. N \in S
    <3>1. N \in 0..N
      BY <1>1
    <3> HIDE DEF S
    <3> QED BY <1>7, <3>1
  <2> HIDE DEF X
  <2> QED BY <2>1
<1> HIDE DEF X
<1> QED BY <1>2, <1>8 DEF T

\* The invariant of the registry holds when its files are first read.
LEMMA SchemaInit == Schema!Init => Schema!IInv
<1> SUFFICES ASSUME Schema!Init PROVE Schema!IInv
  OBVIOUS
<1>1. <<>> \in [1..0 -> Fragments] /\ 0 \in 0..MaxFragments
  <2>1. 1..0 = {}
    OBVIOUS
  <2>2. <<>> \in [1..0 -> Fragments]
    BY <2>1
  <2> QED BY <2>2, SchemaAssumption
<1>2. <<>> \in Schema!SeqOf(Fragments, MaxFragments)
  BY <1>1 DEF Schema!SeqOf
<1> QED BY <1>2 DEF Schema!Init, Schema!IInv, Schema!TypeOK, Schema!ComposedIsCurrent, Schema!FrontendIsCurrent

\* What is composed depends on the files and on the application's tables only.
LEMMA CompositionIsStable ==
    ASSUME UNCHANGED <<files, app>>
    PROVE  Schema!ComposeSchemaRegistry' = Schema!ComposeSchemaRegistry
<1>1. files' = files /\ app' = app
  OBVIOUS
<1>2. \A tables, m : Schema!AddTables(tables, m)' = Schema!AddTables(tables, m)
  BY <1>1 DEF Schema!AddTables
<1>3. Schema!LoadDependencyTables' = Schema!LoadDependencyTables
  BY <1>1 DEF Schema!LoadDependencyTables, Schema!LoadedUpTo, Schema!AddTables
<1> QED BY <1>1, <1>3 DEF Schema!ComposeSchemaRegistry, Schema!EffectiveUpTo

\* A step of the registry keeps its invariant: whatever changes a file throws
\* what was composed from it away (compose_schema_registry,
\* compose_frontend_field_contract).
LEMMA SchemaStep ==
    ASSUME Schema!IInv, Schema!Next
    PROVE  Schema!IInv'
<1> USE DEF Schema!IInv, Schema!TypeOK, Schema!ComposedIsCurrent, Schema!FrontendIsCurrent
<1>1. CASE Schema!Compose
  <2>1. UNCHANGED <<files, app, index, frontend>> /\ composed' = Schema!ComposeSchemaRegistry
    BY <1>1 DEF Schema!Compose
  <2> QED BY <2>1, CompositionIsStable
<1>2. CASE Schema!ComposeFrontend
  <2>1. UNCHANGED <<files, app, index, composed>> /\ frontend' = Schema!ComposeFrontendFieldContract(index)
    BY <1>2 DEF Schema!ComposeFrontend
  <2> QED BY <2>1, CompositionIsStable
<1>3. CASE Schema!EditFile
  BY <1>3 DEF Schema!EditFile
<1>4. CASE Schema!EditIndex
  <2>1. UNCHANGED <<files, app, composed>> /\ frontend' = Invalid /\ index' \in Schema!SeqOf(Fragments, MaxFragments)
    BY <1>4 DEF Schema!EditIndex
  <2> QED BY <2>1, CompositionIsStable
<1> QED BY <1>1, <1>2, <1>3, <1>4 DEF Schema!Next

\* What was composed last keeps the tables of its owners: it is what the files
\* still say, and no round of the composition replaces a table.
LEMMA OwnersKeep == Schema!IInv => Schema!OwnersKeepTheirTables
<1> SUFFICES ASSUME Schema!IInv PROVE Schema!OwnersKeepTheirTables
  OBVIOUS
<1>1. Schema!TypeOK /\ Schema!ComposedIsCurrent /\ Schema!FrontendIsCurrent
  BY DEF Schema!IInv
<1>2. DOMAIN app = 1..Len(app) /\ Len(app) \in Nat
  <2>1. app \in Seq(Schema!Range(app))
    BY <1>1, SchemaAssumption DEF Schema!TypeOK
  <2> QED BY <2>1
<1>3. ASSUME composed # Invalid, NEW m \in Schema!Range(Module), files[m] # MissingFile, NEW i \in DOMAIN files[m]
      PROVE  LET table == composed[Schema!TableName(files[m][i])] IN
             /\ Schema!Declared(table, "imported_from_module", MissingFile) = m
             /\ ~Schema!Declared(table, "generated_by_this_project", TRUE)
             /\ \A k \in DOMAIN files[m][i] \ {"imported", "imported_from_module", "generated_by_this_project"} :
                 table[k] = files[m][i][k]
  <2> DEFINE name == Schema!TableName(files[m][i])
             table == composed[name]
             marks == [imported |-> TRUE, generated_by_this_project |-> FALSE, imported_from_module |-> m]
  <2>1. composed = Schema!ComposeSchemaRegistry /\ Schema!ComposeSchemaRegistry # Invalid
    BY <1>1, <1>3 DEF Schema!ComposedIsCurrent
  <2>2. /\ Schema!LoadDependencyTables # Invalid
        /\ \A n \in DOMAIN Schema!LoadDependencyTables :
             Schema!ComposeSchemaRegistry[n] = Schema!LoadDependencyTables[n]
    BY <1>2, <2>1, CompositionKeepsDependencies
  <2>3. /\ name \in DOMAIN Schema!LoadDependencyTables
        /\ Schema!LoadDependencyTables[name] = Schema!AnnotateTable(files[m][i], m)
    BY <1>3, <2>2, DependenciesAreLoaded
  <2>4. table = Schema!AnnotateTable(files[m][i], m)
    BY <2>1, <2>2, <2>3
  <2>5. m # MissingFile
    BY SchemaAssumption
  <2>6. table = Schema!Insert(files[m][i], marks)
    BY <2>4, <2>5 DEF Schema!AnnotateTable
  <2>7. /\ DOMAIN marks = {"imported", "generated_by_this_project", "imported_from_module"}
        /\ marks["imported_from_module"] = m /\ marks["generated_by_this_project"] = FALSE
    OBVIOUS
  <2> HIDE DEF table, marks
  <2>8. /\ "imported_from_module" \in DOMAIN table /\ table["imported_from_module"] = m
        /\ "generated_by_this_project" \in DOMAIN table /\ table["generated_by_this_project"] = FALSE
        /\ \A k \in DOMAIN files[m][i] \ {"imported", "imported_from_module", "generated_by_this_project"} :
             table[k] = files[m][i][k]
    BY <2>6, <2>7 DEF Schema!Insert
  <2> QED BY <2>8 DEF table, Schema!Declared
<1>4. ASSUME composed # Invalid, NEW i \in DOMAIN app PROVE Schema!TableName(app[i]) \in DOMAIN composed
  <2>1. composed = Schema!ComposeSchemaRegistry /\ Schema!ComposeSchemaRegistry # Invalid
    BY <1>1, <1>4 DEF Schema!ComposedIsCurrent
  <2> QED BY <1>2, <1>4, <2>1, CompositionKeepsDependencies
<1>5. ASSUME frontend # Invalid, NEW s \in Schema!ListSections
      PROVE  Len(frontend[s]) = Schema!ListedUpTo(index, s)[Len(index)]
  <2>1. /\ frontend = Schema!ComposeFrontendFieldContract(index) /\ frontend # Invalid
        /\ index \in Schema!SeqOf(Fragments, MaxFragments)
    BY <1>1, <1>5 DEF Schema!FrontendIsCurrent, Schema!TypeOK
  <2> QED BY <2>1, ListsAreComplete
<1> QED BY <1>3, <1>4, <1>5 DEF Schema!OwnersKeepTheirTables

-------------------------------------------------------------------------------
(* What modules contribute to a profile. *)

\* Documents are merged one after the other (merge_owned_documents).
LEMMA MergedUnfolds ==
    ASSUME NEW docs, Len(docs) \in Nat
    PROVE  Assembly!MergedUpTo(docs) =
            [n \in 0..Len(docs) |->
                IF n = 0 THEN [ok |-> TRUE, version |-> NoDocument, entries |-> <<>>]
                ELSE Assembly!MergeDocument(Assembly!MergedUpTo(docs)[n - 1], docs[n].owner, docs[n].document)]
<1> DEFINE Base == [ok |-> TRUE, version |-> NoDocument, entries |-> <<>>]
           Round(before, n) == Assembly!MergeDocument(before, docs[n].owner, docs[n].document)
           Unfolds(f, l) == f = [n \in 0..l |-> IF n = 0 THEN Base ELSE Round(f[n - 1], n)]
           S == {l \in 0..Len(docs) : \E f : Unfolds(f, l)}
<1> HIDE DEF Base, Round
<1>1. 0 \in S
  <2> DEFINE f == [n \in 0..0 |-> Base]
  <2>1. Unfolds(f, 0)
    OBVIOUS
  <2> HIDE DEF f, Unfolds
  <2> QED BY <2>1
<1>2. ASSUME NEW l \in 0..Len(docs) - 1, l \in S PROVE l + 1 \in S
  <2>1. PICK f : Unfolds(f, l)
    BY <1>2
  <2> DEFINE g == [n \in 0..l + 1 |-> IF n <= l THEN f[n] ELSE Round(f[n - 1], n)]
  <2>2. Unfolds(g, l + 1)
    BY <2>1
  <2> HIDE DEF g, Unfolds
  <2> QED BY <2>2
<1>3. 0..Len(docs) \subseteq S
  <2> HIDE DEF S
  <2> QED BY <1>1, <1>2, CountingUp
<1>4. PICK f : Unfolds(f, Len(docs))
  <2> HIDE DEF Unfolds
  <2> QED BY <1>3
<1> QED BY <1>4 DEF Base, Round, Assembly!MergedUpTo

\* The contributions of a module are kept one after the other (flatten).
LEMMA KeptUnfolds ==
    ASSUME NEW modules, NEW m, Len(modules[m].contributions) \in Nat
    PROVE  Assembly!KeptUpTo(modules, m) =
            [n \in 0..Len(modules[m].contributions) |->
                IF n = 0 THEN <<>>
                ELSE IF Assembly!MountedEarlier(modules, m, modules[m].contributions[n].owner) THEN Assembly!KeptUpTo(modules, m)[n - 1]
                ELSE Append(Assembly!KeptUpTo(modules, m)[n - 1], modules[m].contributions[n])]
<1> DEFINE Base == <<>>
           Round(before, n) == IF Assembly!MountedEarlier(modules, m, modules[m].contributions[n].owner) THEN before
                ELSE Append(before, modules[m].contributions[n])
           Unfolds(f, l) == f = [n \in 0..l |-> IF n = 0 THEN Base ELSE Round(f[n - 1], n)]
           S == {l \in 0..Len(modules[m].contributions) : \E f : Unfolds(f, l)}
<1> HIDE DEF Base, Round
<1>1. 0 \in S
  <2> DEFINE f == [n \in 0..0 |-> Base]
  <2>1. Unfolds(f, 0)
    OBVIOUS
  <2> HIDE DEF f, Unfolds
  <2> QED BY <2>1
<1>2. ASSUME NEW l \in 0..Len(modules[m].contributions) - 1, l \in S PROVE l + 1 \in S
  <2>1. PICK f : Unfolds(f, l)
    BY <1>2
  <2> DEFINE g == [n \in 0..l + 1 |-> IF n <= l THEN f[n] ELSE Round(f[n - 1], n)]
  <2>2. Unfolds(g, l + 1)
    BY <2>1
  <2> HIDE DEF g, Unfolds
  <2> QED BY <2>2
<1>3. 0..Len(modules[m].contributions) \subseteq S
  <2> HIDE DEF S
  <2> QED BY <1>1, <1>2, CountingUp
<1>4. PICK f : Unfolds(f, Len(modules[m].contributions))
  <2> HIDE DEF Unfolds
  <2> QED BY <1>3
<1> QED BY <1>4 DEF Base, Round, Assembly!KeptUpTo

\* Modules are flattened in the order of their registration (flatten).
LEMMA FlattenedUnfolds ==
    ASSUME NEW modules, Len(modules) \in Nat
    PROVE  Assembly!FlattenedUpTo(modules) =
            [n \in 0..Len(modules) |->
                IF n = 0 THEN <<>>
                ELSE Assembly!FlattenedUpTo(modules)[n - 1] \o Assembly!Kept(modules, n)]
<1> DEFINE Base == <<>>
           Round(before, n) == before \o Assembly!Kept(modules, n)
           Unfolds(f, l) == f = [n \in 0..l |-> IF n = 0 THEN Base ELSE Round(f[n - 1], n)]
           S == {l \in 0..Len(modules) : \E f : Unfolds(f, l)}
<1> HIDE DEF Base, Round
<1>1. 0 \in S
  <2> DEFINE f == [n \in 0..0 |-> Base]
  <2>1. Unfolds(f, 0)
    OBVIOUS
  <2> HIDE DEF f, Unfolds
  <2> QED BY <2>1
<1>2. ASSUME NEW l \in 0..Len(modules) - 1, l \in S PROVE l + 1 \in S
  <2>1. PICK f : Unfolds(f, l)
    BY <1>2
  <2> DEFINE g == [n \in 0..l + 1 |-> IF n <= l THEN f[n] ELSE Round(f[n - 1], n)]
  <2>2. Unfolds(g, l + 1)
    BY <2>1
  <2> HIDE DEF g, Unfolds
  <2> QED BY <2>2
<1>3. 0..Len(modules) \subseteq S
  <2> HIDE DEF S
  <2> QED BY <1>1, <1>2, CountingUp
<1>4. PICK f : Unfolds(f, Len(modules))
  <2> HIDE DEF Unfolds
  <2> QED BY <1>3
<1> QED BY <1>4 DEF Base, Round, Assembly!FlattenedUpTo

\* The routes of the contributions follow one another (try_compose).
LEMMA RoutesUnfold ==
    ASSUME NEW contributions, Len(contributions) \in Nat
    PROVE  Assembly!RoutesUpTo(contributions) =
            [n \in 0..Len(contributions) |->
                IF n = 0 THEN <<>>
                ELSE Assembly!RoutesUpTo(contributions)[n - 1] \o contributions[n].routes]
<1> DEFINE Base == <<>>
           Round(before, n) == before \o contributions[n].routes
           Unfolds(f, l) == f = [n \in 0..l |-> IF n = 0 THEN Base ELSE Round(f[n - 1], n)]
           S == {l \in 0..Len(contributions) : \E f : Unfolds(f, l)}
<1> HIDE DEF Base, Round
<1>1. 0 \in S
  <2> DEFINE f == [n \in 0..0 |-> Base]
  <2>1. Unfolds(f, 0)
    OBVIOUS
  <2> HIDE DEF f, Unfolds
  <2> QED BY <2>1
<1>2. ASSUME NEW l \in 0..Len(contributions) - 1, l \in S PROVE l + 1 \in S
  <2>1. PICK f : Unfolds(f, l)
    BY <1>2
  <2> DEFINE g == [n \in 0..l + 1 |-> IF n <= l THEN f[n] ELSE Round(f[n - 1], n)]
  <2>2. Unfolds(g, l + 1)
    BY <2>1
  <2> HIDE DEF g, Unfolds
  <2> QED BY <2>2
<1>3. 0..Len(contributions) \subseteq S
  <2> HIDE DEF S
  <2> QED BY <1>1, <1>2, CountingUp
<1>4. PICK f : Unfolds(f, Len(contributions))
  <2> HIDE DEF Unfolds
  <2> QED BY <1>3
<1> QED BY <1>4 DEF Base, Round, Assembly!RoutesUpTo


\* Only contributions that are valid are registered (ApiModuleRegistry).
LEMMA AssemblyInit == Assembly!Init => Assembly!IInv
  BY DEF Assembly!Init, Assembly!IInv, Assembly!TypeOK, Assembly!ProfileIsComposed, Assembly!Composed

\* Registering, mounting and composing keep the registry and the composed profile
\* well formed: a refusal leaves the registry as it was, and a profile exists only
\* once composed (ApiModuleRegistry, ApiAssemblyProfile::try_compose).
LEMMA AssemblyStep ==
    ASSUME Assembly!IInv, Assembly!Next
    PROVE  Assembly!IInv'
<1> DEFINE Entry == [owner : Assembly!Owners, contributions : Seq(Assembly!Contributions)]
<1>0. /\ registry = [modules |-> registry.modules, ignored |-> registry.ignored]
      /\ registry.modules \in Seq(Entry) /\ registry.ignored \in Seq(Assembly!Owners) /\ assembling \in BOOLEAN
      /\ Assembly!ProfileIsComposed
  BY DEF Assembly!IInv, Assembly!TypeOK
<1>1. ASSUME Assembly!Fail PROVE Assembly!IInv'
  BY <1>0, <1>1 DEF Assembly!Fail, Assembly!IInv, Assembly!TypeOK, Assembly!ProfileIsComposed, Assembly!Composed
<1>2. ASSUME NEW owner \in Assembly!Owners, NEW contributions \in Seq(Assembly!Contributions),
             Assembly!Room, Assembly!Register(owner, contributions)
      PROVE  Assembly!IInv'
  <2> DEFINE entry == [owner |-> owner, contributions |-> contributions]
  <2>1. assembling /\ UNCHANGED <<profile, assembling>>
    BY <1>2 DEF Assembly!Room, Assembly!Register
  <2>2. ~Assembly!Composed'
    BY <1>0, <2>1 DEF Assembly!ProfileIsComposed, Assembly!Composed
  <2>3. entry \in Entry
    OBVIOUS
  <2>4. \/ registry' = [modules |-> registry.modules, ignored |-> Append(registry.ignored, owner)]
        \/ registry' = [modules |-> Append(registry.modules, entry), ignored |-> registry.ignored]
    BY <1>0, <1>2 DEF Assembly!Register
  <2>5. Append(registry.modules, entry) \in Seq(Entry) /\ Append(registry.ignored, owner) \in Seq(Assembly!Owners)
    <3> HIDE DEF Entry, entry
    <3> QED BY <1>0, <2>3
  <2>6. Assembly!TypeOK'
    <3> HIDE DEF entry
    <3>1. registry' \in [modules : Seq(Entry), ignored : Seq(Assembly!Owners)]
      <4> DEFINE M == Seq(Entry)
                 I == Seq(Assembly!Owners)
      <4>1. /\ registry.modules \in M /\ Append(registry.modules, entry) \in M
            /\ registry.ignored \in I /\ Append(registry.ignored, owner) \in I
        BY <1>0, <2>5
      <4> HIDE DEF Entry, M, I
      <4>2. \A a \in M, b \in I : [modules |-> a, ignored |-> b] \in [modules : M, ignored : I]
        OBVIOUS
      <4>3. registry' \in [modules : M, ignored : I]
        BY <2>4, <4>1, <4>2, Zenon
      <4> QED BY <4>3 DEF M, I
    <3> QED BY <1>0, <2>1, <3>1 DEF Assembly!TypeOK
  <2> QED BY <2>2, <2>6 DEF Assembly!IInv, Assembly!ProfileIsComposed
<1>3. ASSUME NEW m \in Modules, Assembly!AddModule(m) PROVE Assembly!IInv'
  <2> DEFINE contributions == [i \in DOMAIN m.sources |-> Assembly!Contribute(m.sources[i])]
  <2>1. Assembly!Room
    BY <1>3 DEF Assembly!AddModule
  <2>2. CASE Assembly!Fail
    BY <1>1, <2>2
  <2>3. CASE Assembly!Register(m.owner, contributions) /\ ~\E i \in DOMAIN contributions : contributions[i] = Refused
    <3>1. m.sources \in Seq(Assembly!Sources) /\ m.owner \in Assembly!Owners
      BY AssemblyAssumption DEF Assembly!Owners
    <3>2. \A i \in 1..Len(m.sources) : m.sources[i] \in Assembly!Sources
      BY <3>1
    <3>3. \A i \in 1..Len(m.sources) : Assembly!Contribute(m.sources[i]) \in Assembly!Contributions
      BY <2>3, <3>1, <3>2 DEF Assembly!Contributions
    <3>4. contributions \in Seq(Assembly!Contributions)
      BY <3>1, <3>3
    <3> HIDE DEF contributions
    <3> QED BY <1>2, <2>1, <2>3, <3>1, <3>4
  <2> QED BY <1>3, <2>2, <2>3 DEF Assembly!AddModule
<1>4. ASSUME NEW d \in Dependencies, Assembly!AddHost(d[1], d[2]) PROVE Assembly!IInv'
  <2> DEFINE mount == Assembly!Mount(d[1], d[2])
  <2>1. Assembly!Room
    BY <1>4 DEF Assembly!AddHost
  <2>2. CASE Assembly!Fail
    BY <1>1, <2>2
  <2>3. CASE Assembly!Register(d[1].owner, <<mount>>) /\ mount # Refused
    <3>1. mount \in Assembly!Contributions /\ d[1].owner \in Assembly!Owners
      BY <2>3 DEF Assembly!Contributions, Assembly!Owners
    <3> HIDE DEF mount
    <3>2. <<mount>> \in Seq(Assembly!Contributions)
      BY <3>1
    <3> QED BY <1>2, <2>1, <2>3, <3>1, <3>2
  <2> QED BY <1>4, <2>2, <2>3 DEF Assembly!AddHost
<1>5. CASE Assembly!Compose
  BY <1>0, <1>5 DEF Assembly!Compose, Assembly!IInv, Assembly!TypeOK, Assembly!ProfileIsComposed
<1> QED BY <1>3, <1>4, <1>5 DEF Assembly!Next

-------------------------------------------------------------------------------
(* What a merge of documents says, without its loop. *)

\* Two documents that can be merged: one version line, no operation of both, and
\* the shared parts that must agree do.
Agree(d, e) ==
    /\ d.version.line = e.version.line
    /\ \A k \in DOMAIN d.entries \cap DOMAIN e.entries :
        /\ Assembly!Rule(k.section) # "unique"
        /\ Assembly!Rule(k.section) = "equal" => d.entries[k] = e.entries[k]

\* The first n documents fit each other, so that a merge of them in any order is
\* accepted (merge_openapi_documents).
Compatible(docs, n) ==
    /\ \A i \in 1..n : docs[i].document.shaped
    /\ \A i, j \in 1..n : i # j => Agree(docs[i].document, docs[j].document)

\* An entry of the merged document is one of a document it was merged from.
ComesFrom(docs, n, k, entry) ==
    \E i \in 1..n : /\ k \in DOMAIN docs[i].document.entries
                    /\ entry = [owner |-> docs[i].owner, value |-> docs[i].document.entries[k]]

\* The state of a merge after the first n documents.
IsMergeOf(m, docs, n) ==
    /\ m = [ok |-> m.ok, version |-> m.version, entries |-> m.entries] /\ m.ok \in BOOLEAN
    /\ m.ok <=> Compatible(docs, n)
    /\ m.ok =>
        /\ Assembly!IsFiniteSet(DOMAIN m.entries)
        /\ DOMAIN m.entries = UNION {DOMAIN docs[i].document.entries : i \in 1..n}
        /\ \A k \in DOMAIN m.entries : ComesFrom(docs, n, k, m.entries[k])
        /\ n = 0 => m.version = NoDocument
        /\ n > 0 => \E i \in 1..n : /\ m.version = docs[i].document.version
                                    /\ \A j \in 1..n : docs[j].document.version.patch <= m.version.patch

\* A sequence of contributions' documents, as the merge is given them
\* (merge_openapi_documents).
AreDocuments(docs) == Len(docs) \in Nat /\ \A i \in 1..Len(docs) : Assembly!IsDocument(docs[i].document)

\* Finiteness is the same notion wherever it is defined.
LEMMA FiniteIsFinite == \A S : Assembly!IsFiniteSet(S) <=> IsFiniteSet(S)
  BY DEF IsFiniteSet, Assembly!IsFiniteSet

\* One document more (merge_document): refused when it does not fit what is there,
\* else added behind it.
LEMMA MergeOneMore ==
    ASSUME NEW m, NEW owner, NEW d, Assembly!IsDocument(d), m.ok \in BOOLEAN,
           m = [ok |-> m.ok, version |-> m.version, entries |-> m.entries]
    PROVE  LET n == Assembly!MergeDocument(m, owner, d) IN
           /\ n = [ok |-> n.ok, version |-> n.version, entries |-> n.entries] /\ n.ok \in BOOLEAN
           /\ n.ok <=> /\ m.ok /\ d.shaped
                       /\ m.version = NoDocument \/ m.version.line = d.version.line
                       /\ \A k \in DOMAIN d.entries \cap DOMAIN m.entries :
                            /\ Assembly!Rule(k.section) # "unique"
                            /\ Assembly!Rule(k.section) = "equal" => m.entries[k].value = d.entries[k]
           /\ n.ok =>
                /\ n.version = IF m.version = NoDocument \/ d.version.patch > m.version.patch
                               THEN d.version ELSE m.version
                /\ DOMAIN n.entries = DOMAIN m.entries \cup DOMAIN d.entries
                /\ \A k \in DOMAIN m.entries : n.entries[k] = m.entries[k]
                /\ \A k \in DOMAIN d.entries \ DOMAIN m.entries :
                    n.entries[k] = [owner |-> owner, value |-> d.entries[k]]
<1> DEFINE n == Assembly!MergeDocument(m, owner, d)
           fits == /\ m.ok /\ d.shaped
                   /\ m.version = NoDocument \/ m.version.line = d.version.line
                   /\ \A k \in DOMAIN d.entries \cap DOMAIN m.entries :
                        /\ Assembly!Rule(k.section) # "unique"
                        /\ Assembly!Rule(k.section) = "equal" => m.entries[k].value = d.entries[k]
           owned == Assembly!OwnedEntries(owner, d.entries)
           version == IF m.version = NoDocument \/ d.version.patch > m.version.patch THEN d.version ELSE m.version
           entries == Assembly!FirstOf(m.entries, owned)
<1>1. /\ DOMAIN owned = DOMAIN d.entries
      /\ \A k \in DOMAIN d.entries : owned[k] = [owner |-> owner, value |-> d.entries[k]]
  BY DEF Assembly!OwnedEntries
<1>2. /\ DOMAIN entries = DOMAIN m.entries \cup DOMAIN d.entries
      /\ \A k \in DOMAIN m.entries : entries[k] = m.entries[k]
      /\ \A k \in DOMAIN d.entries \ DOMAIN m.entries : entries[k] = [owner |-> owner, value |-> d.entries[k]]
  <2> HIDE DEF owned
  <2> QED BY <1>1 DEF Assembly!FirstOf
<1>3. fits \in BOOLEAN /\ (fits <=>
            /\ m.ok /\ Assembly!WellShaped(d)
            /\ m.version = NoDocument \/ Assembly!OpenApiSameMinorLine(m.version, d.version)
            /\ Assembly!MergePaths(m.entries, d.entries)
            /\ Assembly!MergeCompatibleValue(m.entries, d.entries))
  BY DEF Assembly!IsDocument, Assembly!WellShaped, Assembly!OpenApiSameMinorLine, Assembly!MergePaths,
         Assembly!MergeCompatibleValue
<1>4. n = IF fits THEN [ok |-> TRUE, version |-> version, entries |-> entries] ELSE [m EXCEPT !.ok = FALSE]
  <2> HIDE DEF fits
  <2> QED BY <1>3 DEF Assembly!MergeDocument, Assembly!MergeOpenApiVersion, Assembly!OpenApiVersionRank,
                      Assembly!MergeComponents
<1>5. /\ n = [ok |-> n.ok, version |-> n.version, entries |-> n.entries] /\ n.ok \in BOOLEAN
      /\ n.ok <=> fits
      /\ n.ok => n.version = version /\ n.entries = entries
  <2> HIDE DEF n, fits, version, entries
  <2>1. CASE fits
    BY <1>4, <2>1
  <2>2. CASE ~fits
    <3>1. n = [ok |-> FALSE, version |-> m.version, entries |-> m.entries]
      BY <1>4, <2>2
    <3> QED BY <2>2, <3>1
  <2> QED BY <2>1, <2>2
<1> HIDE DEF n, entries
<1>6. /\ n.ok => n.version = version
      /\ n.ok => /\ DOMAIN n.entries = DOMAIN m.entries \cup DOMAIN d.entries
                 /\ \A k \in DOMAIN m.entries : n.entries[k] = m.entries[k]
                 /\ \A k \in DOMAIN d.entries \ DOMAIN m.entries :
                        n.entries[k] = [owner |-> owner, value |-> d.entries[k]]
  <2> HIDE DEF fits, version
  <2> QED BY <1>2, <1>5
<1> QED BY <1>5, <1>6 DEF n

\* Every state of a merge is what the documents so far determine, in whatever way
\* the loop came to it (merge_owned_documents).
LEMMA MergeStates ==
    ASSUME NEW docs, AreDocuments(docs), NEW n \in 0..Len(docs)
    PROVE  IsMergeOf(Assembly!MergedUpTo(docs)[n], docs, n)
<1> DEFINE N == Len(docs)
           M == Assembly!MergedUpTo(docs)
           S == {l \in 0..N : IsMergeOf(M[l], docs, l)}
<1>1. N \in Nat /\ \A i \in 1..N : Assembly!IsDocument(docs[i].document)
  BY DEF AreDocuments
<1>2. M[0] = [ok |-> TRUE, version |-> NoDocument, entries |-> <<>>]
  <2>1. 0 \in 0..N
    BY <1>1
  <2> QED BY <1>1, <2>1, MergedUnfolds
<1>3. ASSUME NEW l \in 1..N
      PROVE  M[l] = Assembly!MergeDocument(M[l - 1], docs[l].owner, docs[l].document)
  <2>1. l \in 0..N /\ l # 0
    BY <1>1
  <2> QED BY <1>1, <2>1, MergedUnfolds
<1> HIDE DEF M
<1>4. 0 \in S
  <2>1. DOMAIN M[0].entries = {} /\ M[0].ok = TRUE /\ M[0].version = NoDocument
    BY <1>2
  <2>2. UNION {DOMAIN docs[i].document.entries : i \in 1..0} = {}
    OBVIOUS
  <2>3. Assembly!IsFiniteSet({})
    BY FiniteIsFinite, FS_EmptySet
  <2>4. Compatible(docs, 0)
    BY DEF Compatible
  <2>5. M[0] = [ok |-> M[0].ok, version |-> M[0].version, entries |-> M[0].entries]
    BY <1>2
  <2>6. IsMergeOf(M[0], docs, 0)
    <3> DEFINE m == M[0]
    <3> HIDE DEF m
    <3>1. /\ m = [ok |-> m.ok, version |-> m.version, entries |-> m.entries] /\ m.ok = TRUE
          /\ DOMAIN m.entries = {} /\ m.version = NoDocument
      BY <2>1, <2>5 DEF m
    <3>2. /\ DOMAIN m.entries = UNION {DOMAIN docs[i].document.entries : i \in 1..0}
          /\ \A k \in DOMAIN m.entries : ComesFrom(docs, 0, k, m.entries[k])
          /\ Assembly!IsFiniteSet(DOMAIN m.entries) /\ m.ok \in BOOLEAN
      BY <2>2, <2>3, <3>1, Zenon
    <3>3. ~(0 > 0)
      OBVIOUS
    <3>4. IsMergeOf(m, docs, 0)
      BY <2>4, <3>1, <3>2, <3>3, Zenon DEF IsMergeOf
    <3> QED BY <3>4 DEF m
  <2> QED BY <1>1, <2>6
<1>5. ASSUME NEW l \in 0..N - 1, l \in S PROVE l + 1 \in S
  <2> DEFINE m == M[l]
             r == M[l + 1]
             d == docs[l + 1].document
             D(i) == docs[i].document
  <2>1. l + 1 \in 1..N /\ l + 1 \in 0..N /\ (l + 1) - 1 = l /\ l \in Nat
        /\ \A i \in 1..l : i \in 1..N /\ i \in 1..l + 1 /\ i # l + 1
    BY <1>1
  <2>2. Assembly!IsDocument(d) /\ r = Assembly!MergeDocument(m, docs[l + 1].owner, d)
    BY <1>1, <1>3, <2>1
  <2>3. IsMergeOf(m, docs, l)
    BY <1>5
  <2>4. /\ m.ok \in BOOLEAN /\ m = [ok |-> m.ok, version |-> m.version, entries |-> m.entries]
        /\ m.ok <=> Compatible(docs, l)
    BY <2>3 DEF IsMergeOf
  <2>5. /\ r = [ok |-> r.ok, version |-> r.version, entries |-> r.entries] /\ r.ok \in BOOLEAN
        /\ r.ok <=> /\ m.ok /\ d.shaped
                    /\ m.version = NoDocument \/ m.version.line = d.version.line
                    /\ \A k \in DOMAIN d.entries \cap DOMAIN m.entries :
                         /\ Assembly!Rule(k.section) # "unique"
                         /\ Assembly!Rule(k.section) = "equal" => m.entries[k].value = d.entries[k]
        /\ r.ok =>
             /\ r.version = IF m.version = NoDocument \/ d.version.patch > m.version.patch
                            THEN d.version ELSE m.version
             /\ DOMAIN r.entries = DOMAIN m.entries \cup DOMAIN d.entries
             /\ \A k \in DOMAIN m.entries : r.entries[k] = m.entries[k]
             /\ \A k \in DOMAIN d.entries \ DOMAIN m.entries :
                 r.entries[k] = [owner |-> docs[l + 1].owner, value |-> d.entries[k]]
    <3> HIDE DEF m, r, d
    <3> QED BY <2>2, <2>4, MergeOneMore
  <2>6. \A i \in 1..N : /\ D(i).version.patch \in Nat /\ D(i).version # NoDocument
                        /\ D(i).shaped \in BOOLEAN /\ Assembly!IsFiniteSet(DOMAIN D(i).entries)
    BY <1>1 DEF Assembly!IsDocument, Assembly!IsVersion
  <2>7. Compatible(docs, l + 1) <=> Compatible(docs, l) /\ d.shaped /\ \A i \in 1..l : Agree(D(i), d)
    <3>1. \A i, j : Agree(D(i), D(j)) <=> Agree(D(j), D(i))
      BY DEF Agree
    <3>2. 1..l + 1 = (1..l) \cup {l + 1}
      BY <2>1
    <3>3. l + 1 \notin 1..l
      BY <2>1
    <3> QED BY <3>1, <3>2, <3>3 DEF Compatible
  <2>8. ASSUME m.ok
        PROVE  (\A i \in 1..l : Agree(D(i), d)) <=>
                /\ m.version = NoDocument \/ m.version.line = d.version.line
                /\ \A k \in DOMAIN d.entries \cap DOMAIN m.entries :
                     /\ Assembly!Rule(k.section) # "unique"
                     /\ Assembly!Rule(k.section) = "equal" => m.entries[k].value = d.entries[k]
    <3>1. /\ DOMAIN m.entries = UNION {DOMAIN D(i).entries : i \in 1..l}
          /\ \A k \in DOMAIN m.entries : ComesFrom(docs, l, k, m.entries[k])
          /\ l = 0 => m.version = NoDocument
          /\ l > 0 => \E i \in 1..l : m.version = D(i).version
          /\ Compatible(docs, l)
      BY <2>3, <2>8 DEF IsMergeOf
    <3>2. (\A i \in 1..l : D(i).version.line = d.version.line)
            <=> m.version = NoDocument \/ m.version.line = d.version.line
      <4>1. CASE l = 0
        BY <3>1, <4>1
      <4>2. CASE l > 0
        <5>1. PICK i \in 1..l : m.version = D(i).version
          BY <3>1, <4>2
        <5>2. m.version # NoDocument
          BY <2>1, <2>6, <5>1
        <5>3. \A j \in 1..l : D(j).version.line = m.version.line
          BY <3>1, <5>1 DEF Compatible, Agree
        <5> QED BY <5>1, <5>2, <5>3
      <4> QED BY <2>1, <4>1, <4>2
    <3>3. ASSUME NEW k \in DOMAIN d.entries \cap DOMAIN m.entries
          PROVE  /\ \E i \in 1..l : k \in DOMAIN D(i).entries
                 /\ Assembly!Rule(k.section) = "equal" =>
                     \A i \in 1..l : k \in DOMAIN D(i).entries => D(i).entries[k] = m.entries[k].value
      <4>1. PICK i \in 1..l : /\ k \in DOMAIN D(i).entries
                              /\ m.entries[k] = [owner |-> docs[i].owner, value |-> D(i).entries[k]]
        BY <3>1 DEF ComesFrom
      <4>2. m.entries[k].value = D(i).entries[k]
        BY <4>1
      <4>3. ASSUME Assembly!Rule(k.section) = "equal", NEW j \in 1..l, k \in DOMAIN D(j).entries
            PROVE  D(j).entries[k] = D(i).entries[k]
        BY <3>1, <4>1, <4>3 DEF Compatible, Agree
      <4> QED BY <4>1, <4>2, <4>3
    <3>4. \A i \in 1..l : DOMAIN D(i).entries \subseteq DOMAIN m.entries
      BY <3>1
    <3>5. (\A i \in 1..l : Agree(D(i), d)) <=>
            /\ \A i \in 1..l : D(i).version.line = d.version.line
            /\ \A i \in 1..l : \A k \in DOMAIN D(i).entries \cap DOMAIN d.entries :
                /\ Assembly!Rule(k.section) # "unique"
                /\ Assembly!Rule(k.section) = "equal" => D(i).entries[k] = d.entries[k]
      BY DEF Agree
    <3> HIDE DEF m, d, D
    <3>6. (\A i \in 1..l : \A k \in DOMAIN D(i).entries \cap DOMAIN d.entries :
                /\ Assembly!Rule(k.section) # "unique"
                /\ Assembly!Rule(k.section) = "equal" => D(i).entries[k] = d.entries[k])
            <=> \A k \in DOMAIN d.entries \cap DOMAIN m.entries :
                     /\ Assembly!Rule(k.section) # "unique"
                     /\ Assembly!Rule(k.section) = "equal" => m.entries[k].value = d.entries[k]
      BY <3>3, <3>4
    <3> QED BY <3>2, <3>5, <3>6
  <2>9. r.ok <=> Compatible(docs, l + 1)
    <3> HIDE DEF m, r, d, D
    <3> QED BY <2>4, <2>5, <2>7, <2>8
  <2>10. ASSUME r.ok
         PROVE  /\ Assembly!IsFiniteSet(DOMAIN r.entries)
                /\ DOMAIN r.entries = UNION {DOMAIN docs[i].document.entries : i \in 1..l + 1}
                /\ \A k \in DOMAIN r.entries : ComesFrom(docs, l + 1, k, r.entries[k])
                /\ \E i \in 1..l + 1 : /\ r.version = D(i).version
                                       /\ \A j \in 1..l + 1 : D(j).version.patch <= r.version.patch
    <3>0. m.ok
      <4> HIDE DEF m, r, d, D
      <4> QED BY <2>5, <2>10
    <3>1. /\ DOMAIN m.entries = UNION {DOMAIN D(i).entries : i \in 1..l}
          /\ Assembly!IsFiniteSet(DOMAIN m.entries)
          /\ \A k \in DOMAIN m.entries : ComesFrom(docs, l, k, m.entries[k])
          /\ l = 0 => m.version = NoDocument
          /\ l > 0 => \E i \in 1..l : /\ m.version = D(i).version
                                      /\ \A j \in 1..l : D(j).version.patch <= m.version.patch
      BY <2>3, <3>0 DEF IsMergeOf
    <3>2. /\ r.version = IF m.version = NoDocument \/ d.version.patch > m.version.patch
                         THEN d.version ELSE m.version
          /\ DOMAIN r.entries = DOMAIN m.entries \cup DOMAIN d.entries
          /\ \A k \in DOMAIN m.entries : r.entries[k] = m.entries[k]
          /\ \A k \in DOMAIN d.entries \ DOMAIN m.entries :
              r.entries[k] = [owner |-> docs[l + 1].owner, value |-> d.entries[k]]
      <4> HIDE DEF m, r, d, D
      <4> QED BY <2>5, <2>10
    <3>3. Assembly!IsFiniteSet(DOMAIN r.entries)
      <4>1. IsFiniteSet(DOMAIN m.entries) /\ IsFiniteSet(DOMAIN d.entries)
        BY <2>1, <2>6, <3>1, FiniteIsFinite
      <4>2. IsFiniteSet(DOMAIN m.entries \cup DOMAIN d.entries)
        BY <4>1, FS_Union
      <4> HIDE DEF m, r, d
      <4> QED BY <3>2, <4>2, FiniteIsFinite
    <3>4. DOMAIN r.entries = UNION {DOMAIN D(i).entries : i \in 1..l + 1}
      <4>1. 1..l + 1 = (1..l) \cup {l + 1} /\ d = D(l + 1)
        BY <2>1
      <4> HIDE DEF m, r, d, D
      <4> QED BY <3>1, <3>2, <4>1
    <3>5. ASSUME NEW k \in DOMAIN r.entries PROVE ComesFrom(docs, l + 1, k, r.entries[k])
      <4>1. CASE k \in DOMAIN m.entries
        <5>1. PICK i \in 1..l : /\ k \in DOMAIN D(i).entries
                                /\ m.entries[k] = [owner |-> docs[i].owner, value |-> D(i).entries[k]]
          BY <3>1, <4>1 DEF ComesFrom
        <5>2. r.entries[k] = m.entries[k]
          BY <3>2, <4>1
        <5> HIDE DEF m, r
        <5> QED BY <2>1, <5>1, <5>2 DEF ComesFrom
      <4>2. CASE k \notin DOMAIN m.entries
        <5>1. k \in DOMAIN d.entries /\ r.entries[k] = [owner |-> docs[l + 1].owner, value |-> d.entries[k]]
          BY <3>2, <4>2
        <5>2. l + 1 \in 1..l + 1
          BY <2>1
        <5> HIDE DEF m, r
        <5> QED BY <5>1, <5>2 DEF ComesFrom
      <4> QED BY <4>1, <4>2
    <3>6. \E i \in 1..l + 1 : /\ r.version = D(i).version
                              /\ \A j \in 1..l + 1 : D(j).version.patch <= r.version.patch
      <4> DEFINE P(j) == D(j).version.patch
      <4>0. \A j \in 1..l + 1 : P(j) \in Nat /\ (j \in 1..l \/ j = l + 1)
        <5>1. \A j \in 1..l + 1 : j \in 1..N /\ (j \in 1..l \/ j = l + 1)
          BY <1>1, <2>1
        <5> HIDE DEF D
        <5> QED BY <2>6, <5>1
      <4>1. CASE l = 0
        <5>1. r.version = D(l + 1).version
          BY <3>1, <3>2, <4>1
        <5>2. \A j \in 1..l + 1 : j = l + 1
          BY <4>1
        <5>3. l + 1 \in 1..l + 1 /\ P(l + 1) <= P(l + 1)
          BY <2>1, <4>0
        <5> HIDE DEF r, D
        <5> QED BY <5>1, <5>2, <5>3
      <4>2. CASE l > 0
        <5>1. PICK i \in 1..l : m.version = D(i).version /\ \A j \in 1..l : P(j) <= m.version.patch
          BY <3>1, <4>2
        <5>2. m.version # NoDocument /\ m.version.patch = P(i) /\ P(i) \in Nat /\ P(l + 1) \in Nat /\ i \in 1..l + 1
              /\ l + 1 \in 1..l + 1
          <6>1. i \in 1..N /\ i \in 1..l + 1 /\ l + 1 \in 1..l + 1
            BY <2>1
          <6> HIDE DEF m, D
          <6>2. m.version # NoDocument /\ m.version.patch = P(i)
            BY <2>6, <5>1, <6>1
          <6> QED BY <4>0, <6>1, <6>2
        <5>3. CASE P(l + 1) > P(i)
          <6>1. r.version = D(l + 1).version
            BY <3>2, <5>2, <5>3
          <6>2. \A j \in 1..l + 1 : P(j) <= P(l + 1)
            <7> HIDE DEF P
            <7> QED BY <4>0, <5>1, <5>2, <5>3
          <6> HIDE DEF r, D
          <6> QED BY <5>2, <6>1, <6>2
        <5>4. CASE ~(P(l + 1) > P(i))
          <6>1. r.version = D(i).version
            BY <3>2, <5>1, <5>2, <5>4
          <6>2. \A j \in 1..l + 1 : P(j) <= P(i)
            <7> HIDE DEF P
            <7> QED BY <4>0, <5>1, <5>2, <5>4
          <6> HIDE DEF r, D
          <6> QED BY <5>2, <6>1, <6>2
        <5> QED BY <5>3, <5>4
      <4> QED BY <2>1, <4>1, <4>2
    <3> QED BY <3>3, <3>4, <3>5, <3>6
  <2>11. IsMergeOf(r, docs, l + 1)
    <3>1. l + 1 # 0
      BY <2>1
    <3> HIDE DEF r, m
    <3> QED BY <2>5, <2>9, <2>10, <3>1 DEF IsMergeOf
  <2> QED BY <2>1, <2>11
<1>6. 0..N \subseteq S
  <2> HIDE DEF S
  <2> QED BY <1>1, <1>4, <1>5, CountingUp
<1> QED BY <1>6 DEF M

\* Operations belong to one owner.
LEMMA OperationsAreUnique == Assembly!Rule("operation") = "unique"
<1> DEFINE all == {Assembly!MergeInfo, Assembly!PathRules, Assembly!ComponentRules, Assembly!MergeTags,
                   Assembly!MergeServers, Assembly!MergeSecurity, Assembly!MergeWebhooks,
                   Assembly!MergeTopLevelValue}
           rules == CHOOSE r \in all : "operation" \in DOMAIN r
<1>1. /\ "operation" \in DOMAIN Assembly!PathRules
      /\ \A r \in all : "operation" \in DOMAIN r => r = Assembly!PathRules
  BY DEF Assembly!MergeInfo, Assembly!PathRules, Assembly!ComponentRules, Assembly!MergeTags,
         Assembly!MergeServers, Assembly!MergeSecurity, Assembly!MergeWebhooks, Assembly!MergeTopLevelValue
<1>2. rules = Assembly!PathRules
  BY <1>1
<1>3. Assembly!PathRules["operation"] = "unique"
  BY DEF Assembly!PathRules
<1> HIDE DEF rules
<1> QED BY <1>2, <1>3 DEF rules, Assembly!Rule

\* The documents of the owners in another order.
Reordered(docs, order) == [i \in 1..Len(docs) |-> docs[order[i]]]

\* In another order the documents merge as well, into a document with the same
\* line and patch, the same keys and the same operations (merge_owned_documents):
\* one operation is in one document, and the highest patch does not depend on who
\* is first, unlike the text it is written as.
LEMMA MergesCommute ==
    ASSUME NEW docs, AreDocuments(docs), Len(docs) > 0, Assembly!MergeOwnedDocuments(docs).ok,
           NEW order \in Assembly!Bijection(1..Len(docs), 1..Len(docs))
    PROVE  LET first == Assembly!MergeOwnedDocuments(docs)
               other == Assembly!MergeOwnedDocuments(Reordered(docs, order))
           IN /\ other.ok /\ other.version.line = first.version.line
              /\ other.version.patch = first.version.patch
              /\ DOMAIN other.entries = DOMAIN first.entries
              /\ \A k \in DOMAIN first.entries :
                    k.section = "operation" => other.entries[k].value = first.entries[k].value
<1> DEFINE N == Len(docs)
           reordered == Reordered(docs, order)
           first == Assembly!MergeOwnedDocuments(docs)
           other == Assembly!MergeOwnedDocuments(reordered)
           D(i) == docs[i].document
<1>1. N \in Nat /\ N \in 0..N /\ N # 0 /\ \A i \in 1..N : Assembly!IsDocument(D(i))
  BY DEF AreDocuments
<1>2. /\ order \in [1..N -> 1..N]
      /\ \A i, j \in 1..N : order[i] = order[j] => i = j
      /\ \A t \in 1..N : \E i \in 1..N : order[i] = t
  BY DEF Assembly!Bijection, Assembly!Injection, Assembly!Surjection, Assembly!IsInjective
<1>3. Len(reordered) = N /\ \A i \in 1..N : order[i] \in 1..N /\ reordered[i] = docs[order[i]]
  BY <1>1, <1>2 DEF Reordered
<1> HIDE DEF reordered
<1>4. AreDocuments(reordered)
  BY <1>1, <1>3 DEF AreDocuments
<1>5. IsMergeOf(first, docs, N) /\ IsMergeOf(other, reordered, N)
  BY <1>1, <1>3, <1>4, MergeStates DEF Assembly!MergeOwnedDocuments
<1>6. first.ok
  OBVIOUS
<1> HIDE DEF first, other
<1>7. Compatible(docs, N)
  BY <1>5, <1>6 DEF IsMergeOf
<1>8. Compatible(reordered, N)
  <2>1. ASSUME NEW i \in 1..N PROVE reordered[i].document.shaped
    <3>1. D(order[i]).shaped
      BY <1>3, <1>7 DEF Compatible
    <3> QED BY <1>3, <3>1
  <2>2. ASSUME NEW i \in 1..N, NEW j \in 1..N, i # j PROVE Agree(reordered[i].document, reordered[j].document)
    <3>1. order[i] \in 1..N /\ order[j] \in 1..N /\ order[i] # order[j]
      BY <1>2, <1>3, <2>2
    <3>2. Agree(D(order[i]), D(order[j]))
      BY <1>7, <3>1 DEF Compatible
    <3> QED BY <1>3, <3>2
  <2> QED BY <2>1, <2>2 DEF Compatible
<1>9. other.ok
  BY <1>5, <1>8 DEF IsMergeOf
<1>10. /\ DOMAIN first.entries = UNION {DOMAIN D(i).entries : i \in 1..N}
       /\ DOMAIN other.entries = UNION {DOMAIN reordered[i].document.entries : i \in 1..N}
  BY <1>5, <1>6, <1>9 DEF IsMergeOf
<1>11. DOMAIN other.entries = DOMAIN first.entries
  <2>1. \A k : k \in DOMAIN first.entries <=> \E t \in 1..N : k \in DOMAIN D(t).entries
    BY <1>10
  <2>2. \A k : k \in DOMAIN other.entries <=> \E i \in 1..N : k \in DOMAIN D(order[i]).entries
    BY <1>3, <1>10
  <2>3. \A k : k \in DOMAIN other.entries <=> k \in DOMAIN first.entries
    <3>1. ASSUME NEW k, NEW t \in 1..N, k \in DOMAIN D(t).entries
          PROVE  \E i \in 1..N : k \in DOMAIN D(order[i]).entries
      <4>1. PICK i \in 1..N : order[i] = t
        BY <1>2
      <4> QED BY <3>1, <4>1
    <3>2. \A i \in 1..N : order[i] \in 1..N
      BY <1>3
    <3> HIDE DEF D
    <3> QED BY <2>1, <2>2, <3>1, <3>2
  <2> QED BY <2>3
<1>12. other.version.line = first.version.line /\ other.version.patch = first.version.patch
  <2> DEFINE V(i) == D(i).version
  <2>1. PICK i \in 1..N : first.version = V(i) /\ \A j \in 1..N : V(j).patch <= first.version.patch
    BY <1>1, <1>5, <1>6 DEF IsMergeOf
  <2>2. PICK l \in 1..N : other.version = reordered[l].document.version
                          /\ \A j \in 1..N : reordered[j].document.version.patch <= other.version.patch
    BY <1>1, <1>5, <1>9 DEF IsMergeOf
  <2>3. order[l] \in 1..N /\ other.version = V(order[l]) /\ \A j \in 1..N : V(order[j]).patch <= other.version.patch
    BY <1>3, <2>2
  <2>4. \A j \in 1..N : V(j).patch <= V(order[l]).patch
    BY <1>2, <2>3
  <2>5. \A j \in 1..N : V(j).patch \in Nat
    BY <1>1 DEF Assembly!IsDocument, Assembly!IsVersion
  <2>6. V(i).line = V(order[l]).line
    BY <1>7, <2>3 DEF Compatible, Agree
  <2> HIDE DEF V
  <2>7. V(i).patch <= V(order[l]).patch /\ V(order[l]).patch <= V(i).patch
    BY <2>1, <2>3, <2>4
  <2>8. V(i).patch = V(order[l]).patch
    BY <2>3, <2>5, <2>7
  <2> QED BY <2>1, <2>3, <2>6, <2>8
<1>13. ASSUME NEW k \in DOMAIN first.entries, k.section = "operation"
       PROVE  other.entries[k].value = first.entries[k].value
  <2>1. PICK i \in 1..N : /\ k \in DOMAIN D(i).entries
                          /\ first.entries[k] = [owner |-> docs[i].owner, value |-> D(i).entries[k]]
    BY <1>5, <1>6 DEF IsMergeOf, ComesFrom
  <2>2. PICK l \in 1..N : /\ k \in DOMAIN reordered[l].document.entries
                          /\ other.entries[k] = [owner |-> reordered[l].owner, value |-> reordered[l].document.entries[k]]
    BY <1>5, <1>9, <1>11 DEF IsMergeOf, ComesFrom
  <2>3. order[l] \in 1..N /\ k \in DOMAIN D(order[l]).entries /\ other.entries[k].value = D(order[l]).entries[k]
    BY <1>3, <2>2
  <2>4. order[l] = i
    BY <1>7, <1>13, <2>1, <2>3, OperationsAreUnique DEF Compatible, Agree
  <2> QED BY <2>1, <2>3, <2>4
<1> QED BY <1>9, <1>11, <1>12, <1>13 DEF first, other, reordered

-------------------------------------------------------------------------------
(* Contributions are made of routes and documents. *)

\* Enriching a document stamps operations and adds none (enrich_owned_openapi_document).
LEMMA EnrichedIsDocument ==
    ASSUME NEW document, Assembly!IsDocument(document), NEW owner, NEW routes
    PROVE  Assembly!IsDocument(Assembly!EnrichOwnedOpenApiDocument(document, owner, routes))
<1> DEFINE e == Assembly!EnrichOwnedOpenApiDocument(document, owner, routes)
<1>0. document = [version |-> document.version, shaped |-> document.shaped, entries |-> document.entries]
  BY DEF Assembly!IsDocument
<1>1. \E stamped : e = [document EXCEPT !.entries = [k \in DOMAIN document.entries |-> stamped[k]]]
  <2> DEFINE Declared(k) == {i \in DOMAIN routes : Assembly!OperationKey(routes[i]) = k}
             Stamp(operation, route) ==
                [Assembly!OpenApiExtensionsForRoute(route, operation) EXCEPT !.owner = owner,
                    !.authority = Assembly!ApiAuthorityForRoute(owner, route)]
             Entry(k) == IF Declared(k) = {} THEN document.entries[k]
                         ELSE Stamp(document.entries[k], routes[CHOOSE i \in Declared(k) : \A j \in Declared(k) : j <= i])
             stamped == [k \in DOMAIN document.entries |-> Entry(k)]
  <2>1. e = [document EXCEPT !.entries = stamped]
    BY DEF Assembly!EnrichOwnedOpenApiDocument
  <2> HIDE DEF Entry
  <2>2. stamped = [k \in DOMAIN document.entries |-> stamped[k]]
    OBVIOUS
  <2> HIDE DEF stamped, e
  <2> QED BY <2>1, <2>2
<1>2. PICK stamped : e = [document EXCEPT !.entries = [k \in DOMAIN document.entries |-> stamped[k]]]
  BY <1>1
<1> DEFINE entries == [k \in DOMAIN document.entries |-> stamped[k]]
<1>3. DOMAIN entries = DOMAIN document.entries
  OBVIOUS
<1> HIDE DEF e, entries
<1>4. e = [version |-> document.version, shaped |-> document.shaped, entries |-> entries]
  BY <1>0, <1>2 DEF entries
<1>5. Assembly!IsDocument(e)
  BY <1>3, <1>4 DEF Assembly!IsDocument
<1> QED BY <1>5 DEF e

\* What is merged from documents is one (merge_openapi_documents).
LEMMA MergedIsDocument ==
    ASSUME NEW docs, AreDocuments(docs), Assembly!MergeOpenApiDocuments(docs) # Conflict
    PROVE  LET merged == Assembly!MergeOwnedDocuments(docs)
               document == Assembly!MergeOpenApiDocuments(docs)
           IN /\ Assembly!IsDocument(document) /\ merged.ok /\ IsMergeOf(merged, docs, Len(docs)) /\ Len(docs) > 0
              /\ document.version = merged.version
              /\ DOMAIN document.entries = DOMAIN merged.entries
              /\ \A k \in DOMAIN merged.entries : document.entries[k] = merged.entries[k].value
<1> DEFINE N == Len(docs)
           merged == Assembly!MergeOwnedDocuments(docs)
           document == Assembly!MergeOpenApiDocuments(docs)
           values == [k \in DOMAIN merged.entries |-> merged.entries[k].value]
<1>1. N \in Nat /\ N \in 0..N /\ \A i \in 1..N : Assembly!IsDocument(docs[i].document)
  BY DEF AreDocuments
<1>2. IsMergeOf(merged, docs, N)
  BY <1>1, MergeStates DEF Assembly!MergeOwnedDocuments
<1>3. /\ merged.ok /\ merged.version # NoDocument
      /\ document = [version |-> merged.version, shaped |-> TRUE, entries |-> values]
  BY DEF Assembly!MergeOpenApiDocuments, Assembly!Materialize
<1>4. DOMAIN values = DOMAIN merged.entries /\ \A k \in DOMAIN merged.entries : values[k] = merged.entries[k].value
  OBVIOUS
<1> HIDE DEF merged, document, values
<1>5. /\ Assembly!IsFiniteSet(DOMAIN merged.entries)
      /\ N = 0 => merged.version = NoDocument
      /\ N > 0 => \E i \in 1..N : merged.version = docs[i].document.version
  BY <1>2, <1>3 DEF IsMergeOf
<1>6. N > 0
  BY <1>1, <1>3, <1>5
<1>7. Assembly!IsVersion(merged.version)
  BY <1>1, <1>5, <1>6 DEF Assembly!IsDocument
<1>8. Assembly!IsDocument(document)
  BY <1>3, <1>4, <1>5, <1>7 DEF Assembly!IsDocument
<1>9. /\ document.version = merged.version /\ DOMAIN document.entries = DOMAIN merged.entries
      /\ \A k \in DOMAIN merged.entries : document.entries[k] = merged.entries[k].value
  BY <1>3, <1>4
<1> QED BY <1>2, <1>3, <1>6, <1>8, <1>9 DEF merged, document

\* A document generated from finitely many routes is finite
\* (build_owned_openapi_document).
LEMMA GeneratedIsDocument ==
    ASSUME NEW owner, NEW routes, Len(routes) \in Nat, DOMAIN routes = 1..Len(routes),
           Assembly!BuildOwnedOpenApiDocument(owner, routes) # Panicked
    PROVE  Assembly!IsDocument(Assembly!BuildOwnedOpenApiDocument(owner, routes))
<1> DEFINE built == Assembly!BuildOpenApiDocument(routes)
           owned == Assembly!BuildOwnedOpenApiDocument(owner, routes)
           keys == {Assembly!OperationKey(routes[i]) : i \in DOMAIN routes}
<1>1. \E operations : /\ DOMAIN operations = keys
                      /\ built = Panicked \/ built = [version |-> Assembly!GeneratedVersion, shaped |-> TRUE,
                                        entries |-> Assembly!FirstOf(operations, Assembly!CommonComponents)]
  <2> DEFINE Of(k) == routes[CHOOSE i \in DOMAIN routes : Assembly!OperationKey(routes[i]) = k
                            /\ \A j \in DOMAIN routes : Assembly!OperationKey(routes[j]) = k => j <= i]
             operations == [k \in keys |-> Assembly!BuildOpenApiOperation(Of(k))]
  <2>1. built = Panicked \/ built = [version |-> Assembly!GeneratedVersion, shaped |-> TRUE,
                                        entries |-> Assembly!FirstOf(operations, Assembly!CommonComponents)]
    BY DEF Assembly!BuildOpenApiDocument
  <2>2. DOMAIN operations = keys
    OBVIOUS
  <2> HIDE DEF operations, built, keys
  <2> QED BY <2>1, <2>2
<1>2. built # Panicked
  BY DEF Assembly!BuildOwnedOpenApiDocument
<1>3. PICK operations : /\ DOMAIN operations = keys
                        /\ built = [version |-> Assembly!GeneratedVersion, shaped |-> TRUE,
                                    entries |-> Assembly!FirstOf(operations, Assembly!CommonComponents)]
  BY <1>1, <1>2
<1>4. IsFiniteSet(keys)
  <2> DEFINE f == [i \in 1..Len(routes) |-> Assembly!OperationKey(routes[i])]
  <2>1. f \in Surjection(1..Len(routes), keys)
    BY DEF Surjection
  <2>2. IsFiniteSet(1..Len(routes))
    BY FS_Interval
  <2> HIDE DEF f, keys
  <2> QED BY <2>1, <2>2, FS_Surjection
<1>5. IsFiniteSet(DOMAIN Assembly!CommonComponents)
  <2>1. DOMAIN Assembly!CommonComponents = {[section |-> "component", path |-> <<>>, name |-> "schemas"]}
    BY DEF Assembly!CommonComponents
  <2> QED BY <2>1, FS_Singleton
<1>6. IsFiniteSet(DOMAIN Assembly!FirstOf(operations, Assembly!CommonComponents))
  <2> HIDE DEF keys
  <2>1. IsFiniteSet(DOMAIN operations \cup DOMAIN Assembly!CommonComponents)
    BY <1>3, <1>4, <1>5, FS_Union
  <2>2. DOMAIN Assembly!FirstOf(operations, Assembly!CommonComponents)
            = DOMAIN operations \cup DOMAIN Assembly!CommonComponents
    BY DEF Assembly!FirstOf
  <2> QED BY <2>1, <2>2
<1>7. Assembly!IsDocument(built)
  <2> DEFINE entries == Assembly!FirstOf(operations, Assembly!CommonComponents)
             version == Assembly!GeneratedVersion
  <2>1. Assembly!IsFiniteSet(DOMAIN entries) /\ Assembly!IsVersion(version)
    BY <1>6, FiniteIsFinite, AssemblyAssumption
  <2>2. built = [version |-> version, shaped |-> TRUE, entries |-> entries]
    BY <1>3
  <2> HIDE DEF built, entries, version
  <2> QED BY <2>1, <2>2 DEF Assembly!IsDocument
<1>8. \E entries : /\ DOMAIN entries = DOMAIN built.entries
                   /\ owned = [built EXCEPT !.entries = entries]
  <2> DEFINE Owned(k) == [built.entries[k] EXCEPT !.owner = owner,
                        !.authority = [owner |-> owner, surface |-> Assembly!InferApiSurfaceFromPath(k.path)]]
             entries == [k \in DOMAIN built.entries |->
                            IF k.section = "operation" THEN Owned(k) ELSE built.entries[k]]
  <2>1. owned = [built EXCEPT !.entries = entries]
    BY <1>2 DEF Assembly!BuildOwnedOpenApiDocument
  <2>2. DOMAIN entries = DOMAIN built.entries
    OBVIOUS
  <2> HIDE DEF owned, built, entries
  <2> QED BY <2>1, <2>2
<1>9. PICK entries : DOMAIN entries = DOMAIN built.entries /\ owned = [built EXCEPT !.entries = entries]
  BY <1>8
<1>10. Assembly!IsDocument(owned)
  <2> HIDE DEF owned, built
  <2>1. built = [version |-> built.version, shaped |-> built.shaped, entries |-> built.entries]
    BY <1>7 DEF Assembly!IsDocument
  <2>2. owned = [version |-> built.version, shaped |-> built.shaped, entries |-> entries]
    BY <1>9, <2>1
  <2> QED BY <1>7, <1>9, <2>2 DEF Assembly!IsDocument
<1> QED BY <1>10

\* What is known of a contribution wherever it comes from.
IsContribution(c) == c.routes \in Seq(Assembly!ManifestRoutes) /\ Assembly!IsDocument(c.document)

\* A source contributes its own routes and a document (ApiAssemblyContribution).
LEMMA SourcesContribute ==
    ASSUME NEW s \in Assembly!Sources, Assembly!Contribute(s) # Refused
    PROVE  IsContribution(Assembly!Contribute(s))
<1>1. s.routes \in Seq(Assembly!ManifestRoutes) /\ s.documents \in Seq(Assembly!AuthoredDocuments)
  BY AssemblyAssumption DEF Assembly!IsSource
<1>2. ASSUME NEW owner, NEW routes \in Seq(Assembly!ManifestRoutes), NEW document, Assembly!IsDocument(document),
             Assembly!TryNew(owner, routes, document) # Refused
      PROVE  IsContribution(Assembly!TryNew(owner, routes, document))
  <2> DEFINE enriched == Assembly!EnrichOwnedOpenApiDocument(document, owner, routes)
  <2>1. Assembly!IsDocument(enriched)
    BY <1>2, EnrichedIsDocument
  <2>2. Assembly!TryNew(owner, routes, document) =
            [owner |-> owner, routes |-> routes, permissions |-> Assembly!PermissionCatalog(routes),
             document |-> enriched]
    BY <1>2 DEF Assembly!TryNew
  <2> HIDE DEF enriched
  <2> QED BY <2>1, <2>2 DEF IsContribution
<1>3. CASE s.documents = <<>>
  <2> DEFINE document == Assembly!BuildOwnedOpenApiDocument(s.owner, s.routes)
  <2>1. Assembly!Contribute(s) = Assembly!TryNew(s.owner, s.routes, document) /\ document # Panicked
    BY <1>3 DEF Assembly!Contribute, Assembly!FromManifest
  <2>2. Len(s.routes) \in Nat /\ DOMAIN s.routes = 1..Len(s.routes)
    BY <1>1
  <2>3. Assembly!IsDocument(document)
    BY <2>1, <2>2, GeneratedIsDocument
  <2> HIDE DEF document
  <2> QED BY <1>1, <1>2, <2>1, <2>3
<1>4. CASE s.documents # <<>>
  <2> DEFINE E(i) == Assembly!EnrichOwnedOpenApiDocument(s.documents[i], s.owner, s.routes)
             docs == [i \in DOMAIN s.documents |-> [owner |-> <<s.owner, i>>, document |-> E(i)]]
             merged == Assembly!MergeOpenApiDocuments(docs)
  <2>1. Assembly!Contribute(s) = Assembly!TryNew(s.owner, s.routes, merged) /\ merged # Conflict
    BY <1>4 DEF Assembly!Contribute, Assembly!FromOpenApiDocuments
  <2>2. DOMAIN s.documents = 1..Len(s.documents) /\ Len(s.documents) \in Nat
        /\ \A i \in 1..Len(s.documents) : s.documents[i] \in Assembly!AuthoredDocuments
    BY <1>1
  <2>3. \A i \in 1..Len(s.documents) : Assembly!IsDocument(E(i))
    BY <2>2, AssemblyAssumption, EnrichedIsDocument
  <2> HIDE DEF E
  <2>4. Len(docs) = Len(s.documents) /\ \A i \in 1..Len(s.documents) : docs[i].document = E(i)
    BY <2>2
  <2> HIDE DEF docs
  <2>5. AreDocuments(docs)
    BY <2>2, <2>3, <2>4 DEF AreDocuments
  <2>6. Assembly!IsDocument(merged)
    BY <2>1, <2>5, MergedIsDocument
  <2> HIDE DEF merged
  <2> QED BY <1>1, <1>2, <2>1, <2>6
<1> QED BY <1>3, <1>4

\* A host that mounts a dependency has the routes of both and its own document
\* (merge_dependency_contribution).
LEMMA ContributionsAreShaped ==
    ASSUME NEW c \in Assembly!Contributions
    PROVE  IsContribution(c)
<1>1. CASE \E s \in Assembly!Sources : c = Assembly!Contribute(s)
  BY <1>1, SourcesContribute DEF Assembly!Contributions
<1>2. CASE \E d \in Dependencies : c = Assembly!Mount(d[1], d[2])
  <2>1. PICK d \in Dependencies : c = Assembly!Mount(d[1], d[2])
    BY <1>2
  <2> DEFINE left == Assembly!Contribute(d[1])
             right == Assembly!Contribute(d[2])
             routes == left.routes \o right.routes
  <2>2. d[1] \in Assembly!Sources /\ d[2] \in Assembly!Sources
    <3>1. {d[1], d[2]} \in {{e[1], e[2]} : e \in Dependencies}
      OBVIOUS
    <3>2. {d[1], d[2]} \subseteq UNION {{e[1], e[2]} : e \in Dependencies}
      BY <3>1, Zenon
    <3>3. UNION {{e[1], e[2]} : e \in Dependencies} \subseteq Assembly!Sources
      BY DEF Assembly!Sources
    <3> QED BY <3>2, <3>3
  <2>3. c # Refused
    BY DEF Assembly!Contributions
  <2>4. left # Refused /\ right # Refused /\ c = Assembly!MergeDependencyContribution(left, right)
    BY <2>1, <2>3 DEF Assembly!Mount
  <2>5. IsContribution(left) /\ IsContribution(right)
    BY <2>2, <2>4, SourcesContribute
  <2>6. left = [owner |-> left.owner, routes |-> left.routes, permissions |-> left.permissions,
                document |-> left.document]
    <3>1. \A owner, r, document : Assembly!TryNew(owner, r, document) # Refused =>
            Assembly!TryNew(owner, r, document) =
                [owner |-> owner, routes |-> r, permissions |-> Assembly!PermissionCatalog(r),
                 document |-> Assembly!EnrichOwnedOpenApiDocument(document, owner, r)]
      BY DEF Assembly!TryNew
    <3>2. \E owner, r, document : left = Assembly!TryNew(owner, r, document)
      BY <2>4 DEF Assembly!Contribute, Assembly!FromManifest, Assembly!FromOpenApiDocuments
    <3>3. PICK owner, r, document : left = Assembly!TryNew(owner, r, document)
      BY <3>2
    <3>4. left = [owner |-> owner, routes |-> r, permissions |-> Assembly!PermissionCatalog(r),
                  document |-> Assembly!EnrichOwnedOpenApiDocument(document, owner, r)]
      BY <2>4, <3>1, <3>3
    <3> HIDE DEF left
    <3> QED BY <3>4
  <2> HIDE DEF left, right
  <2>7. c = [left EXCEPT !.routes = routes, !.permissions = Assembly!PermissionCatalog(routes)]
    BY <2>3, <2>4 DEF Assembly!MergeDependencyContribution, Assembly!MergeRouteManifestMounts
  <2>8. routes \in Seq(Assembly!ManifestRoutes) /\ Assembly!IsDocument(left.document)
    BY <2>5 DEF IsContribution
  <2> HIDE DEF routes
  <2>9. c.routes = routes /\ c.document = left.document
    BY <2>6, <2>7
  <2> QED BY <2>8, <2>9 DEF IsContribution
<1> QED BY <1>1, <1>2 DEF Assembly!Contributions

\* A profile is composed of contributions (flatten).
LEMMA FlattenedContributions ==
    ASSUME Assembly!TypeOK
    PROVE  Assembly!Flatten(registry.modules) \in Seq(Assembly!Contributions)
<1> DEFINE modules == registry.modules
           C == Assembly!Contributions
           N == Len(modules)
           F == Assembly!FlattenedUpTo(modules)
           S == {n \in 0..N : F[n] \in Seq(C)}
<1>1. modules \in Seq([owner : Assembly!Owners, contributions : Seq(C)])
  BY DEF Assembly!TypeOK
<1>2. N \in Nat /\ \A m \in 1..N : modules[m].contributions \in Seq(C)
  <2>1. \A m \in 1..N : modules[m] \in [owner : Assembly!Owners, contributions : Seq(C)]
    <3> DEFINE Entry == [owner : Assembly!Owners, contributions : Seq(C)]
    <3>1. modules \in Seq(Entry)
      BY <1>1
    <3> HIDE DEF Entry, modules
    <3>2. \A m \in 1..N : modules[m] \in Entry
      BY <3>1
    <3> QED BY <3>2 DEF Entry
  <2>2. N \in Nat
    BY <1>1
  <2> DEFINE Q == Seq(C)
  <2> HIDE DEF Q, modules
  <2>3. \A m \in 1..N : modules[m].contributions \in Q
    BY <2>1 DEF Q
  <2> QED BY <2>2, <2>3 DEF Q
<1> HIDE DEF modules, C
<1>3. ASSUME NEW m \in 1..N PROVE Assembly!Kept(modules, m) \in Seq(C)
  <2> DEFINE c == modules[m].contributions
             L == Len(c)
             K == Assembly!KeptUpTo(modules, m)
             R == {i \in 0..L : K[i] \in Seq(C)}
  <2>1. c \in Seq(C) /\ L \in Nat /\ \A i \in 1..L : c[i] \in C
    BY <1>2
  <2>2. K = [i \in 0..L |-> IF i = 0 THEN <<>>
                ELSE IF Assembly!MountedEarlier(modules, m, c[i].owner) THEN K[i - 1]
                ELSE Append(K[i - 1], c[i])]
    BY <2>1, KeptUnfolds
  <2> HIDE DEF K, c
  <2>3. 0 \in R
    <3>1. K[0] = <<>>
      BY <2>1, <2>2
    <3>2. K[0] \in Seq(C)
      BY <3>1
    <3> QED BY <2>1, <3>2
  <2>4. ASSUME NEW i \in 0..L - 1, i \in R PROVE i + 1 \in R
    <3>1. i + 1 \in 0..L /\ i + 1 \in 1..L /\ i + 1 # 0 /\ (i + 1) - 1 = i
      BY <2>1
    <3>2. K[i + 1] = IF Assembly!MountedEarlier(modules, m, c[i + 1].owner) THEN K[i] ELSE Append(K[i], c[i + 1])
      BY <2>2, <3>1
    <3>3. K[i] \in Seq(C) /\ c[i + 1] \in C
      BY <2>1, <2>4, <3>1
    <3>4. Append(K[i], c[i + 1]) \in Seq(C)
      BY <3>3
    <3> QED BY <3>1, <3>2, <3>3, <3>4
  <2>5. 0..L \subseteq R
    <3> HIDE DEF R, L
    <3> QED BY <2>1, <2>3, <2>4, CountingUp
  <2>6. K[L] \in Seq(C)
    BY <2>1, <2>5
  <2> QED BY <2>6 DEF K, c, Assembly!Kept
<1>4. F = [n \in 0..N |-> IF n = 0 THEN <<>> ELSE F[n - 1] \o Assembly!Kept(modules, n)]
  BY <1>2, FlattenedUnfolds
<1> HIDE DEF F
<1>5. 0 \in S
  <2>1. F[0] = <<>>
    BY <1>2, <1>4
  <2>2. F[0] \in Seq(C)
    BY <2>1
  <2> QED BY <1>2, <2>2
<1>6. ASSUME NEW n \in 0..N - 1, n \in S PROVE n + 1 \in S
  <2>1. n + 1 \in 0..N /\ n + 1 \in 1..N /\ n + 1 # 0 /\ (n + 1) - 1 = n
    BY <1>2
  <2>2. F[n + 1] = F[n] \o Assembly!Kept(modules, n + 1)
    BY <1>4, <2>1
  <2>3. F[n] \in Seq(C) /\ Assembly!Kept(modules, n + 1) \in Seq(C)
    BY <1>3, <1>6, <2>1
  <2>4. F[n] \o Assembly!Kept(modules, n + 1) \in Seq(C)
    BY <2>3
  <2> QED BY <2>1, <2>2, <2>4
<1>7. 0..N \subseteq S
  <2> HIDE DEF S, N
  <2> QED BY <1>2, <1>5, <1>6, CountingUp
<1>8. F[N] \in Seq(C)
  BY <1>2, <1>7
<1> QED BY <1>8 DEF F, C, modules, Assembly!Flatten

\* Where a profile has the route r of its contribution c.
Position(cs, c, r) == Len(Assembly!RoutesUpTo(cs)[c - 1]) + r

\* The manifest of a profile has every route of every contribution, each at a
\* position of its own (try_compose).
LEMMA RoutesArePlaced ==
    ASSUME NEW cs \in Seq(Assembly!Contributions), NEW n \in 0..Len(cs)
    PROVE  /\ Assembly!RoutesUpTo(cs)[n] \in Seq(Assembly!ManifestRoutes)
           /\ \A c \in 1..n : \A r \in DOMAIN cs[c].routes :
                /\ Position(cs, c, r) \in 1..Len(Assembly!RoutesUpTo(cs)[n])
                /\ Assembly!RoutesUpTo(cs)[n][Position(cs, c, r)] = cs[c].routes[r]
<1> DEFINE N == Len(cs)
           R == Assembly!RoutesUpTo(cs)
           A == Assembly!ManifestRoutes
           Places(l) == \A c \in 1..l : \A r \in DOMAIN cs[c].routes :
                            Position(cs, c, r) \in 1..Len(R[l]) /\ R[l][Position(cs, c, r)] = cs[c].routes[r]
           S == {l \in 0..N : R[l] \in Seq(A) /\ Places(l)}
<1>1. N \in Nat /\ \A c \in 1..N : cs[c].routes \in Seq(A)
  <2>1. N \in Nat /\ \A c \in 1..N : cs[c] \in Assembly!Contributions
    OBVIOUS
  <2> QED BY <2>1, ContributionsAreShaped DEF IsContribution
<1>2. R = [l \in 0..N |-> IF l = 0 THEN <<>> ELSE R[l - 1] \o cs[l].routes]
  BY <1>1, RoutesUnfold
<1>3. \A c, r : Position(cs, c, r) = Len(R[c - 1]) + r
  BY DEF Position
<1> HIDE DEF R, A
<1>4. 0 \in S
  <2>1. R[0] = <<>>
    BY <1>1, <1>2
  <2>2. R[0] \in Seq(A)
    BY <2>1
  <2> QED BY <1>1, <2>2
<1>5. ASSUME NEW l \in 0..N - 1, l \in S PROVE l + 1 \in S
  <2> DEFINE a == R[l]
             b == cs[l + 1].routes
  <2>1. l + 1 \in 0..N /\ l + 1 \in 1..N /\ l + 1 # 0 /\ (l + 1) - 1 = l /\ l \in Nat
    BY <1>1
  <2>2. R[l + 1] = a \o b
    BY <1>2, <2>1
  <2>3. a \in Seq(A) /\ b \in Seq(A) /\ Places(l)
    BY <1>1, <1>5, <2>1
  <2>4. ASSUME NEW c \in 1..l + 1, NEW r \in DOMAIN cs[c].routes
        PROVE  Position(cs, c, r) \in 1..Len(R[l + 1]) /\ R[l + 1][Position(cs, c, r)] = cs[c].routes[r]
    <3>1. CASE c = l + 1
      <4>1. Position(cs, c, r) = Len(a) + r /\ r \in DOMAIN b /\ cs[c].routes[r] = b[r]
        BY <1>3, <2>1, <3>1
      <4> HIDE DEF a, b
      <4>2. Len(a) + r \in 1..Len(a \o b) /\ (a \o b)[Len(a) + r] = b[r]
        BY <2>3, <4>1
      <4> QED BY <2>2, <4>1, <4>2
    <3>2. CASE c # l + 1
      <4>1. c \in 1..l
        BY <2>1, <3>2
      <4> DEFINE p == Position(cs, c, r)
      <4>2. p \in 1..Len(a) /\ a[p] = cs[c].routes[r]
        BY <2>3, <4>1
      <4> HIDE DEF a, b, p
      <4>3. p \in 1..Len(a \o b) /\ (a \o b)[p] = a[p]
        BY <2>3, <4>2
      <4> QED BY <2>2, <4>2, <4>3 DEF p
    <3> QED BY <3>1, <3>2
  <2>5. R[l + 1] \in Seq(A)
    <3> HIDE DEF a, b
    <3> QED BY <2>2, <2>3
  <2> QED BY <2>1, <2>4, <2>5
<1>6. 0..N \subseteq S
  <2> HIDE DEF S, N
  <2> QED BY <1>1, <1>4, <1>5, CountingUp
<1> QED BY <1>6 DEF R, A

\* Routes of different contributions, and different routes of one, stand at
\* different places of the profile's manifest: collecting appends
\* (ApiAssemblyProfile::try_compose).
LEMMA PositionsAreDistinct ==
    ASSUME NEW cs \in Seq(Assembly!Contributions), NEW c \in 1..Len(cs), NEW d \in 1..Len(cs),
           NEW r \in DOMAIN cs[c].routes, NEW s \in DOMAIN cs[d].routes,
           Position(cs, c, r) = Position(cs, d, s)
    PROVE  c = d /\ r = s
<1>1. \A e \in 1..Len(cs) : cs[e].routes \in Seq(Assembly!ManifestRoutes)
  <2>1. \A e \in 1..Len(cs) : cs[e] \in Assembly!Contributions
    OBVIOUS
  <2> QED BY <2>1, ContributionsAreShaped DEF IsContribution
<1>2. ASSUME NEW e \in 1..Len(cs), NEW f \in 1..Len(cs), NEW i \in DOMAIN cs[e].routes, NEW j \in DOMAIN cs[f].routes,
             e < f
      PROVE  Position(cs, e, i) < Position(cs, f, j)
  <2>1. f - 1 \in 0..Len(cs) /\ e \in 1..f - 1
    BY <1>2
  <2>2. Position(cs, e, i) \in 1..Len(Assembly!RoutesUpTo(cs)[f - 1])
        /\ Assembly!RoutesUpTo(cs)[f - 1] \in Seq(Assembly!ManifestRoutes)
    BY <2>1, RoutesArePlaced
  <2>3. j \in Nat /\ j >= 1
    BY <1>1
  <2>4. Len(Assembly!RoutesUpTo(cs)[f - 1]) \in Nat
    BY <2>2
  <2> QED BY <2>2, <2>3, <2>4 DEF Position
<1>3. c - 1 \in 0..Len(cs) /\ Len(Assembly!RoutesUpTo(cs)[c - 1]) \in Nat /\ r \in Nat
  <2>1. c - 1 \in 0..Len(cs)
    OBVIOUS
  <2>2. Assembly!RoutesUpTo(cs)[c - 1] \in Seq(Assembly!ManifestRoutes)
    BY <2>1, RoutesArePlaced
  <2> QED BY <1>1, <2>1, <2>2
<1>4. Position(cs, c, r) \in Nat
  BY <1>3 DEF Position
<1>5. c = d
  <2>1. CASE c < d
    BY <1>2, <1>4, <2>1
  <2>2. CASE d < c
    BY <1>2, <1>4, <2>2
  <2> QED BY <2>1, <2>2
<1>6. s \in Nat
  BY <1>1
<1> QED BY <1>3, <1>5, <1>6 DEF Position

-------------------------------------------------------------------------------
(* The route a request is held to is the route that handles it. *)

\* What a segment that is no parameter matches is spelled as it is.
LEMMA PlainSegments ==
    ASSUME NEW s \in Assembly!TemplateSegments, NEW a, Assembly!TemplateSegmentMatches(s, a),
           s.form \notin {"param", "action"}
    PROVE  s.text = a.text /\ s.suffix = a.suffix
  BY DEF Assembly!TemplateSegmentMatches

\* A template that matches a path has its segments, one by one
\* (route_path_matches).
LEMMA SegmentsOf ==
    ASSUME NEW t \in Seq(Assembly!TemplateSegments), NEW path, Assembly!RoutePathMatches(t, path)
    PROVE  /\ DOMAIN t = 1..Len(t) /\ Len(t) = Len(Assembly!PathSegments(path))
           /\ \A n \in DOMAIN t : /\ t[n] \in Assembly!TemplateSegments /\ Assembly!IsSegment(t[n])
                                  /\ Assembly!TemplateSegmentMatches(t[n], Assembly!PathSegments(path)[n])
<1>1. DOMAIN t = 1..Len(t) /\ \A n \in DOMAIN t : t[n] \in Assembly!TemplateSegments
  OBVIOUS
<1> QED BY <1>1, AssemblyAssumption DEF Assembly!RoutePathMatches

\* Two templates without parameters that match one path are the same route
\* (normalized_template_path).
LEMMA OneLiteralTemplate ==
    ASSUME NEW t \in Seq(Assembly!TemplateSegments), NEW u \in Seq(Assembly!TemplateSegments), NEW path,
           Assembly!RoutePathMatches(t, path), Assembly!RoutePathMatches(u, path),
           ~Assembly!TemplateHasParameters(t), ~Assembly!TemplateHasParameters(u)
    PROVE  Assembly!NormalizedTemplatePath(t) = Assembly!NormalizedTemplatePath(u)
<1>1. DOMAIN t = DOMAIN u
  BY SegmentsOf
<1>2. ASSUME NEW n \in DOMAIN t
      PROVE  t[n].text = u[n].text /\ t[n].suffix = u[n].suffix /\ t[n].form = u[n].form
  <2>1. t[n] \in Assembly!TemplateSegments /\ u[n] \in Assembly!TemplateSegments
    BY <1>1, SegmentsOf
  <2>2. t[n].form \notin {"param", "action"} /\ u[n].form \notin {"param", "action"}
    BY <1>1 DEF Assembly!TemplateHasParameters
  <2>3. t[n].text = u[n].text /\ t[n].suffix = u[n].suffix
    BY <1>1, <2>1, <2>2, SegmentsOf, PlainSegments
  <2> QED BY <2>1, <2>3, AssemblyAssumption DEF Assembly!SpellTheirForm
<1>3. \A n \in DOMAIN t : Assembly!TemplateText(t)[n] = Assembly!TemplateText(u)[n]
  BY <1>1, <1>2 DEF Assembly!TemplateText
<1> QED BY <1>1, <1>2, <1>3 DEF Assembly!NormalizedTemplatePath

\* Of a template without parameters and one with parameters that match one path,
\* the first has a literal where they first differ, unless they are one route.
LEMMA LiteralGoesFirst ==
    ASSUME NEW t \in Seq(Assembly!TemplateSegments), NEW u \in Seq(Assembly!TemplateSegments), NEW path,
           Assembly!RoutePathMatches(t, path), Assembly!RoutePathMatches(u, path),
           ~Assembly!TemplateHasParameters(t),
           Assembly!NormalizedTemplatePath(t) # Assembly!NormalizedTemplatePath(u)
    PROVE  \E n \in DOMAIN t : /\ t[n].form = "lit" /\ u[n].form # "lit"
                               /\ \A k \in 1..n - 1 : (t[k].form = "lit") = (u[k].form = "lit")
<1> DEFINE a == Assembly!PathSegments(path)
           T == {n \in DOMAIN t : (t[n].form = "lit") # (u[n].form = "lit")}
<1> HIDE DEF a
<1>1. /\ DOMAIN t = DOMAIN u /\ DOMAIN t = 1..Len(t) /\ Len(t) \in Nat
      /\ \A n \in DOMAIN t : /\ t[n] \in Assembly!TemplateSegments /\ u[n] \in Assembly!TemplateSegments
                             /\ Assembly!IsSegment(t[n]) /\ Assembly!IsSegment(u[n])
                             /\ Assembly!TemplateSegmentMatches(t[n], a[n])
                             /\ Assembly!TemplateSegmentMatches(u[n], a[n])
  BY SegmentsOf DEF a
<1>2. \A n \in DOMAIN t : t[n].text = a[n].text /\ t[n].suffix = a[n].suffix /\ t[n].form \in {"lit", "colon"}
  <2>1. \A n \in DOMAIN t : t[n].form \notin {"param", "action"} /\ t[n].form \in {"lit", "param", "colon", "action"}
    BY <1>1 DEF Assembly!TemplateHasParameters, Assembly!IsSegment
  <2> QED BY <1>1, <2>1, PlainSegments
<1>3. ASSUME NEW n \in DOMAIN t, u[n].form \in {"lit", "colon"} PROVE t[n].form = u[n].form /\ t[n].text = u[n].text /\ t[n].suffix = u[n].suffix
  <2>1. u[n].text = a[n].text /\ u[n].suffix = a[n].suffix
    BY <1>1, <1>3, PlainSegments
  <2>2. t[n].text = u[n].text /\ t[n].suffix = u[n].suffix
    BY <1>2, <2>1
  <2> QED BY <1>1, <2>2, AssemblyAssumption DEF Assembly!SpellTheirForm
<1>4. T # {}
  <2> SUFFICES ASSUME T = {} PROVE FALSE
    OBVIOUS
  <2>1. ASSUME NEW n \in DOMAIN t
        PROVE  Assembly!NormalizedTemplatePath(t)[n] = Assembly!NormalizedTemplatePath(u)[n]
    <3>1. CASE u[n].form \in {"lit", "colon"}
      <4>1. t[n].form = u[n].form /\ t[n].text = u[n].text /\ t[n].suffix = u[n].suffix
        BY <1>3, <3>1
      <4> QED BY <1>1, <4>1 DEF Assembly!NormalizedTemplatePath, Assembly!TemplateText
    <3>2. CASE u[n].form \notin {"lit", "colon"}
      <4>1. (t[n].form = "lit") = (u[n].form = "lit")
        OBVIOUS
      <4>2. t[n].form = "colon" /\ t[n].suffix = ""
        BY <1>1, <1>2, <3>2, <4>1 DEF Assembly!IsSegment
      <4>3. u[n].form = "param"
        <5>1. u[n].form \in {"param", "action"}
          BY <1>1, <3>2 DEF Assembly!IsSegment
        <5>2. u[n].form = "action" => u[n].suffix = a[n].suffix /\ u[n].suffix # ""
          BY <1>1 DEF Assembly!IsSegment, Assembly!TemplateSegmentMatches
        <5> QED BY <1>2, <4>2, <5>1, <5>2
      <4> QED BY <1>1, <4>2, <4>3 DEF Assembly!NormalizedTemplatePath
    <3> QED BY <3>1, <3>2
  <2>2. Assembly!NormalizedTemplatePath(t) = Assembly!NormalizedTemplatePath(u)
    <3> DEFINE f == Assembly!NormalizedTemplatePath(t)
               g == Assembly!NormalizedTemplatePath(u)
    <3>1. f = [n \in DOMAIN t |-> f[n]] /\ g = [n \in DOMAIN t |-> g[n]]
      BY <1>1 DEF Assembly!NormalizedTemplatePath
    <3> HIDE DEF f, g
    <3>2. \A n \in DOMAIN t : f[n] = g[n]
      BY <2>1 DEF f, g
    <3>3. f = g
      BY <3>1, <3>2
    <3> QED BY <3>3 DEF f, g
  <2> QED BY <2>2
<1>5. PICK n \in T : \A k \in T : n <= k
  <2>1. T \in SUBSET Nat
    BY <1>1
  <2> HIDE DEF T
  <2> QED BY <1>4, <2>1, LeastNat
<1>6. n \in DOMAIN t /\ t[n].form = "lit" /\ u[n].form # "lit"
  <2>1. n \in DOMAIN t /\ (t[n].form = "lit") # (u[n].form = "lit")
    OBVIOUS
  <2> QED BY <1>2, <1>3, <2>1
<1>7. ASSUME NEW k \in 1..n - 1 PROVE (t[k].form = "lit") = (u[k].form = "lit")
  <2>1. k \in DOMAIN t /\ k \in Nat /\ n \in Nat /\ k < n
    BY <1>1
  <2>2. k \notin T
    <3> HIDE DEF T
    <3> QED BY <1>5, <2>1
  <2> QED BY <2>1, <2>2
<1> QED BY <1>6, <1>7

\* The size of a set is the same notion wherever it is defined.
LEMMA CardinalityIsCardinality == \A S : Assembly!Cardinality(S) = Cardinality(S)
  BY DEF Cardinality, Assembly!Cardinality

\* A finite set with at most one member.
LEMMA AtMostOne ==
    ASSUME NEW S, IsFiniteSet(S), Assembly!Cardinality(S) <= 1, NEW x \in S, NEW y \in S
    PROVE  x = y
<1> SUFFICES ASSUME x # y PROVE FALSE
  OBVIOUS
<1>1. IsFiniteSet({x}) /\ Cardinality({x}) = 1
  BY FS_Singleton
<1>2. IsFiniteSet({x} \cup {y}) /\ Cardinality({x} \cup {y}) = 2
  <2>1. y \notin {x}
    OBVIOUS
  <2>2. IsFiniteSet({x} \cup {y}) /\ Cardinality({x} \cup {y}) = IF y \in {x} THEN Cardinality({x}) ELSE Cardinality({x}) + 1
    BY <1>1, FS_AddElement, Zenon
  <2> QED BY <1>1, <2>1, <2>2
<1>3. {x} \cup {y} \in SUBSET S
  OBVIOUS
<1>4. Cardinality({x} \cup {y}) <= Cardinality(S) /\ Cardinality(S) <= 1 /\ Cardinality(S) \in Nat
  BY <1>3, FS_Subset, FS_CardinalityType, CardinalityIsCardinality
<1> QED BY <1>2, <1>4

\* The routes of a valid manifest are told apart by their collision keys
\* (validate_manifest).
LEMMA KeysTellRoutesApart ==
    ASSUME NEW routes, DOMAIN routes = 1..Len(routes), Len(routes) \in Nat, Assembly!ValidateManifest(routes),
           NEW i \in DOMAIN routes, NEW j \in DOMAIN routes,
           Assembly!CollisionKey(routes[i]) = Assembly!CollisionKey(routes[j])
    PROVE  i = j
<1>1. CASE i < j
  <2>1. i \in 1..j - 1
    BY <1>1
  <2> QED BY <2>1 DEF Assembly!ValidateManifest
<1>2. CASE j < i
  <2>1. j \in 1..i - 1
    BY <1>2
  <2> QED BY <2>1 DEF Assembly!ValidateManifest
<1> QED BY <1>1, <1>2

\* The least of a set of positions.
LEMMA LeastPosition ==
    ASSUME NEW S \in SUBSET Nat, S # {}
    PROVE  Assembly!Min(S) \in S
<1>1. PICK x \in S : \A y \in S : x <= y
  BY LeastNat
<1> QED BY <1>1 DEF Assembly!Min

\* However a manifest was put together, match_route and the router pick one route:
\* at most one template without parameters matches, and it goes before the template
\* with parameters that also matches.
LEMMA MatchIsRouted ==
    ASSUME NEW routes \in Seq(Assembly!ManifestRoutes), Assembly!ValidateManifest(routes), NEW method, NEW path,
           Assembly!Cardinality({i \in DOMAIN routes : /\ routes[i].method = method
                                    /\ Assembly!TemplateHasParameters(routes[i].path)
                                    /\ Assembly!RoutePathMatches(routes[i].path, path)}) <= 1
    PROVE  Assembly!MatchRoute(routes, method, path) = Assembly!RoutedTo(routes, method, path)
<1> DEFINE C == Assembly!Candidates(routes, method, path)
           L == {i \in C : ~Assembly!TemplateHasParameters(routes[i].path)}
           T == {i \in DOMAIN routes : /\ routes[i].method = method
                                       /\ Assembly!TemplateHasParameters(routes[i].path)
                                       /\ Assembly!RoutePathMatches(routes[i].path, path)}
           Lit(i, n) == routes[i].path[n].form = "lit"
           Before(i, j) == \E n \in DOMAIN routes[i].path : /\ Lit(i, n) /\ ~Lit(j, n)
                                                            /\ \A k \in 1..n - 1 : Lit(i, k) = Lit(j, k)
           First(i) == \A j \in C \ {i} : Before(i, j)
<1>1. Len(routes) \in Nat /\ DOMAIN routes = 1..Len(routes)
      /\ \A i \in DOMAIN routes : routes[i].path \in Seq(Assembly!TemplateSegments)
  <2>1. DOMAIN routes = 1..Len(routes) /\ Len(routes) \in Nat /\ \A i \in DOMAIN routes : routes[i] \in Assembly!ManifestRoutes
    OBVIOUS
  <2> QED BY <2>1, AssemblyAssumption
<1>2. /\ C = {i \in DOMAIN routes : routes[i].method = method /\ Assembly!RoutePathMatches(routes[i].path, path)}
      /\ C \in SUBSET Nat /\ L \in SUBSET Nat
      /\ \A i \in C : i \in DOMAIN routes /\ routes[i].method = method /\ Assembly!RoutePathMatches(routes[i].path, path)
  BY <1>1 DEF Assembly!Candidates
<1>3. Assembly!RoutedTo(routes, method, path) = IF C = {} THEN NoRoute ELSE routes[CHOOSE i \in C : First(i)]
  BY DEF Assembly!RoutedTo, Assembly!Candidates
<1>4. Assembly!MatchRoute(routes, method, path) =
        IF L # {} THEN routes[Assembly!Min(L)] ELSE IF C # {} THEN routes[Assembly!Min(C)] ELSE NoRoute
  BY DEF Assembly!MatchRoute
<1>5. \A i, j \in T : i = j
  <2>1. IsFiniteSet(1..Len(routes)) /\ T \in SUBSET (1..Len(routes))
    BY <1>1, FS_Interval
  <2>2. IsFiniteSet(T) /\ Assembly!Cardinality(T) <= 1
    BY <2>1, FS_Subset
  <2> HIDE DEF T
  <2> QED BY <2>2, AtMostOne
<1>6. C = L \cup T
  BY <1>2
<1> HIDE DEF C
<1>7. ASSUME NEW i \in C, NEW j \in C, i # j
      PROVE  Assembly!NormalizedTemplatePath(routes[i].path) # Assembly!NormalizedTemplatePath(routes[j].path)
  <2>1. Assembly!CollisionKey(routes[i]) # Assembly!CollisionKey(routes[j])
    BY <1>1, <1>2, <1>7, KeysTellRoutesApart
  <2> QED BY <1>2, <2>1 DEF Assembly!CollisionKey
<1>8. ASSUME NEW i \in L, NEW j \in C, i # j PROVE Before(i, j)
  BY <1>1, <1>2, <1>7, <1>8, LiteralGoesFirst
<1>9. \A i, j \in L : i = j
  BY <1>1, <1>2, <1>7, OneLiteralTemplate
<1>10. ASSUME NEW i \in C, NEW j \in C, Before(i, j), Before(j, i) PROVE FALSE
  <2>1. PICK n \in DOMAIN routes[i].path : Lit(i, n) /\ ~Lit(j, n) /\ \A k \in 1..n - 1 : Lit(i, k) = Lit(j, k)
    BY <1>10
  <2>2. PICK m \in DOMAIN routes[j].path : Lit(j, m) /\ ~Lit(i, m) /\ \A k \in 1..m - 1 : Lit(j, k) = Lit(i, k)
    BY <1>10
  <2>3. n \in Nat /\ m \in Nat /\ n >= 1 /\ m >= 1
    <3>1. routes[i].path \in Seq(Assembly!TemplateSegments) /\ routes[j].path \in Seq(Assembly!TemplateSegments)
      BY <1>1, <1>2
    <3> QED BY <3>1
  <2> HIDE DEF Lit
  <2>4. CASE n < m
    <3>1. n \in 1..m - 1
      BY <2>3, <2>4
    <3> QED BY <2>1, <2>2, <3>1
  <2>5. CASE m < n
    <3>1. m \in 1..n - 1
      BY <2>3, <2>5
    <3> QED BY <2>1, <2>2, <3>1
  <2>6. CASE m = n
    BY <2>1, <2>2, <2>6
  <2> QED BY <2>3, <2>4, <2>5, <2>6
<1> HIDE DEF Before, T
<1>11. CASE L # {}
  <2> DEFINE i == Assembly!Min(L)
  <2>1. i \in L /\ i \in C
    BY <1>2, <1>11, LeastPosition
  <2> HIDE DEF i, L
  <2>2. First(i)
    BY <1>8, <2>1
  <2>3. ASSUME NEW j \in C, First(j) PROVE j = i
    <3> SUFFICES ASSUME j # i PROVE FALSE
      OBVIOUS
    <3>1. Before(i, j) /\ Before(j, i)
      BY <2>1, <2>2, <2>3
    <3> QED BY <1>10, <2>1, <3>1
  <2> HIDE DEF First
  <2>4. (CHOOSE j \in C : First(j)) = i
    BY <2>1, <2>2, <2>3
  <2>5. C # {}
    BY <2>1
  <2> QED BY <1>3, <1>4, <1>11, <2>4, <2>5 DEF i
<1>12. CASE L = {} /\ C # {}
  <2> DEFINE i == Assembly!Min(C)
  <2>1. i \in C
    BY <1>2, <1>12, LeastPosition
  <2> HIDE DEF i
  <2>2. C = {i}
    BY <1>5, <1>6, <1>12, <2>1
  <2>3. First(i)
    BY <2>2
  <2> HIDE DEF First
  <2>4. (CHOOSE j \in C : First(j)) = i
    BY <2>2, <2>3
  <2> QED BY <1>3, <1>4, <1>12, <2>4 DEF i
<1>13. CASE L = {} /\ C = {}
  BY <1>3, <1>4, <1>13
<1> QED BY <1>11, <1>12, <1>13

\* The parts a composed profile consists of (try_compose).
LEMMA ProfileParts ==
    ASSUME Assembly!IInv, Assembly!Composed
    PROVE  /\ profile.contributions \in Seq(Assembly!Contributions)
           /\ profile.routes \in Seq(Assembly!ManifestRoutes)
           /\ profile.routes = Assembly!RoutesUpTo(profile.contributions)[Len(profile.contributions)]
           /\ Assembly!ValidateManifest(profile.routes)
           /\ \A i \in DOMAIN profile.contributions : Assembly!Validate(profile.contributions[i])
           /\ profile.document = Assembly!MergeOpenApiDocuments(Assembly!Documents(profile.contributions))
           /\ profile.document # Conflict
           /\ Assembly!RouteInventoryFromOpenApi(profile.document) = Assembly!RouteInventoryFromRoutes(profile.routes)
<1> DEFINE cs == Assembly!Flatten(registry.modules)
           routes == Assembly!RoutesUpTo(cs)[Len(cs)]
           document == Assembly!MergeOpenApiDocuments(Assembly!Documents(cs))
<1>1. cs \in Seq(Assembly!Contributions)
  BY FlattenedContributions DEF Assembly!IInv
<1>2. profile = Assembly!TryCompose(cs) /\ profile # Refused
  BY DEF Assembly!IInv, Assembly!ProfileIsComposed, Assembly!Composed
<1> HIDE DEF cs
<1>3. /\ \A i \in DOMAIN cs : Assembly!Validate(cs[i])
      /\ Assembly!ValidateManifest(routes) /\ document # Conflict
      /\ Assembly!RouteInventoryFromOpenApi(document) = Assembly!RouteInventoryFromRoutes(routes)
      /\ profile = [contributions |-> cs, routes |-> routes, document |-> document,
                    permissions |-> UNION {cs[i].permissions : i \in DOMAIN cs}]
  BY <1>2 DEF Assembly!TryCompose
<1> HIDE DEF routes, document
<1>4. profile.contributions = cs /\ profile.routes = routes /\ profile.document = document
  BY <1>3
<1>5. routes \in Seq(Assembly!ManifestRoutes)
  <2>1. Len(cs) \in 0..Len(cs)
    BY <1>1
  <2> QED BY <1>1, <2>1, RoutesArePlaced DEF routes
<1> QED BY <1>1, <1>3, <1>4, <1>5 DEF routes, document

\* A composed profile holds a request to the authentication of the route that
\* handles it.
LEMMA HandlersKeep == Assembly!IInv => Assembly!HandlerKeepsItsAuth(RequestPaths)
  BY ProfileParts, MatchIsRouted DEF Assembly!HandlerKeepsItsAuth

\* The documents a profile merges.
LEMMA ProfileDocuments ==
    ASSUME NEW cs \in Seq(Assembly!Contributions)
    PROVE  /\ Len(Assembly!Documents(cs)) = Len(cs) /\ DOMAIN cs = 1..Len(cs)
           /\ \A i \in 1..Len(cs) : /\ Assembly!Documents(cs)[i] = [owner |-> cs[i].owner, document |-> cs[i].document]
                                    /\ IsContribution(cs[i])
           /\ AreDocuments(Assembly!Documents(cs))
<1> DEFINE docs == Assembly!Documents(cs)
<1>1. DOMAIN cs = 1..Len(cs) /\ Len(cs) \in Nat /\ \A i \in 1..Len(cs) : cs[i] \in Assembly!Contributions
  OBVIOUS
<1>2. \A i \in 1..Len(cs) : IsContribution(cs[i])
  BY <1>1, ContributionsAreShaped
<1>3. /\ Len(docs) = Len(cs)
      /\ \A i \in 1..Len(cs) : docs[i] = [owner |-> cs[i].owner, document |-> cs[i].document]
  BY <1>1 DEF Assembly!Documents
<1> HIDE DEF docs
<1>4. ASSUME NEW i \in 1..Len(cs) PROVE docs[i].document = cs[i].document
  <2>1. docs[i] = [owner |-> cs[i].owner, document |-> cs[i].document]
    BY <1>3
  <2> QED BY <2>1
<1>5. AreDocuments(docs)
  BY <1>1, <1>2, <1>3, <1>4 DEF AreDocuments, IsContribution
<1> QED BY <1>1, <1>2, <1>3, <1>5 DEF docs

\* The document of a composed profile does not depend on the order of its owners.
LEMMA MergesKeep == Assembly!IInv => Assembly!MergeIsOrderFree
<1> SUFFICES ASSUME Assembly!IInv, Assembly!Composed,
                    NEW order \in Assembly!Bijection(DOMAIN profile.contributions, DOMAIN profile.contributions)
             PROVE  LET merged == Assembly!MergeOwnedDocuments([i \in DOMAIN profile.contributions |->
                                    Assembly!Documents(profile.contributions)[order[i]]])
                    IN /\ merged.ok
                       /\ merged.version.line = profile.document.version.line
                       /\ merged.version.patch = profile.document.version.patch
                       /\ DOMAIN merged.entries = DOMAIN profile.document.entries
                       /\ \A k \in DOMAIN merged.entries :
                            k.section = "operation" => merged.entries[k].value = profile.document.entries[k]
  BY DEF Assembly!MergeIsOrderFree
<1> DEFINE cs == profile.contributions
           docs == Assembly!Documents(cs)
           reordered == [i \in DOMAIN cs |-> docs[order[i]]]
           merged == Assembly!MergeOwnedDocuments(reordered)
           first == Assembly!MergeOwnedDocuments(docs)
           document == profile.document
<1>1. /\ cs \in Seq(Assembly!Contributions)
      /\ document = Assembly!MergeOpenApiDocuments(docs) /\ document # Conflict
  BY ProfileParts
<1>2. DOMAIN cs = 1..Len(docs) /\ AreDocuments(docs)
  BY <1>1, ProfileDocuments
<1>3. reordered = Reordered(docs, order)
  BY <1>2 DEF Reordered
<1> HIDE DEF cs, docs, document
<1>4. /\ first.ok /\ Len(docs) > 0 /\ document.version = first.version
      /\ DOMAIN document.entries = DOMAIN first.entries
      /\ \A k \in DOMAIN first.entries : document.entries[k] = first.entries[k].value
  BY <1>1, <1>2, MergedIsDocument
<1>5. order \in Assembly!Bijection(1..Len(docs), 1..Len(docs))
  BY <1>2 DEF cs
<1> HIDE DEF reordered
<1>6. /\ merged.ok /\ merged.version.line = first.version.line /\ merged.version.patch = first.version.patch
      /\ DOMAIN merged.entries = DOMAIN first.entries
      /\ \A k \in DOMAIN first.entries :
            k.section = "operation" => merged.entries[k].value = first.entries[k].value
  BY <1>2, <1>3, <1>4, <1>5, MergesCommute
<1> HIDE DEF merged, first
<1>7. /\ merged.ok /\ merged.version.line = document.version.line /\ merged.version.patch = document.version.patch
      /\ DOMAIN merged.entries = DOMAIN document.entries
      /\ \A k \in DOMAIN merged.entries :
            k.section = "operation" => merged.entries[k].value = document.entries[k]
  BY <1>4, <1>6
<1> QED BY <1>7 DEF merged, reordered, docs, cs, document

-------------------------------------------------------------------------------
(* One operation per route, of the owner that declares the route. *)

\* Two templates an inventory has one path for are one template to the manifest
\* (inventory.rs normalize_route_path, route_manifest.rs normalized_template_path).
LEMMA InventoryPathsAreTemplates ==
    ASSUME NEW p \in Seq(Assembly!TemplateSegments), NEW q \in Seq(Assembly!TemplateSegments),
           Assembly!NormalizeRoutePath(Assembly!TemplateText(p)) = Assembly!NormalizeRoutePath(Assembly!TemplateText(q))
    PROVE  Assembly!NormalizedTemplatePath(p) = Assembly!NormalizedTemplatePath(q)
<1> DEFINE P == Assembly!NormalizeRoutePath(Assembly!TemplateText(p))
           Q == Assembly!NormalizeRoutePath(Assembly!TemplateText(q))
           Written(s) == [text |-> IF s.text \in DOMAIN BraceForm THEN BraceForm[s.text] ELSE s.text,
                          suffix |-> s.suffix]
<1>1. /\ DOMAIN P = DOMAIN p /\ \A n \in DOMAIN p : P[n] = Written(p[n])
      /\ DOMAIN Q = DOMAIN q /\ \A n \in DOMAIN q : Q[n] = Written(q[n])
  BY DEF Assembly!NormalizeRoutePath, Assembly!TemplateText
<1> HIDE DEF P, Q
<1>2. DOMAIN p = DOMAIN q /\ \A n \in DOMAIN p : Written(p[n]) = Written(q[n])
  <2>1. P = Q
    BY DEF P, Q
  <2> QED BY <1>1, <2>1
<1>3. ASSUME NEW n \in DOMAIN p
      PROVE  Assembly!NormalizedTemplatePath(p)[n] = Assembly!NormalizedTemplatePath(q)[n]
  <2> DEFINE s == p[n]
             t == q[n]
             Segment(x) == IF x.form \in {"param", "colon"} THEN [text |-> "{}", suffix |-> ""]
                           ELSE [text |-> x.text, suffix |-> x.suffix]
  <2>1. s \in Assembly!TemplateSegments /\ t \in Assembly!TemplateSegments
    BY <1>2
  <2>2. /\ Assembly!IsSegment(s) /\ Assembly!IsSegment(t)
        /\ Assembly!SpellTheirForm(s, t) /\ Assembly!SpellTheirForm(t, s)
    BY <2>1, AssemblyAssumption
  <2>3. Assembly!NormalizedTemplatePath(p)[n] = Segment(s) /\ Assembly!NormalizedTemplatePath(q)[n] = Segment(t)
    BY <1>2 DEF Assembly!NormalizedTemplatePath, Assembly!TemplateText
  <2>4. Written(s) = Written(t)
    BY <1>2
  <2> HIDE DEF s, t
  <2>5. /\ s.suffix = t.suffix
        /\ (IF s.text \in DOMAIN BraceForm THEN BraceForm[s.text] ELSE s.text)
            = (IF t.text \in DOMAIN BraceForm THEN BraceForm[t.text] ELSE t.text)
    BY <2>4
  <2>6. (s.form = "colon" <=> s.text \in DOMAIN BraceForm) /\ (t.form = "colon" <=> t.text \in DOMAIN BraceForm)
    BY <2>2 DEF Assembly!IsSegment
  <2>7. CASE s.form = "colon" /\ t.form = "colon"
    BY <2>3, <2>7
  <2>8. CASE s.form = "colon" /\ t.form # "colon"
    <3>1. t.text = BraceForm[s.text]
      BY <2>5, <2>6, <2>8
    <3>2. t.form = "param"
      BY <2>2, <2>5, <2>8, <3>1 DEF Assembly!SpellTheirForm
    <3> QED BY <2>3, <2>8, <3>2
  <2>9. CASE s.form # "colon" /\ t.form = "colon"
    <3>1. s.text = BraceForm[t.text]
      BY <2>5, <2>6, <2>9
    <3>2. s.form = "param"
      BY <2>2, <2>5, <2>9, <3>1 DEF Assembly!SpellTheirForm
    <3> QED BY <2>3, <2>9, <3>2
  <2>10. CASE s.form # "colon" /\ t.form # "colon"
    <3>1. s.text = t.text
      BY <2>5, <2>6, <2>10
    <3>2. s.form = t.form
      BY <2>2, <2>5, <3>1 DEF Assembly!SpellTheirForm
    <3> QED BY <2>3, <2>5, <3>1, <3>2
  <2> QED BY <2>7, <2>8, <2>9, <2>10
<1>4. Assembly!NormalizedTemplatePath(p) = Assembly!NormalizedTemplatePath(q)
  <2> DEFINE f == Assembly!NormalizedTemplatePath(p)
             g == Assembly!NormalizedTemplatePath(q)
  <2>1. f = [n \in DOMAIN p |-> f[n]] /\ g = [n \in DOMAIN p |-> g[n]]
    BY <1>2 DEF Assembly!NormalizedTemplatePath
  <2> HIDE DEF f, g
  <2>2. \A n \in DOMAIN p : f[n] = g[n]
    BY <1>3 DEF f, g
  <2>3. f = g
    BY <2>1, <2>2
  <2> QED BY <2>3 DEF f, g
<1> QED BY <1>4

\* The methods an inventory counts operations of (openapi_operation_inventory).
Methods == {"DELETE", "GET", "PATCH", "POST", "PUT"}

\* The operations of a document that an inventory counts.
Operations(document) == {k \in DOMAIN document.entries : k.section = "operation" /\ k.name \in Methods}

\* The path an inventory has for a route, and the operation that is documented there.
RoutePath(route) == Assembly!NormalizeRoutePath(Assembly!TemplateText(route.path))

\* An operation of a document is a route's: the same method at the same normalized
\* path (validate_contribution).
Describes(k, route) == k.name = route.method /\ Assembly!NormalizeRoutePath(k.path) = RoutePath(route)

\* Where the inventories agree, the operations of a document and the routes of a
\* manifest are paired: there are as many rows as routes, since no two routes have
\* one path, so no two operations have one row (validate_contribution).
LEMMA OperationsAreRoutes ==
    ASSUME NEW routes \in Seq(Assembly!ManifestRoutes), Assembly!ValidateManifest(routes),
           NEW document, Assembly!IsDocument(document),
           Assembly!RouteInventoryFromOpenApi(document) = Assembly!RouteInventoryFromRoutes(routes)
    PROVE  /\ \A k \in Operations(document) : \E i \in DOMAIN routes : Describes(k, routes[i])
           /\ \A i \in DOMAIN routes : \E k \in Operations(document) :
                /\ Describes(k, routes[i]) /\ document.entries[k].mode = routes[i].auth
                /\ \A l \in Operations(document) : Describes(l, routes[i]) => l = k
<1> DEFINE O == Operations(document)
           Row(k) == Assembly!InventoryEntry(document.entries[k].surface, k.name, k.path,
                        document.entries[k].id, document.entries[k].mode)
           Line(i) == Assembly!InventoryEntry(
                        Assembly!InferApiSurfaceFromPath(Assembly!TemplateText(routes[i].path)), routes[i].method,
                        Assembly!TemplateText(routes[i].path), routes[i].id, routes[i].auth)
           N == Len(routes)
           rows == {Row(k) : k \in O}
<1>1. N \in Nat /\ DOMAIN routes = 1..N /\ \A i \in 1..N : routes[i].path \in Seq(Assembly!TemplateSegments)
  <2>1. DOMAIN routes = 1..N /\ N \in Nat /\ \A i \in 1..N : routes[i] \in Assembly!ManifestRoutes
    OBVIOUS
  <2> QED BY <2>1, AssemblyAssumption
<1>2. rows = {Line(i) : i \in 1..N} /\ Cardinality(O) = N
  <2> DEFINE a == Assembly!RouteInventoryFromOpenApi(document)
             b == Assembly!RouteInventoryFromRoutes(routes)
  <2>1. a.rows = rows /\ a.count = Assembly!Cardinality(O)
    BY DEF Assembly!RouteInventoryFromOpenApi, Operations, Methods
  <2>2. b.rows = {Line(i) : i \in 1..N} /\ b.count = N
    BY <1>1 DEF Assembly!RouteInventoryFromRoutes
  <2>3. a.rows = b.rows /\ a.count = b.count
    OBVIOUS
  <2> HIDE DEF a, b, Row, Line, O
  <2> QED BY <2>1, <2>2, <2>3, CardinalityIsCardinality
<1>3. IsFiniteSet(O)
  <2>1. IsFiniteSet(DOMAIN document.entries) /\ O \in SUBSET DOMAIN document.entries
    BY FiniteIsFinite DEF Assembly!IsDocument, Operations
  <2> HIDE DEF O
  <2> QED BY <2>1, FS_Subset
<1>4. ASSUME NEW k \in O, NEW i \in 1..N, Row(k) = Line(i)
      PROVE  Describes(k, routes[i]) /\ document.entries[k].mode = routes[i].auth
  <2>1. \A s, m, p, d, a, s2, m2, p2, d2, a2 :
            Assembly!InventoryEntry(s, m, p, d, a) = Assembly!InventoryEntry(s2, m2, p2, d2, a2) =>
                m = m2 /\ Assembly!NormalizeRoutePath(p) = Assembly!NormalizeRoutePath(p2) /\ a = a2
    BY DEF Assembly!InventoryEntry
  <2> QED BY <1>4, <2>1 DEF Describes, RoutePath
<1>5. ASSUME NEW i \in 1..N, NEW j \in 1..N, routes[i].method = routes[j].method,
             RoutePath(routes[i]) = RoutePath(routes[j])
      PROVE  i = j
  <2>1. Assembly!NormalizedTemplatePath(routes[i].path) = Assembly!NormalizedTemplatePath(routes[j].path)
    BY <1>1, <1>5, InventoryPathsAreTemplates DEF RoutePath
  <2>2. Assembly!CollisionKey(routes[i]) = Assembly!CollisionKey(routes[j])
    BY <1>5, <2>1 DEF Assembly!CollisionKey
  <2> QED BY <1>1, <2>2, KeysTellRoutesApart
<1>6. ASSUME NEW i \in 1..N, NEW j \in 1..N, Line(i) = Line(j) PROVE i = j
  <2>1. \A s, m, p, d, a, s2, m2, p2, d2, a2 :
            Assembly!InventoryEntry(s, m, p, d, a) = Assembly!InventoryEntry(s2, m2, p2, d2, a2) =>
                m = m2 /\ Assembly!NormalizeRoutePath(p) = Assembly!NormalizeRoutePath(p2)
    BY DEF Assembly!InventoryEntry
  <2>2. routes[i].method = routes[j].method /\ RoutePath(routes[i]) = RoutePath(routes[j])
    BY <1>6, <2>1 DEF RoutePath
  <2> QED BY <1>5, <2>2
<1> HIDE DEF O, Row, Line
<1>7. IsFiniteSet(rows) /\ Cardinality(rows) = N
  <2> DEFINE f == [i \in 1..N |-> Line(i)]
  <2>1. IsFiniteSet(1..N) /\ Cardinality(1..N) = N
    BY <1>1, FS_Interval
  <2>2. f \in Surjection(1..N, rows) /\ f \in Injection(1..N, rows)
    <3>1. f \in [1..N -> rows] /\ \A i \in 1..N : f[i] = Line(i)
      BY <1>2
    <3>2. \A r \in rows : \E i \in 1..N : f[i] = r
      BY <1>2, <3>1
    <3>3. \A i, j \in 1..N : f[i] = f[j] => i = j
      BY <1>6, <3>1
    <3> HIDE DEF f, rows
    <3> QED BY <3>1, <3>2, <3>3 DEF Surjection, Injection, IsInjective
  <2> HIDE DEF f, rows
  <2> QED BY <2>1, <2>2, FS_Surjection
<1>8. ASSUME NEW k \in O, NEW l \in O, Row(k) = Row(l) PROVE k = l
  <2> DEFINE f == [x \in O |-> Row(x)]
  <2>1. f \in [O -> rows] /\ \A x \in O : f[x] = Row(x)
    OBVIOUS
  <2>2. \A r \in rows : \E x \in O : f[x] = r
    BY <2>1
  <2> HIDE DEF f, rows
  <2>3. f \in Surjection(O, rows)
    BY <2>1, <2>2 DEF Surjection
  <2>4. f \in Injection(O, rows)
    BY <1>2, <1>3, <1>7, <2>3, FS_SurjSameCardinalityImpliesInj
  <2> QED BY <1>8, <2>1, <2>4 DEF Injection, IsInjective
<1>9. \A k \in O : \E i \in 1..N : Row(k) = Line(i)
  <2>1. \A k \in O : Row(k) \in rows
    OBVIOUS
  <2> HIDE DEF rows
  <2>2. \A r \in rows : \E i \in 1..N : r = Line(i)
    BY <1>2
  <2> QED BY <2>1, <2>2
<1>10. \A i \in 1..N : \E k \in O : Row(k) = Line(i)
  <2>1. \A i \in 1..N : Line(i) \in rows
    BY <1>2
  <2> QED BY <2>1
<1>11. ASSUME NEW i \in 1..N
       PROVE  \E k \in O : /\ Describes(k, routes[i]) /\ document.entries[k].mode = routes[i].auth
                           /\ \A l \in O : Describes(l, routes[i]) => l = k
  <2>1. PICK k \in O : Row(k) = Line(i)
    BY <1>10
  <2>2. ASSUME NEW l \in O, Describes(l, routes[i]) PROVE l = k
    <3>1. PICK j \in 1..N : Row(l) = Line(j)
      BY <1>9
    <3>2. Describes(l, routes[j])
      BY <1>4, <3>1
    <3>3. i = j
      BY <1>5, <2>2, <3>2 DEF Describes
    <3> QED BY <1>8, <2>1, <3>1, <3>3
  <2> QED BY <1>4, <2>1, <2>2
<1>12. \A k \in O : \E i \in 1..N : Describes(k, routes[i])
  BY <1>4, <1>9
<1> QED BY <1>1, <1>11, <1>12 DEF O

\* The combined document of a composed profile speaks for the owner of each route.
LEMMA DocumentsSpeak == Assembly!IInv => Assembly!DocumentSpeaksForOwners
<1> SUFFICES ASSUME Assembly!IInv, Assembly!Composed, NEW c \in DOMAIN profile.contributions,
                    NEW r \in DOMAIN profile.contributions[c].routes
             PROVE  LET route == profile.contributions[c].routes[r]
                        path == Assembly!NormalizeRoutePath(Assembly!TemplateText(route.path))
                        operations == {k \in DOMAIN profile.document.entries : /\ k.section = "operation"
                                        /\ k.name = route.method /\ Assembly!NormalizeRoutePath(k.path) = path}
                    IN /\ Assembly!Cardinality(operations) = 1
                       /\ \A k \in operations :
                            /\ profile.document.entries[k].owner = profile.contributions[c].owner
                            /\ profile.document.entries[k].mode = route.auth
                            /\ profile.document.entries[k] = profile.contributions[c].document.entries[k]
  BY DEF Assembly!DocumentSpeaksForOwners
<1> DEFINE cs == profile.contributions
           N == Len(cs)
           docs == Assembly!Documents(cs)
           document == profile.document
           routes == profile.routes
           route == cs[c].routes[r]
           p == Position(cs, c, r)
           operations == {k \in DOMAIN document.entries : /\ k.section = "operation"
                            /\ k.name = route.method /\ Assembly!NormalizeRoutePath(k.path) = RoutePath(route)}
<1>1. /\ cs \in Seq(Assembly!Contributions)
      /\ routes \in Seq(Assembly!ManifestRoutes) /\ routes = Assembly!RoutesUpTo(cs)[N]
      /\ Assembly!ValidateManifest(routes)
      /\ \A i \in DOMAIN cs : Assembly!Validate(cs[i])
      /\ document = Assembly!MergeOpenApiDocuments(docs) /\ document # Conflict
      /\ Assembly!RouteInventoryFromOpenApi(document) = Assembly!RouteInventoryFromRoutes(routes)
  BY ProfileParts
<1>2. /\ c \in DOMAIN cs /\ r \in DOMAIN cs[c].routes
  OBVIOUS
<1> HIDE DEF cs, document, routes, docs
<1>3. /\ N \in Nat /\ N \in 0..N /\ Len(docs) = N /\ DOMAIN cs = 1..N /\ AreDocuments(docs)
      /\ \A i \in 1..N : docs[i] = [owner |-> cs[i].owner, document |-> cs[i].document] /\ IsContribution(cs[i])
  BY <1>1, ProfileDocuments DEF docs
<1>4. /\ Assembly!IsDocument(document)
      /\ \A k \in DOMAIN document.entries : \E i \in 1..N :
            k \in DOMAIN cs[i].document.entries /\ document.entries[k] = cs[i].document.entries[k]
  <2> DEFINE merged == Assembly!MergeOwnedDocuments(docs)
  <2>1. /\ Assembly!IsDocument(document) /\ merged.ok /\ IsMergeOf(merged, docs, N)
        /\ DOMAIN document.entries = DOMAIN merged.entries
        /\ \A k \in DOMAIN merged.entries : document.entries[k] = merged.entries[k].value
    BY <1>1, <1>3, MergedIsDocument
  <2> HIDE DEF merged
  <2>2. ASSUME NEW k \in DOMAIN document.entries
        PROVE  \E i \in 1..N : k \in DOMAIN cs[i].document.entries /\ document.entries[k] = cs[i].document.entries[k]
    <3>1. PICK i \in 1..N : /\ k \in DOMAIN docs[i].document.entries
                            /\ merged.entries[k] = [owner |-> docs[i].owner, value |-> docs[i].document.entries[k]]
      BY <2>1 DEF IsMergeOf, ComesFrom
    <3>2. docs[i].document = cs[i].document
      <4>1. docs[i] = [owner |-> cs[i].owner, document |-> cs[i].document]
        BY <1>3
      <4> QED BY <4>1
    <3>3. document.entries[k] = docs[i].document.entries[k]
      BY <2>1, <3>1
    <3> QED BY <3>1, <3>2, <3>3
  <2> QED BY <2>1, <2>2
<1>5. p \in DOMAIN routes /\ routes[p] = route
  <2>1. \A e \in 1..N : \A i \in DOMAIN cs[e].routes :
            Position(cs, e, i) \in 1..Len(routes) /\ routes[Position(cs, e, i)] = cs[e].routes[i]
    BY <1>1, <1>3, RoutesArePlaced
  <2>2. p \in 1..Len(routes) /\ routes[p] = route
    BY <1>2, <1>3, <2>1
  <2> QED BY <1>1, <2>2
<1>6. /\ \A k \in Operations(document) : \E i \in DOMAIN routes : Describes(k, routes[i])
      /\ \A i \in DOMAIN routes : \E k \in Operations(document) :
           /\ Describes(k, routes[i]) /\ document.entries[k].mode = routes[i].auth
           /\ \A l \in Operations(document) : Describes(l, routes[i]) => l = k
  BY <1>1, <1>4, OperationsAreRoutes
<1>7. PICK k \in Operations(document) : /\ Describes(k, route) /\ document.entries[k].mode = route.auth
                                        /\ \A l \in Operations(document) : Describes(l, route) => l = k
  BY <1>5, <1>6
<1> HIDE DEF p, route
<1>8. operations = {k}
  <2>1. k \in operations /\ route.method \in Methods
    BY <1>7 DEF Operations, Describes
  <2>2. \A l \in operations : l \in Operations(document) /\ Describes(l, route)
    BY <2>1 DEF Operations, Describes
  <2> HIDE DEF operations
  <2> QED BY <1>7, <2>1, <2>2
<1>9. document.entries[k].owner = cs[c].owner /\ document.entries[k] = cs[c].document.entries[k]
  <2>1. PICK d \in 1..N : k \in DOMAIN cs[d].document.entries /\ document.entries[k] = cs[d].document.entries[k]
    BY <1>4, <1>7 DEF Operations
  <2>2. k \in Operations(cs[d].document)
    BY <1>7, <2>1 DEF Operations
  <2>3. /\ Assembly!ValidateManifest(cs[d].routes) /\ Assembly!ValidateOpenApiOwnership(cs[d].owner, cs[d].document)
        /\ Assembly!RouteInventoryFromOpenApi(cs[d].document) = Assembly!RouteInventoryFromRoutes(cs[d].routes)
        /\ cs[d].routes \in Seq(Assembly!ManifestRoutes) /\ Assembly!IsDocument(cs[d].document)
    BY <1>1, <1>3 DEF Assembly!Validate, IsContribution
  <2>4. PICK s \in DOMAIN cs[d].routes : Describes(k, cs[d].routes[s])
    BY <2>2, <2>3, OperationsAreRoutes
  <2> DEFINE q == Position(cs, d, s)
  <2>5. q \in DOMAIN routes /\ routes[q] = cs[d].routes[s]
    <3>1. q \in 1..Len(routes) /\ routes[q] = cs[d].routes[s]
      BY <1>1, <1>3, RoutesArePlaced
    <3> QED BY <1>1, <3>1
  <2> HIDE DEF q
  <2>6. q = p
    <3>1. routes[p].method = routes[q].method /\ RoutePath(routes[p]) = RoutePath(routes[q])
      BY <1>5, <1>7, <2>4, <2>5 DEF Describes
    <3>2. routes[p].path \in Seq(Assembly!TemplateSegments) /\ routes[q].path \in Seq(Assembly!TemplateSegments)
      <4>1. routes[p] \in Assembly!ManifestRoutes /\ routes[q] \in Assembly!ManifestRoutes
        BY <1>1, <1>5, <2>5
      <4> QED BY <4>1, AssemblyAssumption
    <3>3. Assembly!CollisionKey(routes[p]) = Assembly!CollisionKey(routes[q])
      BY <3>1, <3>2, InventoryPathsAreTemplates DEF RoutePath, Assembly!CollisionKey
    <3>4. DOMAIN routes = 1..Len(routes) /\ Len(routes) \in Nat
      BY <1>1
    <3> QED BY <1>1, <1>5, <2>5, <3>3, <3>4, KeysTellRoutesApart
  <2>7. c = d
    BY <1>1, <1>2, <1>3, <2>6, PositionsAreDistinct DEF p, q
  <2>8. cs[d].document.entries[k].owner = cs[d].owner
    BY <2>2, <2>3 DEF Assembly!ValidateOpenApiOwnership, Operations, Methods
  <2> QED BY <2>1, <2>7, <2>8
<1>10. Assembly!Cardinality(operations) = 1
  BY <1>8, FS_Singleton, CardinalityIsCardinality
<1>11. ASSUME NEW l \in operations
       PROVE  /\ document.entries[l].owner = cs[c].owner /\ document.entries[l].mode = route.auth
              /\ document.entries[l] = cs[c].document.entries[l]
  <2>1. l = k
    BY <1>8
  <2> QED BY <1>7, <1>9, <2>1
<1> QED BY <1>10, <1>11 DEF RoutePath, cs, document, route

===============================================================================
