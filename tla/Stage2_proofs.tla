--------------------------- MODULE Stage2_proofs ---------------------------
(***************************************************************************)
(* Proofs that the stage-2 code keeps its tables, the region tables and    *)
(* the TLB in agreement, confines every guest and implements the abstract  *)
(* address spaces, for every number of VMs and regions, every table, pool  *)
(* and TLB size and all requests of the callers.  S2Inv is the inductive   *)
(* invariant.  First comes what the table functions of src/hv/stage2.c do  *)
(* to one well-formed tree of tables: a table page is linked in by one     *)
(* entry and every entry is on the path of one address range, so linking a *)
(* new table changes no translation and writing a leaf changes the         *)
(* translation of one page.                                                *)
(***************************************************************************)
EXTENDS Stage2, TLAPS, NaturalsInduction, WellFoundedInduction


-----------------------------------------------------------------------------
\* The number of pages that three levels of tables can tell apart.
TablePages == HV_STAGE2_DESCS_PER_TABLE * HV_STAGE2_DESCS_PER_TABLE
                 * HV_STAGE2_DESCS_PER_TABLE

\* The table that entry i of table t leads to, if any.
Down(s, pool, t, i) == stage2_desc_to_table(pool, s.pool[t][i])

Level2(s, pool) == {t \in Table : \E i \in Index : Down(s, pool, Root, i) = t}

Level3(s, pool) ==
    {t \in Table : \E u \in Level2(s, pool), i \in Index : Down(s, pool, u, i) = t}

\* The tables whose entries lead to tables.
Inner(s, pool) == {Root} \cup Level2(s, pool)

TablesType(s) ==
    /\ s \in HvStage2
    /\ s.pool_used \in 1 .. HV_STAGE2_MAX_TABLE_PAGES
    /\ \A t \in Table, i \in Index : s.pool[t][i].bits # "BLOCK"

\* Every used entry of an inner table leads to a page that was handed out.
LinksValid(s, pool) ==
    \A t \in Inner(s, pool), i \in Index :
        s.pool[t][i] = DESC_INVALID \/ Down(s, pool, t, i) \in 1 .. s.pool_used - 1

\* No page is led to by two entries.
LinksUnique(s, pool) ==
    \A t, u \in Inner(s, pool), i, j \in Index :
        /\ Down(s, pool, t, i) = Down(s, pool, u, j)
        /\ Down(s, pool, t, i) # NoTable
        => t = u /\ i = j

\* No page that was handed out is lost.
AllLinked(s, pool) ==
    \A t \in 1 .. s.pool_used - 1 : t \in Level2(s, pool) \cup Level3(s, pool)

FreeClean(s) ==
    \A t \in Table : t >= s.pool_used => s.pool[t] = stage2_zero_table

WellFormed(s, pool) ==
    /\ TablesType(s)
    /\ LinksValid(s, pool)
    /\ LinksUnique(s, pool)
    /\ AllLinked(s, pool)
    /\ FreeClean(s)

\* Page p is translated by n as it is by s.
SameTranslation(s, n, pool, p) ==
    /\ Mapped(n, pool, p) <=> Mapped(s, pool, p)
    /\ Mapped(s, pool, p) =>
          hv_stage2_translate(n, pool, p) = hv_stage2_translate(s, pool, p)

-----------------------------------------------------------------------------
\* Division with remainder, and that quotient and remainder are unique.
LEMMA DivMod ==
  ASSUME NEW p \in Nat, NEW m \in Nat \ {0}
  PROVE  /\ p = m * (p \div m) + (p % m)
         /\ p % m \in 0 .. m - 1
         /\ p \div m \in Nat
  OBVIOUS

\* Quotient of a number given as quotient and remainder.
LEMMA DivUnique ==
  ASSUME NEW m \in Nat \ {0}, NEW q \in Nat, NEW r \in 0 .. m - 1,
         NEW p \in Nat, p = m * q + r
  PROVE  p \div m = q
  OBVIOUS

\* The digits of a page number: the indices that the walk takes from it.
LEMMA Digits ==
  ASSUME NEW d \in Nat \ {0}, NEW p \in Nat, p < d * d * d
  PROVE  p = d * (d * ((p \div (d * d)) % d) + ((p \div d) % d)) + (p % d)
<1>. DEFINE a == p \div d
            b == a \div d
            t == a % d
            r == p % d
<1>1. p = d * a + r /\ r \in 0 .. d - 1 /\ a \in Nat
  BY DivMod
<1>2. a = d * b + t /\ t \in 0 .. d - 1 /\ b \in Nat
  BY <1>1, DivMod
<1>3. p = (d * d) * b + (d * t + r) /\ d * t + r \in 0 .. (d * d) - 1
  <2>. HIDE DEF a, b, t, r
  <2>1. d * a = (d * d) * b + d * t
    BY <1>2
  <2>2. d * t <= d * (d - 1) /\ d * t \in Nat
    BY <1>2
  <2>3. d * (d - 1) = d * d - d /\ d * d \in Nat
    OBVIOUS
  <2>. QED BY <1>1, <1>2, <2>1, <2>2, <2>3
<1>4. p \div (d * d) = b
  <2>1. d * d \in Nat \ {0}
    OBVIOUS
  <2>. HIDE DEF a, b, t, r
  <2>. QED BY <1>2, <1>3, <2>1, DivUnique
<1>5. b < d
  <2>. HIDE DEF a, b, t, r
  <2>1. (d * d) * b < (d * d) * d
    BY <1>2, <1>3
  <2>. QED BY <2>1, <1>2
<1>6. b % d = b
  <2>. HIDE DEF a, b, t, r
  <2>. QED BY <1>2, <1>5
<1>. QED BY <1>1, <1>2, <1>4, <1>6

\* Two pages with the same three indices are the same page.
LEMMA IndicesDetermine ==
  ASSUME NEW p \in Nat, NEW q \in Nat,
         p < TablePages,
         q < TablePages,
         L1Index(p) = L1Index(q), L2Index(p) = L2Index(q), L3Index(p) = L3Index(q)
  PROVE  p = q
  BY TablesAssumption, Digits DEF TablePages, L1Index, L2Index, L3Index

\* The three fields of a page number are indices into a table.
LEMMA IndexType ==
  ASSUME NEW p \in Nat
  PROVE  L1Index(p) \in Index /\ L2Index(p) \in Index /\ L3Index(p) \in Index
<1>. DEFINE d == HV_STAGE2_DESCS_PER_TABLE
<1>1. d \in Nat \ {0} /\ d * d \in Nat \ {0}
  BY TablesAssumption
<1>2. p \div (d * d) \in Nat /\ p \div d \in Nat
  BY <1>1, DivMod
<1>3. /\ (p \div (d * d)) % d \in 0 .. d - 1
      /\ (p \div d) % d \in 0 .. d - 1
      /\ p % d \in 0 .. d - 1
  BY <1>1, <1>2, DivMod
<1>. QED BY <1>3 DEF L1Index, L2Index, L3Index, Index

-----------------------------------------------------------------------------
\* What an entry leads to: nothing, or a table of the pool.
LEMMA DownType ==
  ASSUME NEW s \in HvStage2, NEW pool \in Nat, NEW t \in Table, NEW i \in Index
  PROVE  /\ Down(s, pool, t, i) \in Table \cup {NoTable}
         /\ NoTable \notin Table
         /\ s.pool[t][i].bits # "TABLE" => Down(s, pool, t, i) = NoTable
  BY TablesAssumption
  DEF Down, stage2_desc_to_table, HvStage2, HvStage2Desc, Table, NoTable

\* The entry that stage2_next_table writes leads to the page handed out.
LEMMA DownOfLink ==
  ASSUME NEW pool \in Nat, NEW u \in Table
  PROVE  /\ DESC_TABLE(pool + u) \in HvStage2Desc
         /\ DESC_TABLE(pool + u).bits = "TABLE"
         /\ stage2_desc_to_table(pool, DESC_TABLE(pool + u)) = u
  BY TablesAssumption DEF DESC_TABLE, HvStage2Desc, stage2_desc_to_table, Table

\* The root table is the first of the arena.
LEMMA RootType == Root \in Table /\ Root = 0
  BY TablesAssumption DEF Root, Table

\* Tables of different levels are different tables.
LEMMA LevelsApart ==
  ASSUME NEW s, NEW pool \in Nat, WellFormed(s, pool)
  PROVE  /\ Inner(s, pool) \subseteq Table
         /\ Level3(s, pool) \subseteq Table
         /\ Root \notin Level2(s, pool)
         /\ Inner(s, pool) \cap Level3(s, pool) = {}
         /\ \A t \in Level2(s, pool) \cup Level3(s, pool) : t < s.pool_used
<1>1. s \in HvStage2 /\ s.pool_used \in Nat
  BY TablesAssumption DEF WellFormed, TablesType
<1>2. Inner(s, pool) \subseteq Table /\ Level3(s, pool) \subseteq Table
  BY RootType DEF Inner, Level2, Level3
<1>3. \A t \in Level2(s, pool) \cup Level3(s, pool) : t \in 1 .. s.pool_used - 1
  <2>. SUFFICES ASSUME NEW t \in Level2(s, pool) \cup Level3(s, pool)
                PROVE  t \in 1 .. s.pool_used - 1
    OBVIOUS
  <2>1. PICK u \in Inner(s, pool), i \in Index : Down(s, pool, u, i) = t /\ t \in Table
    BY DEF Inner, Level2, Level3
  <2>2. t # NoTable
    BY <2>1, TablesAssumption DEF Table, NoTable
  <2>3. s.pool[u][i] # DESC_INVALID
    BY <1>1, <1>2, <2>1, <2>2, DownType DEF DESC_INVALID
  <2>. QED BY <2>1, <2>3 DEF WellFormed, LinksValid
<1>4. Root \notin Level2(s, pool) \cup Level3(s, pool)
  BY <1>1, <1>3, RootType
<1>5. ASSUME NEW t \in Level2(s, pool), t \in Level3(s, pool) PROVE FALSE
  <2>1. PICK i \in Index : Down(s, pool, Root, i) = t
    BY <1>5 DEF Level2
  <2>2. PICK u \in Level2(s, pool), j \in Index : Down(s, pool, u, j) = t
    BY <1>5 DEF Level3
  <2>3. t # NoTable
    BY <1>2, <1>5, TablesAssumption DEF Table, NoTable
  <2>4. Root = u
    BY <2>1, <2>2, <2>3 DEF WellFormed, LinksUnique, Inner
  <2>. QED BY <1>4, <2>4
<1>. QED BY <1>1, <1>2, <1>3, <1>4, <1>5 DEF Inner

-----------------------------------------------------------------------------
\* stage2_next_table when the entry is empty and the pool has a page left.
NewTable(s, pool, t, i) ==
    [AllocTable(s) EXCEPT !.pool[t][i] = DESC_TABLE(pool + s.pool_used)]

\* One entry written.
Written(s, t, i, d) == [s EXCEPT !.pool[t][i] = d]

\* Writing an entry writes that entry.
LEMMA WrittenFacts ==
  ASSUME NEW s \in HvStage2, NEW t \in Table, NEW i \in Index, NEW d \in HvStage2Desc
  PROVE  /\ Written(s, t, i, d) \in HvStage2
         /\ Written(s, t, i, d).pool_used = s.pool_used
         /\ Written(s, t, i, d).pool[t][i] = d
         /\ \A u \in Table, j \in Index :
               u # t \/ j # i => Written(s, t, i, d).pool[u][j] = s.pool[u][j]
         /\ \A u \in Table : u # t => Written(s, t, i, d).pool[u] = s.pool[u]
  BY DEF Written, HvStage2

\* Handing out a page links it, and changes nothing else.
LEMMA NewTableFacts ==
  ASSUME NEW s, NEW pool \in Nat, WellFormed(s, pool),
         NEW t \in Table, t < s.pool_used, NEW i \in Index,
         s.pool_used < HV_STAGE2_MAX_TABLE_PAGES
  PROVE  /\ s.pool_used \in Table
         /\ NewTable(s, pool, t, i) \in HvStage2
         /\ NewTable(s, pool, t, i).pool_used = s.pool_used + 1
         /\ NewTable(s, pool, t, i).pool[t][i] = DESC_TABLE(pool + s.pool_used)
         /\ \A u \in Table, j \in Index :
               u # t \/ j # i => NewTable(s, pool, t, i).pool[u][j] = s.pool[u][j]
         /\ \A u \in Table : u # t => NewTable(s, pool, t, i).pool[u] = s.pool[u]
<1>. DEFINE a == AllocTable(s)
            d == DESC_TABLE(pool + s.pool_used)
<1>1. s \in HvStage2 /\ s.pool_used \in Table /\ s.pool_used \in Nat
  BY TablesAssumption DEF WellFormed, TablesType, Table
<1>2. s.pool[s.pool_used] = stage2_zero_table
  BY <1>1 DEF WellFormed, FreeClean
<1>3. a \in HvStage2 /\ a.pool = s.pool /\ a.pool_used = s.pool_used + 1
  <2>1. a.pool = [s.pool EXCEPT ![s.pool_used] = stage2_zero_table]
    BY <1>1 DEF AllocTable, HvStage2
  <2>2. a.pool = s.pool
    BY <1>1, <1>2, <2>1 DEF HvStage2
  <2>3. stage2_zero_table \in [Index -> HvStage2Desc]
    BY DEF stage2_zero_table, DESC_INVALID, HvStage2Desc
  <2>4. a.pool_used = s.pool_used + 1
    BY <1>1 DEF AllocTable, HvStage2
  <2>5. a \in HvStage2
    <3>. DEFINE b == [s EXCEPT !.pool[s.pool_used] = stage2_zero_table]
    <3>1. b \in HvStage2
      BY <1>1, <2>3 DEF HvStage2
    <3>2. a = [b EXCEPT !.pool_used = s.pool_used + 1]
      BY DEF AllocTable
    <3>. HIDE DEF a, b
    <3>. QED BY <1>1, <3>1, <3>2 DEF HvStage2
  <2>. QED BY <2>2, <2>4, <2>5
<1>4. d \in HvStage2Desc
  BY <1>1, DownOfLink
<1>5. NewTable(s, pool, t, i) = Written(a, t, i, d)
  BY DEF NewTable, Written
<1>. HIDE DEF a, d
<1>. QED BY <1>1, <1>3, <1>4, <1>5, WrittenFacts, SMTT(30) DEF d

\* Linking a new table keeps the tree.
LEMMA NewTableWellFormed ==
  ASSUME NEW s, NEW pool \in Nat, WellFormed(s, pool),
         NEW t \in Inner(s, pool), NEW i \in Index, s.pool[t][i] = DESC_INVALID,
         s.pool_used < HV_STAGE2_MAX_TABLE_PAGES
  PROVE  /\ WellFormed(NewTable(s, pool, t, i), pool)
         /\ t = Root => s.pool_used \in Level2(NewTable(s, pool, t, i), pool)
<1>. DEFINE n == NewTable(s, pool, t, i)
            new == s.pool_used
            D(u, j) == Down(s, pool, u, j)
            E(u, j) == Down(n, pool, u, j)
<1>1. /\ s \in HvStage2 /\ s.pool_used \in Nat /\ s.pool_used >= 1
      /\ t \in Table /\ t < s.pool_used
  <2>1. s \in HvStage2 /\ s.pool_used \in Nat /\ s.pool_used >= 1
    BY TablesAssumption DEF WellFormed, TablesType
  <2>2. t \in Table /\ (t = Root \/ t \in Level2(s, pool))
    BY LevelsApart DEF Inner
  <2>. QED BY <2>1, <2>2, LevelsApart, RootType
<1>2. /\ new \in Table /\ n \in HvStage2 /\ n.pool_used = new + 1
      /\ n.pool[t][i] = DESC_TABLE(pool + new)
      /\ \A u \in Table, j \in Index : u # t \/ j # i => n.pool[u][j] = s.pool[u][j]
      /\ \A u \in Table : u # t => n.pool[u] = s.pool[u]
  BY <1>1, NewTableFacts
<1>3. E(t, i) = new
  BY <1>2, DownOfLink DEF Down
<1>4. \A u \in Table, j \in Index : u # t \/ j # i => E(u, j) = D(u, j)
  BY <1>2 DEF Down
<1>5. D(t, i) = NoTable
  BY <1>1, DownType DEF DESC_INVALID
<1>6. \A j \in Index : s.pool[new][j] = DESC_INVALID /\ D(new, j) = NoTable
  <2>1. s.pool[new] = stage2_zero_table
    BY <1>1, <1>2 DEF WellFormed, FreeClean
  <2>. QED BY <1>1, <1>2, <2>1, DownType DEF stage2_zero_table, DESC_INVALID
<1>7. /\ Root \in Table /\ NoTable \notin Table /\ new # t
      /\ \A u \in Table, j \in Index : D(u, j) \in Table \cup {NoTable}
  BY <1>1, RootType, DownType, TablesAssumption DEF Table, NoTable
<1>8. /\ Level2(s, pool) = {u \in Table : \E j \in Index : D(Root, j) = u}
      /\ Level2(n, pool) = {u \in Table : \E j \in Index : E(Root, j) = u}
      /\ Level3(s, pool) =
            {u \in Table : \E v \in Level2(s, pool), j \in Index : D(v, j) = u}
      /\ Level3(n, pool) =
            {u \in Table : \E v \in Level2(n, pool), j \in Index : E(v, j) = u}
  BY DEF Level2, Level3
<1>9. /\ TablesType(s) /\ LinksValid(s, pool) /\ LinksUnique(s, pool)
      /\ AllLinked(s, pool) /\ FreeClean(s)
  BY DEF WellFormed
<1>10. /\ Root \notin Level2(s, pool)
       /\ new \notin Inner(s, pool) /\ new \notin Level3(s, pool)
       /\ Level2(s, pool) \subseteq Table /\ Level3(s, pool) \subseteq Table
  BY <1>1, LevelsApart, RootType DEF Inner
<1>. HIDE DEF n, D, E
<1>11. /\ Inner(n, pool) \subseteq Inner(s, pool) \cup {new}
       /\ Level2(n, pool) \cup Level3(n, pool)
            = Level2(s, pool) \cup Level3(s, pool) \cup {new}
       /\ t = Root => new \in Level2(n, pool)
  <2>1. CASE t = Root
    <3>1. Level2(n, pool) = Level2(s, pool) \cup {new}
      BY <1>2, <1>3, <1>4, <1>5, <1>7, <1>8, <2>1
    <3>2. \A v \in Level2(s, pool) \cup {new}, j \in Index : E(v, j) = D(v, j)
      BY <1>2, <1>4, <1>7, <1>10, <2>1
    <3>3. Level3(n, pool) = Level3(s, pool)
      BY <1>6, <1>7, <1>8, <3>1, <3>2
    <3>. QED BY <3>1, <3>3 DEF Inner
  <2>2. CASE t \in Level2(s, pool)
    <3>1. Level2(n, pool) = Level2(s, pool)
      BY <1>2, <1>4, <1>7, <1>8, <1>10, <2>2
    <3>2. Level3(n, pool) = Level3(s, pool) \cup {new}
      BY <1>2, <1>3, <1>4, <1>5, <1>7, <1>8, <1>10, <2>2, <3>1
    <3>. QED BY <1>10, <2>2, <3>1, <3>2 DEF Inner
  <2>. QED BY <2>1, <2>2 DEF Inner
<1>12. TablesType(n)
  <2>1. \A u \in Table, j \in Index : n.pool[u][j].bits # "BLOCK"
    BY <1>2, <1>9, DownOfLink DEF TablesType
  <2>2. n.pool_used \in 1 .. HV_STAGE2_MAX_TABLE_PAGES
    BY <1>1, <1>2, TablesAssumption
  <2>. QED BY <1>2, <2>1, <2>2 DEF TablesType
<1>13. LinksValid(n, pool)
  <2>. SUFFICES ASSUME NEW u \in Inner(n, pool), NEW j \in Index,
                       n.pool[u][j] # DESC_INVALID
                PROVE  E(u, j) \in 1 .. n.pool_used - 1
    BY DEF LinksValid, E
  <2>1. u \in Table
    BY <1>2, <1>7, <1>10, <1>11 DEF Inner
  <2>2. CASE u = t /\ j = i
    BY <1>1, <1>2, <1>3, <2>2
  <2>3. CASE ~ (u = t /\ j = i)
    <3>1. n.pool[u][j] = s.pool[u][j] /\ E(u, j) = D(u, j)
      BY <1>2, <1>4, <2>1, <2>3
    <3>2. u \in Inner(s, pool)
      BY <1>6, <1>11, <3>1
    <3>3. D(u, j) \in 1 .. s.pool_used - 1
      BY <1>9, <3>1, <3>2 DEF LinksValid, D
    <3>. QED BY <1>1, <1>2, <3>1, <3>3
  <2>. QED BY <2>2, <2>3
<1>14. LinksUnique(n, pool)
  <2>. SUFFICES ASSUME NEW u \in Inner(n, pool), NEW v \in Inner(n, pool),
                       NEW j \in Index, NEW k \in Index,
                       E(u, j) = E(v, k), E(u, j) # NoTable
                PROVE  u = v /\ j = k
    BY DEF LinksUnique, E
  <2>1. \A x \in Inner(n, pool), l \in Index :
           (x = t /\ l = i) \/ (E(x, l) = D(x, l) /\ (E(x, l) # NoTable => x \in Inner(s, pool)))
    BY <1>2, <1>4, <1>6, <1>7, <1>10, <1>11 DEF Inner
  <2>2. \A x \in Inner(s, pool), l \in Index : D(x, l) # new
    <3>. SUFFICES ASSUME NEW x \in Inner(s, pool), NEW l \in Index, D(x, l) = new
                  PROVE  FALSE
      OBVIOUS
    <3>. QED BY <1>2, <1>8, <1>10 DEF Inner
  <2>3. CASE (u = t /\ j = i) \/ (v = t /\ k = i)
    BY <1>3, <2>1, <2>2, <2>3, <1>2, <1>7
  <2>4. CASE ~ (u = t /\ j = i) /\ ~ (v = t /\ k = i)
    BY <1>9, <2>1, <2>4 DEF LinksUnique, D
  <2>. QED BY <2>3, <2>4
<1>15. AllLinked(n, pool)
  BY <1>1, <1>2, <1>9, <1>11 DEF AllLinked
<1>16. FreeClean(n)
  <2>. SUFFICES ASSUME NEW u \in Table, u >= n.pool_used PROVE n.pool[u] = stage2_zero_table
    BY DEF FreeClean
  <2>1. u # t /\ u >= s.pool_used
    BY <1>1, <1>2 DEF Table
  <2>. QED BY <1>2, <1>9, <2>1 DEF FreeClean
<1>17. WellFormed(n, pool)
  BY <1>12, <1>13, <1>14, <1>15, <1>16 DEF WellFormed
<1>. QED BY <1>11, <1>17 DEF n

-----------------------------------------------------------------------------
\* The level-3 table that the walk without allocation ends at.
Leaf(s, pool, p) == stage2_walk_l3(s, pool, p, FALSE).t

\* The walk of a well-formed tree, entry by entry.
LEMMA WalkFacts ==
  ASSUME NEW s, NEW pool \in Nat, WellFormed(s, pool), NEW p \in Nat
  PROVE  LET t2 == Down(s, pool, Root, L1Index(p))
             t3 == Leaf(s, pool, p)
         IN  /\ t3 = IF t2 = NoTable THEN NoTable ELSE Down(s, pool, t2, L2Index(p))
             /\ t2 \in Table \cup {NoTable} /\ t3 \in Table \cup {NoTable}
             /\ t2 # NoTable => t2 \in Level2(s, pool)
             /\ t3 # NoTable => t2 # NoTable /\ t3 \in Level3(s, pool)
             /\ Mapped(s, pool, p) <=>
                   t3 # NoTable /\ s.pool[t3][L3Index(p)].bits = "TABLE"
             /\ hv_stage2_translate(s, pool, p) = s.pool[t3][L3Index(p)].addr
<1>. DEFINE t2 == Down(s, pool, Root, L1Index(p))
            t3 == Leaf(s, pool, p)
<1>1. t3 = IF t2 = NoTable THEN NoTable ELSE Down(s, pool, t2, L2Index(p))
  BY DEF Leaf, Down, stage2_walk_l3, Descend
<1>2. s \in HvStage2
  BY DEF WellFormed, TablesType
<1>3. L1Index(p) \in Index /\ L2Index(p) \in Index
  BY IndexType
<1>4. t2 \in Table \cup {NoTable} /\ (t2 # NoTable => t2 \in Level2(s, pool))
  BY <1>2, <1>3, RootType, DownType DEF Level2
<1>5. t3 \in Table \cup {NoTable} /\ (t3 # NoTable => t2 # NoTable /\ t3 \in Level3(s, pool))
  <2>. HIDE DEF t2, t3
  <2>. QED BY <1>1, <1>2, <1>3, <1>4, DownType DEF Level3
<1>6. /\ Mapped(s, pool, p) <=> t3 # NoTable /\ s.pool[t3][L3Index(p)].bits = "TABLE"
      /\ hv_stage2_translate(s, pool, p) = s.pool[t3][L3Index(p)].addr
  BY DEF Mapped, hv_stage2_translate, Leaf
<1>. QED BY <1>1, <1>4, <1>5, <1>6

\* A level-3 entry is the entry of one page.
LEMMA LeafDetermines ==
  ASSUME NEW s, NEW pool \in Nat, WellFormed(s, pool), NEW p \in Nat, NEW q \in Nat,
         p < TablePages,
         q < TablePages,
         Leaf(s, pool, p) = Leaf(s, pool, q), Leaf(s, pool, p) # NoTable,
         L3Index(p) = L3Index(q)
  PROVE  p = q
<1>. DEFINE u == Down(s, pool, Root, L1Index(p))
            v == Down(s, pool, Root, L1Index(q))
<1>1. /\ u \in Level2(s, pool) /\ Leaf(s, pool, p) = Down(s, pool, u, L2Index(p))
      /\ u # NoTable
  BY WalkFacts
<1>2. /\ v \in Level2(s, pool) /\ Leaf(s, pool, q) = Down(s, pool, v, L2Index(q))
      /\ v # NoTable
  BY WalkFacts
<1>3. /\ L1Index(p) \in Index /\ L2Index(p) \in Index
      /\ L1Index(q) \in Index /\ L2Index(q) \in Index
  BY IndexType
<1>. HIDE DEF u, v
<1>4. LinksUnique(s, pool) /\ u \in Inner(s, pool) /\ v \in Inner(s, pool)
  BY <1>1, <1>2 DEF WellFormed, Inner
<1>5. u = v /\ L2Index(p) = L2Index(q)
  <2>1. Down(s, pool, u, L2Index(p)) = Down(s, pool, v, L2Index(q))
    BY <1>1, <1>2
  <2>2. Down(s, pool, u, L2Index(p)) # NoTable
    BY <1>1
  <2>3. \A x, y \in Inner(s, pool), i, j \in Index :
           /\ Down(s, pool, x, i) = Down(s, pool, y, j)
           /\ Down(s, pool, x, i) # NoTable
           => x = y /\ i = j
    BY <1>4 DEF LinksUnique
  <2>. QED BY <1>3, <1>4, <2>1, <2>2, <2>3
<1>6. L1Index(p) = L1Index(q)
  <2>1. Root \in Inner(s, pool)
    BY DEF Inner
  <2>. QED BY <1>1, <1>3, <1>4, <1>5, <2>1 DEF LinksUnique, u, v
<1>. QED BY <1>5, <1>6, IndicesDetermine

\* Linking a new table changes no translation.
LEMMA NewTableTranslates ==
  ASSUME NEW s, NEW pool \in Nat, WellFormed(s, pool),
         NEW t \in Inner(s, pool), NEW i \in Index, s.pool[t][i] = DESC_INVALID,
         s.pool_used < HV_STAGE2_MAX_TABLE_PAGES, NEW p \in Nat
  PROVE  SameTranslation(s, NewTable(s, pool, t, i), pool, p)
<1>. DEFINE n == NewTable(s, pool, t, i)
            new == s.pool_used
            D(u, j) == Down(s, pool, u, j)
            E(u, j) == Down(n, pool, u, j)
<1>1. s \in HvStage2 /\ new \in Nat /\ t \in Table /\ t < new
  <2>1. s \in HvStage2 /\ new \in Nat /\ new >= 1
    BY TablesAssumption DEF WellFormed, TablesType
  <2>. QED BY <2>1, LevelsApart, RootType DEF Inner
<1>2. /\ new \in Table /\ n \in HvStage2
      /\ n.pool[t][i] = DESC_TABLE(pool + new)
      /\ \A u \in Table, j \in Index : u # t \/ j # i => n.pool[u][j] = s.pool[u][j]
      /\ \A u \in Table : u # t => n.pool[u] = s.pool[u]
  BY <1>1, NewTableFacts
<1>3. E(t, i) = new /\ \A u \in Table, j \in Index : u # t \/ j # i => E(u, j) = D(u, j)
  BY <1>2, DownOfLink DEF Down
<1>4. D(t, i) = NoTable /\ s.pool[t][i].bits = "INVALID"
  BY <1>1, DownType DEF DESC_INVALID
<1>5. \A j \in Index : n.pool[new][j].bits = "INVALID" /\ E(new, j) = NoTable
  <2>1. n.pool[new] = stage2_zero_table
    BY <1>1, <1>2 DEF WellFormed, FreeClean
  <2>. QED BY <1>2, <2>1, DownType DEF stage2_zero_table, DESC_INVALID
<1>6. WellFormed(n, pool)
  BY NewTableWellFormed
<1>. DEFINE a == L1Index(p)
            b == L2Index(p)
            c == L3Index(p)
            t2 == D(Root, a)
            t3 == Leaf(s, pool, p)
            n2 == E(Root, a)
            n3 == Leaf(n, pool, p)
<1>7. a \in Index /\ b \in Index /\ c \in Index /\ Root \in Table /\ new # NoTable
  BY <1>1, IndexType, RootType, TablesAssumption DEF NoTable
<1>8. /\ t3 = IF t2 = NoTable THEN NoTable ELSE D(t2, b)
      /\ t2 \in Table \cup {NoTable} /\ t3 \in Table \cup {NoTable}
      /\ t3 # NoTable => t3 \in Level3(s, pool)
      /\ Mapped(s, pool, p) <=> t3 # NoTable /\ s.pool[t3][c].bits = "TABLE"
      /\ hv_stage2_translate(s, pool, p) = s.pool[t3][c].addr
  BY WalkFacts
<1>9. /\ n3 = IF n2 = NoTable THEN NoTable ELSE E(n2, b)
      /\ n2 \in Table \cup {NoTable} /\ n3 \in Table \cup {NoTable}
      /\ Mapped(n, pool, p) <=> n3 # NoTable /\ n.pool[n3][c].bits = "TABLE"
      /\ hv_stage2_translate(n, pool, p) = n.pool[n3][c].addr
  BY <1>6, WalkFacts
<1>. HIDE DEF n, new, D, E, a, b, c, t2, t3, n2, n3
<1>10. ASSUME Mapped(s, pool, p)
       PROVE  Mapped(n, pool, p) /\ n3 = t3 /\ n.pool[n3][c] = s.pool[t3][c]
  <2>1. t2 # NoTable /\ t3 = D(t2, b) /\ t3 # NoTable /\ s.pool[t3][c].bits = "TABLE"
    BY <1>8, <1>10
  <2>2. n2 = t2
    BY <1>3, <1>4, <1>7, <2>1 DEF n2, t2
  <2>3. n3 = t3
    BY <1>3, <1>4, <1>7, <1>8, <1>9, <2>1, <2>2
  <2>4. n.pool[t3][c] = s.pool[t3][c]
    BY <1>2, <1>4, <1>7, <1>8, <2>1
  <2>. QED BY <1>9, <2>1, <2>3, <2>4
<1>11. ASSUME Mapped(n, pool, p) PROVE Mapped(s, pool, p)
  <2>1. n2 # NoTable /\ n3 = E(n2, b) /\ n3 # NoTable /\ n.pool[n3][c].bits = "TABLE"
    BY <1>9, <1>11
  <2>2. n2 # new /\ n3 # new
    BY <1>5, <1>7, <2>1
  <2>3. n2 = t2
    BY <1>3, <1>7, <2>2 DEF n2, t2
  <2>4. n3 = t3
    BY <1>3, <1>7, <1>8, <1>9, <2>1, <2>2, <2>3
  <2>5. n.pool[n3][c] = s.pool[n3][c]
    <3>1. n3 # t
      BY <1>8, <2>1, <2>4, LevelsApart
    <3>. QED BY <1>2, <1>7, <1>9, <2>1, <3>1
  <2>. QED BY <1>8, <2>1, <2>4, <2>5
<1>. QED BY <1>8, <1>9, <1>10, <1>11 DEF SameTranslation, n

\* Writing an entry of a level-3 table keeps the tree, and changes the
\* translation of the one page that the entry belongs to.
LEMMA WriteLeaf ==
  ASSUME NEW s, NEW pool \in Nat, WellFormed(s, pool), NEW ipa \in Nat,
         ipa < TablePages,
         Leaf(s, pool, ipa) # NoTable, NEW d \in HvStage2Desc, d.bits # "BLOCK"
  PROVE  LET n == Written(s, Leaf(s, pool, ipa), L3Index(ipa), d)
         IN  /\ WellFormed(n, pool)
             /\ Mapped(n, pool, ipa) <=> d.bits = "TABLE"
             /\ hv_stage2_translate(n, pool, ipa) = d.addr
             /\ \A p \in Nat :
                   p < TablePages /\ p # ipa => SameTranslation(s, n, pool, p)
<1>. DEFINE t == Leaf(s, pool, ipa)
            i == L3Index(ipa)
            n == Written(s, t, i, d)
<1>1. s \in HvStage2 /\ s.pool_used \in Nat /\ i \in Index
  BY IndexType, TablesAssumption DEF WellFormed, TablesType
<1>2. t \in Level3(s, pool) /\ t \in Table
  BY WalkFacts DEF Level3
<1>3. /\ n \in HvStage2 /\ n.pool_used = s.pool_used /\ n.pool[t][i] = d
      /\ \A u \in Table, j \in Index : u # t \/ j # i => n.pool[u][j] = s.pool[u][j]
      /\ \A u \in Table : u # t => n.pool[u] = s.pool[u]
  <2>. HIDE DEF t, i
  <2>. QED BY <1>1, <1>2, WrittenFacts DEF n
<1>4. /\ t \notin Inner(s, pool) /\ Inner(s, pool) \subseteq Table
      /\ t < s.pool_used
  BY <1>2, LevelsApart
<1>. HIDE DEF t, i, n
<1>5. /\ \A u \in Inner(s, pool) : n.pool[u] = s.pool[u]
      /\ \A u \in Inner(s, pool), j \in Index :
            Down(n, pool, u, j) = Down(s, pool, u, j)
  BY <1>3, <1>4 DEF Down
<1>6. /\ Level2(n, pool) = Level2(s, pool)
      /\ Inner(n, pool) = Inner(s, pool)
      /\ Level3(n, pool) = Level3(s, pool)
  <2>1. Level2(n, pool) = Level2(s, pool)
    BY <1>5 DEF Level2, Inner
  <2>2. Inner(n, pool) = Inner(s, pool)
    BY <2>1 DEF Inner
  <2>. QED BY <1>5, <2>1, <2>2 DEF Level3, Inner
<1>7. WellFormed(n, pool)
  <2>1. TablesType(n)
    BY <1>3 DEF WellFormed, TablesType
  <2>2. LinksValid(n, pool)
    BY <1>3, <1>5, <1>6 DEF WellFormed, LinksValid
  <2>3. LinksUnique(n, pool)
    BY <1>5, <1>6 DEF WellFormed, LinksUnique
  <2>4. AllLinked(n, pool)
    BY <1>3, <1>6 DEF WellFormed, AllLinked
  <2>5. FreeClean(n)
    <3>. SUFFICES ASSUME NEW u \in Table, u >= n.pool_used PROVE n.pool[u] = stage2_zero_table
      BY DEF FreeClean
    <3>1. u # t
      BY <1>1, <1>2, <1>3, <1>4 DEF Table
    <3>. QED BY <1>3, <3>1 DEF WellFormed, FreeClean
  <2>. QED BY <2>1, <2>2, <2>3, <2>4, <2>5 DEF WellFormed
<1>8. \A p \in Nat : Leaf(n, pool, p) = Leaf(s, pool, p)
  <2>. SUFFICES ASSUME NEW p \in Nat PROVE Leaf(n, pool, p) = Leaf(s, pool, p)
    OBVIOUS
  <2>1. L1Index(p) \in Index /\ L2Index(p) \in Index
    BY IndexType
  <2>2. Down(n, pool, Root, L1Index(p)) = Down(s, pool, Root, L1Index(p))
    BY <1>5, <2>1 DEF Inner
  <2>. DEFINE u == Down(s, pool, Root, L1Index(p))
  <2>3. u # NoTable => Down(n, pool, u, L2Index(p)) = Down(s, pool, u, L2Index(p))
    BY <1>5, <2>1, WalkFacts DEF Inner
  <2>4. Leaf(n, pool, p) = IF u = NoTable THEN NoTable ELSE Down(n, pool, u, L2Index(p))
    BY <1>7, <2>2, WalkFacts
  <2>5. Leaf(s, pool, p) = IF u = NoTable THEN NoTable ELSE Down(s, pool, u, L2Index(p))
    BY WalkFacts
  <2>. QED BY <2>3, <2>4, <2>5
<1>9. /\ Mapped(n, pool, ipa) <=> d.bits = "TABLE"
      /\ hv_stage2_translate(n, pool, ipa) = d.addr
  BY <1>3, <1>7, <1>8, WalkFacts DEF t, i
<1>10. ASSUME NEW p \in Nat, p # ipa,
              p < TablePages
       PROVE  SameTranslation(s, n, pool, p)
  <2>. DEFINE v == Leaf(s, pool, p)
  <2>1. v # NoTable => v # t \/ L3Index(p) # i
    BY <1>10, LeafDetermines DEF t, i
  <2>2. v \in Table \cup {NoTable} /\ L3Index(p) \in Index
    BY WalkFacts, IndexType
  <2>3. /\ Mapped(s, pool, p) <=> v # NoTable /\ s.pool[v][L3Index(p)].bits = "TABLE"
        /\ hv_stage2_translate(s, pool, p) = s.pool[v][L3Index(p)].addr
    BY WalkFacts
  <2>4. /\ Mapped(n, pool, p) <=> v # NoTable /\ n.pool[v][L3Index(p)].bits = "TABLE"
        /\ hv_stage2_translate(n, pool, p) = n.pool[v][L3Index(p)].addr
    BY <1>7, <1>8, WalkFacts
  <2>5. v # NoTable => n.pool[v][L3Index(p)] = s.pool[v][L3Index(p)]
    <3>. HIDE DEF v
    <3>. QED BY <1>3, <2>1, <2>2
  <2>. QED BY <2>3, <2>4, <2>5 DEF SameTranslation
<1>. QED BY <1>7, <1>9, <1>10 DEF n, t, i

-----------------------------------------------------------------------------
\* stage2_next_table: it fails only for an empty entry and an exhausted pool;
\* otherwise the entry leads to the table it returns.  No link is lost.
LEMMA NextTable ==
  ASSUME NEW s, NEW pool \in Nat, WellFormed(s, pool),
         NEW t \in Inner(s, pool), NEW i \in Index
  PROVE  LET r == stage2_next_table(s, pool, t, i)
         IN  /\ WellFormed(r.s, pool)
             /\ \A p \in Nat : SameTranslation(s, r.s, pool, p)
             /\ r.t = NoTable =>
                   /\ r.s = s /\ Down(s, pool, t, i) = NoTable
                   /\ s.pool_used = HV_STAGE2_MAX_TABLE_PAGES
             /\ r.t # NoTable =>
                   /\ Down(r.s, pool, t, i) = r.t
                   /\ t = Root => r.t \in Level2(r.s, pool)
             /\ \A u \in Table, j \in Index :
                   Down(s, pool, u, j) # NoTable =>
                      Down(r.s, pool, u, j) = Down(s, pool, u, j)
<1>. DEFINE r == stage2_next_table(s, pool, t, i)
            n == NewTable(s, pool, t, i)
<1>1. /\ s \in HvStage2 /\ s.pool_used \in 1 .. HV_STAGE2_MAX_TABLE_PAGES
      /\ t \in Table /\ s.pool[t][i].bits # "BLOCK"
  BY LevelsApart DEF WellFormed, TablesType
<1>2. s.pool[t][i] = DESC_INVALID \/ Down(s, pool, t, i) \in 1 .. s.pool_used - 1
  BY DEF WellFormed, LinksValid
<1>3. \A p \in Nat : SameTranslation(s, s, pool, p)
  BY DEF SameTranslation
<1>4. CASE s.pool[t][i].bits = "TABLE"
  <2>1. r = [s |-> s, t |-> Down(s, pool, t, i)]
    BY <1>4 DEF stage2_next_table, Down
  <2>2. Down(s, pool, t, i) # NoTable /\ Down(s, pool, t, i) \in Table
    BY <1>1, <1>2, <1>4, TablesAssumption DEF DESC_INVALID, NoTable, Table
  <2>3. t = Root => Down(s, pool, t, i) \in Level2(s, pool)
    BY <2>2 DEF Level2
  <2>. HIDE DEF r
  <2>. QED BY <1>3, <2>1, <2>2, <2>3 DEF r
<1>5. CASE s.pool[t][i].bits # "TABLE" /\ s.pool_used >= HV_STAGE2_MAX_TABLE_PAGES
  <2>1. r = [s |-> s, t |-> NoTable]
    BY <1>5 DEF stage2_next_table
  <2>2. Down(s, pool, t, i) = NoTable
    BY <1>1, <1>5, DownType
  <2>3. s.pool_used = HV_STAGE2_MAX_TABLE_PAGES
    BY <1>1, <1>5, TablesAssumption
  <2>. HIDE DEF r
  <2>. QED BY <1>3, <2>1, <2>2, <2>3 DEF r
<1>6. CASE s.pool[t][i].bits # "TABLE" /\ ~ (s.pool_used >= HV_STAGE2_MAX_TABLE_PAGES)
  <2>1. s.pool[t][i] = DESC_INVALID /\ s.pool_used < HV_STAGE2_MAX_TABLE_PAGES
    <3>1. Down(s, pool, t, i) = NoTable
      BY <1>1, <1>6, DownType
    <3>2. s.pool[t][i] = DESC_INVALID
      BY <1>1, <1>2, <3>1, TablesAssumption DEF NoTable
    <3>. QED BY <1>1, <1>6, <3>2, TablesAssumption
  <2>2. r = [s |-> n, t |-> s.pool_used]
    BY <1>6, <2>1 DEF stage2_next_table, NewTable, DESC_INVALID
  <2>3. WellFormed(n, pool) /\ (t = Root => s.pool_used \in Level2(n, pool))
    BY <2>1, NewTableWellFormed
  <2>4. \A p \in Nat : SameTranslation(s, n, pool, p)
    BY <2>1, NewTableTranslates
  <2>5. t < s.pool_used
    BY <1>1, LevelsApart, RootType, TablesAssumption DEF Inner
  <2>6. /\ s.pool_used \in Table
        /\ n.pool[t][i] = DESC_TABLE(pool + s.pool_used)
        /\ \A u \in Table, j \in Index : u # t \/ j # i => n.pool[u][j] = s.pool[u][j]
    BY <1>1, <2>1, <2>5, NewTableFacts
  <2>7. Down(n, pool, t, i) = s.pool_used /\ s.pool_used # NoTable
    BY <2>6, DownOfLink, TablesAssumption DEF Down, Table, NoTable
  <2>8. \A u \in Table, j \in Index :
          Down(s, pool, u, j) # NoTable => Down(n, pool, u, j) = Down(s, pool, u, j)
    <3>1. Down(s, pool, t, i) = NoTable
      BY <1>1, <1>6, DownType
    <3>. QED BY <2>6, <3>1 DEF Down
  <2>. HIDE DEF r, n
  <2>. QED BY <2>2, <2>3, <2>4, <2>7, <2>8 DEF r
<1>. QED BY <1>4, <1>5, <1>6

\* The walk with allocation: it changes no translation, returns the table that
\* a plain walk then finds, and fails only when the pool is exhausted.
LEMMA WalkAllocates ==
  ASSUME NEW s, NEW pool \in Nat, WellFormed(s, pool), NEW ipa \in Nat
  PROVE  LET w == stage2_walk_l3(s, pool, ipa, TRUE)
         IN  /\ WellFormed(w.s, pool)
             /\ \A p \in Nat : SameTranslation(s, w.s, pool, p)
             /\ w.t = Leaf(w.s, pool, ipa)
             /\ w.t = NoTable => w.s.pool_used = HV_STAGE2_MAX_TABLE_PAGES
<1>. DEFINE w == stage2_walk_l3(s, pool, ipa, TRUE)
            x == stage2_next_table(s, pool, Root, L1Index(ipa))
            y == stage2_next_table(x.s, pool, x.t, L2Index(ipa))
<1>1. w = IF x.t = NoTable THEN x ELSE y
  BY DEF stage2_walk_l3, Descend
<1>2. /\ L1Index(ipa) \in Index /\ L2Index(ipa) \in Index
      /\ Root \in Inner(s, pool) /\ Root \in Table
  BY IndexType, RootType DEF Inner
<1>3. /\ WellFormed(x.s, pool)
      /\ \A p \in Nat : SameTranslation(s, x.s, pool, p)
      /\ x.t = NoTable =>
            /\ x.s = s /\ Down(s, pool, Root, L1Index(ipa)) = NoTable
            /\ s.pool_used = HV_STAGE2_MAX_TABLE_PAGES
      /\ x.t # NoTable =>
            /\ Down(x.s, pool, Root, L1Index(ipa)) = x.t
            /\ x.t \in Level2(x.s, pool)
  BY <1>2, NextTable
<1>. HIDE DEF x, w
<1>4. CASE x.t = NoTable
  <2>1. Leaf(x.s, pool, ipa) = NoTable
    BY <1>3, <1>4, WalkFacts
  <2>. QED BY <1>1, <1>3, <1>4, <2>1 DEF w
<1>5. CASE x.t # NoTable
  <2>1. x.t \in Inner(x.s, pool)
    BY <1>3, <1>5 DEF Inner
  <2>2. /\ WellFormed(y.s, pool)
        /\ \A p \in Nat : SameTranslation(x.s, y.s, pool, p)
        /\ y.t = NoTable =>
              /\ y.s = x.s /\ Down(x.s, pool, x.t, L2Index(ipa)) = NoTable
              /\ x.s.pool_used = HV_STAGE2_MAX_TABLE_PAGES
        /\ y.t # NoTable => Down(y.s, pool, x.t, L2Index(ipa)) = y.t
        /\ \A u \in Table, j \in Index :
              Down(x.s, pool, u, j) # NoTable =>
                 Down(y.s, pool, u, j) = Down(x.s, pool, u, j)
    BY <1>2, <1>3, <2>1, NextTable
  <2>. HIDE DEF y
  <2>3. \A p \in Nat : SameTranslation(s, y.s, pool, p)
    BY <1>3, <2>2 DEF SameTranslation
  <2>4. Down(y.s, pool, Root, L1Index(ipa)) = x.t
    BY <1>2, <1>3, <1>5, <2>2
  <2>5. y.t = Leaf(y.s, pool, ipa)
    BY <1>5, <2>2, <2>4, WalkFacts
  <2>. QED BY <1>1, <1>5, <2>2, <2>3, <2>5 DEF w
<1>. QED BY <1>4, <1>5

-----------------------------------------------------------------------------
\* stage2_map_page: OK means that this page, and no other, has become mapped, to
\* the frame asked for; the two failures say what they mean and map nothing.
LEMMA MapPage ==
  ASSUME NEW s, NEW pool \in Nat, WellFormed(s, pool),
         NEW ipa \in Nat, ipa < TablePages, NEW pa \in Nat
  PROVE  LET m == stage2_map_page(s, pool, ipa, pa)
         IN  /\ WellFormed(m.s, pool)
             /\ m.res \in {"OK", "MAPPED", "NO_TABLES"}
             /\ \A p \in Nat :
                   p < TablePages /\ (p # ipa \/ m.res # "OK") =>
                      SameTranslation(s, m.s, pool, p)
             /\ m.res = "OK" =>
                   /\ ~ Mapped(s, pool, ipa) /\ Mapped(m.s, pool, ipa)
                   /\ hv_stage2_translate(m.s, pool, ipa) = pa
             /\ m.res = "MAPPED" => Mapped(m.s, pool, ipa)
             /\ m.res = "NO_TABLES" =>
                   /\ ~ Mapped(m.s, pool, ipa)
                   /\ m.s.pool_used = HV_STAGE2_MAX_TABLE_PAGES
<1>. DEFINE m == stage2_map_page(s, pool, ipa, pa)
            w == stage2_walk_l3(s, pool, ipa, TRUE)
            c == L3Index(ipa)
<1>1. /\ WellFormed(w.s, pool)
      /\ \A p \in Nat : SameTranslation(s, w.s, pool, p)
      /\ w.t = Leaf(w.s, pool, ipa)
      /\ w.t = NoTable => w.s.pool_used = HV_STAGE2_MAX_TABLE_PAGES
  BY WalkAllocates
<1>2. m = IF w.t = NoTable THEN [res |-> "NO_TABLES", s |-> w.s]
          ELSE IF w.s.pool[w.t][c].bits # "INVALID" THEN [res |-> "MAPPED", s |-> w.s]
          ELSE [res |-> "OK", s |-> Written(w.s, w.t, c, DESC_TABLE(pa))]
  BY DEF stage2_map_page, Written
<1>. HIDE DEF w, m
<1>3. /\ w.t \in Table \cup {NoTable}
      /\ Mapped(w.s, pool, ipa) <=> w.t # NoTable /\ w.s.pool[w.t][c].bits = "TABLE"
      /\ SameTranslation(s, w.s, pool, ipa)
  BY <1>1, WalkFacts
<1>4. CASE w.t = NoTable
  BY <1>1, <1>2, <1>3, <1>4 DEF m
<1>5. CASE w.t # NoTable /\ w.s.pool[w.t][c].bits # "INVALID"
  <2>1. w.s.pool[w.t][c].bits = "TABLE"
    <3>1. c \in Index /\ w.s \in HvStage2 /\ w.s.pool[w.t][c].bits # "BLOCK"
      BY <1>1, <1>3, <1>5, IndexType DEF WellFormed, TablesType
    <3>. QED BY <1>3, <1>5, <3>1 DEF HvStage2, HvStage2Desc
  <2>. QED BY <1>1, <1>2, <1>3, <1>5, <2>1 DEF m
<1>6. CASE w.t # NoTable /\ w.s.pool[w.t][c].bits = "INVALID"
  <2>. DEFINE d == DESC_TABLE(pa)
              n == Written(w.s, w.t, c, d)
  <2>1. d \in HvStage2Desc /\ d.bits = "TABLE" /\ d.addr = pa
    BY DEF DESC_TABLE, HvStage2Desc
  <2>2. m = [res |-> "OK", s |-> n]
    BY <1>2, <1>6
  <2>. HIDE DEF d
  <2>3. /\ WellFormed(n, pool)
        /\ Mapped(n, pool, ipa) <=> d.bits = "TABLE"
        /\ hv_stage2_translate(n, pool, ipa) = d.addr
        /\ \A p \in Nat : p < TablePages /\ p # ipa => SameTranslation(w.s, n, pool, p)
    BY <1>1, <1>6, <2>1, WriteLeaf
  <2>. HIDE DEF n
  <2>4. \A p \in Nat : p < TablePages /\ p # ipa => SameTranslation(s, n, pool, p)
    BY <1>1, <2>3 DEF SameTranslation
  <2>5. ~ Mapped(s, pool, ipa)
    BY <1>3, <1>6 DEF SameTranslation
  <2>. QED BY <2>1, <2>2, <2>3, <2>4, <2>5 DEF m
<1>. QED BY <1>4, <1>5, <1>6

\* The table update of hv_stage2_unmap_page: this page, and no other, is unmapped.
LEMMA UnmapPage ==
  ASSUME NEW s, NEW pool \in Nat, WellFormed(s, pool),
         NEW ipa \in Nat, ipa < TablePages
  PROVE  LET n == UnmapEntry(s, pool, ipa)
         IN  /\ WellFormed(n, pool)
             /\ ~ Mapped(n, pool, ipa)
             /\ \A p \in Nat :
                   p < TablePages /\ p # ipa => SameTranslation(s, n, pool, p)
<1>. DEFINE n == UnmapEntry(s, pool, ipa)
            t == Leaf(s, pool, ipa)
<1>1. n = IF t = NoTable THEN s ELSE Written(s, t, L3Index(ipa), DESC_INVALID)
  BY DEF UnmapEntry, Written, Leaf
<1>2. DESC_INVALID \in HvStage2Desc /\ DESC_INVALID.bits = "INVALID"
  BY DEF DESC_INVALID, HvStage2Desc
<1>3. CASE t = NoTable
  BY <1>1, <1>3, WalkFacts DEF SameTranslation
<1>4. CASE t # NoTable
  BY <1>1, <1>2, <1>4, WriteLeaf
<1>. QED BY <1>3, <1>4

\* The tables after hv_stage2_init.
LEMMA InitialTables ==
  ASSUME NEW pool \in Nat
  PROVE  /\ WellFormed(hv_stage2_init, pool)
         /\ \A p \in Nat : ~ Mapped(hv_stage2_init, pool, p)
<1>. DEFINE s == hv_stage2_init
<1>1. /\ s \in HvStage2 /\ s.pool_used = 1
      /\ \A t \in Table : s.pool[t] = stage2_zero_table
      /\ \A t \in Table, i \in Index : s.pool[t][i] = DESC_INVALID
  BY DEF hv_stage2_init, HvStage2, stage2_zero_table, DESC_INVALID, HvStage2Desc
<1>. HIDE DEF s
<1>2. \A t \in Table, i \in Index : Down(s, pool, t, i) = NoTable
  BY <1>1, DownType DEF DESC_INVALID
<1>3. NoTable \notin Table /\ Root \in Table
  BY RootType, TablesAssumption DEF NoTable, Table
<1>4. Level2(s, pool) = {}
  BY <1>2, <1>3 DEF Level2
<1>5. Inner(s, pool) = {Root}
  BY <1>4 DEF Inner
<1>6. TablesType(s)
  BY <1>1, TablesAssumption DEF TablesType, DESC_INVALID
<1>7. LinksValid(s, pool) /\ LinksUnique(s, pool)
  BY <1>1, <1>2, <1>3, <1>5 DEF LinksValid, LinksUnique
<1>8. AllLinked(s, pool) /\ FreeClean(s)
  BY <1>1 DEF AllLinked, FreeClean
<1>9. WellFormed(s, pool)
  BY <1>6, <1>7, <1>8 DEF WellFormed
<1>10. ASSUME NEW p \in Nat PROVE ~ Mapped(s, pool, p)
  BY <1>2, <1>3, <1>9, WalkFacts, IndexType
<1>. QED BY <1>9, <1>10 DEF s

-----------------------------------------------------------------------------
\* Xlate and RamOf as functions of the tables and of the region table.
Translations(s, pool) ==
    {<<p, hv_stage2_translate(s, pool, p)>> :
        p \in {q \in 0 .. AddressPages - 1 : Mapped(s, pool, q)}}

RamPairs(rs) ==
    UNION {Run(rs[i].ipa_base, rs[i].pa_base, rs[i].size) :
             i \in {j \in DOMAIN rs : rs[j].type = "RAM"}}

\* What a VM's tables translate, as a function of its arena and pool.
LEMMA XlateIs == ASSUME NEW vm PROVE Xlate(vm) = Translations(s2[vm], pool_pa(vm))
  BY DEF Xlate, Translations, IsMapped, FrameOf

\* What a VM was granted, as a function of its region table.
LEMMA RamIs == ASSUME NEW vm PROVE RamOf(vm) = RamPairs(regions[vm])
  BY DEF RamOf, RamPairs

\* The table pools have physical addresses.
LEMMA PoolType == \A vm \in Vms : pool_pa(vm) \in Nat
  BY Stage2Assumption, TablesAssumption DEF Vms, pool_pa

\* Every page of the address range has its own path through the tables.
LEMMA AddressesFit ==
  ASSUME NEW p \in 0 .. AddressPages - 1
  PROVE  p \in Nat /\ p < TablePages
  BY Stage2Assumption, TablesAssumption, RegionsAssumption DEF TablePages

\* Membership in the translations of an arena.
LEMMA InTranslations ==
  ASSUME NEW s, NEW pool, NEW p, NEW f
  PROVE  <<p, f>> \in Translations(s, pool) <=>
           /\ p \in 0 .. AddressPages - 1
           /\ Mapped(s, pool, p)
           /\ f = hv_stage2_translate(s, pool, p)
  BY DEF Translations

\* Membership in a run of consecutive pages.
LEMMA InRun ==
  ASSUME NEW ipa \in Nat, NEW pa \in Nat, NEW size \in Nat, NEW p, NEW f
  PROVE  <<p, f>> \in Run(ipa, pa, size) <=>
            p \in ipa .. ipa + size - 1 /\ f = pa + (p - ipa)
<1>1. ASSUME <<p, f>> \in Run(ipa, pa, size)
      PROVE  p \in ipa .. ipa + size - 1 /\ f = pa + (p - ipa)
  <2>1. PICK k \in 0 .. size - 1 : <<p, f>> = <<ipa + k, pa + k>>
    BY <1>1 DEF Run
  <2>. QED BY <2>1
<1>2. ASSUME p \in ipa .. ipa + size - 1, f = pa + (p - ipa)
      PROVE  <<p, f>> \in Run(ipa, pa, size)
  <2>1. p - ipa \in 0 .. size - 1 /\ <<p, f>> = <<ipa + (p - ipa), pa + (p - ipa)>>
    BY <1>2
  <2>. QED BY <2>1 DEF Run
<1>. QED BY <1>1, <1>2

\* One more page of a run.
LEMMA RunGrows ==
  ASSUME NEW ipa \in Nat, NEW pa \in Nat, NEW n \in Nat
  PROVE  /\ Run(ipa, pa, n + 1) = Run(ipa, pa, n) \cup {<<ipa + n, pa + n>>}
         /\ Run(ipa, pa, 0) = {}
<1>1. 0 .. (n + 1) - 1 = (0 .. n - 1) \cup {n} /\ 0 .. 0 - 1 = {}
  OBVIOUS
<1>. QED BY <1>1 DEF Run

\* The members of the sets are pairs.
LEMMA Pairs ==
  ASSUME NEW s, NEW pool, NEW x \in Translations(s, pool)
  PROVE  x = <<x[1], x[2]>>
  BY DEF Translations

\* A run consists of pairs.
LEMMA RunPairs ==
  ASSUME NEW ipa, NEW pa, NEW size, NEW x \in Run(ipa, pa, size)
  PROVE  x = <<x[1], x[2]>>
  BY DEF Run

\* A page that is mapped adds its pair to the translations, one that cannot be
\* mapped changes none.
LEMMA MapPageTranslations ==
  ASSUME NEW s, NEW pool \in Nat, WellFormed(s, pool),
         NEW ipa \in 0 .. AddressPages - 1, NEW pa \in Nat
  PROVE  LET m == stage2_map_page(s, pool, ipa, pa)
         IN  /\ m.res = "OK" =>
                  /\ Translations(m.s, pool) = Translations(s, pool) \cup {<<ipa, pa>>}
                  /\ \A f : <<ipa, f>> \notin Translations(s, pool)
             /\ m.res # "OK" => Translations(m.s, pool) = Translations(s, pool)
<1>. DEFINE m == stage2_map_page(s, pool, ipa, pa)
            n == m.s
<1>1. ipa \in Nat /\ ipa < TablePages
  BY AddressesFit
<1>2. /\ \A p \in Nat : p < TablePages /\ (p # ipa \/ m.res # "OK") => SameTranslation(s, n, pool, p)
      /\ m.res = "OK" =>
            /\ ~ Mapped(s, pool, ipa) /\ Mapped(n, pool, ipa)
            /\ hv_stage2_translate(n, pool, ipa) = pa
  BY <1>1, MapPage
<1>. HIDE DEF m
<1>3. \A p \in 0 .. AddressPages - 1 : p # ipa \/ m.res # "OK" => SameTranslation(s, n, pool, p)
  BY <1>2, AddressesFit
<1>4. CASE m.res = "OK"
  <2>1. \A f : <<ipa, f>> \notin Translations(s, pool)
    BY <1>2, <1>4, InTranslations
  <2>2. ASSUME NEW x \in Translations(n, pool)
        PROVE  x \in Translations(s, pool) \cup {<<ipa, pa>>}
    <3>1. /\ x = <<x[1], x[2]>> /\ x[1] \in 0 .. AddressPages - 1
          /\ Mapped(n, pool, x[1]) /\ x[2] = hv_stage2_translate(n, pool, x[1])
      BY <2>2, Pairs, InTranslations
    <3>2. CASE x[1] = ipa
      BY <1>2, <1>4, <3>1, <3>2
    <3>3. CASE x[1] # ipa
      <4>1. SameTranslation(s, n, pool, x[1])
        BY <1>3, <3>1, <3>3
      <4>2. Mapped(s, pool, x[1]) /\ x[2] = hv_stage2_translate(s, pool, x[1])
        BY <3>1, <4>1 DEF SameTranslation
      <4>. QED BY <3>1, <4>2, InTranslations
    <3>. QED BY <3>2, <3>3
  <2>3. ASSUME NEW x \in Translations(s, pool) PROVE x \in Translations(n, pool)
    <3>1. /\ x = <<x[1], x[2]>> /\ x[1] \in 0 .. AddressPages - 1
          /\ Mapped(s, pool, x[1]) /\ x[2] = hv_stage2_translate(s, pool, x[1])
      BY <2>3, Pairs, InTranslations
    <3>2. x[1] # ipa
      BY <1>2, <1>4, <3>1
    <3>3. SameTranslation(s, n, pool, x[1])
      BY <1>3, <3>1, <3>2
    <3>4. Mapped(n, pool, x[1]) /\ x[2] = hv_stage2_translate(n, pool, x[1])
      BY <3>1, <3>3 DEF SameTranslation
    <3>. QED BY <3>1, <3>4, InTranslations
  <2>4. <<ipa, pa>> \in Translations(n, pool)
    BY <1>2, <1>4, InTranslations
  <2>. QED BY <1>4, <2>1, <2>2, <2>3, <2>4 DEF m
<1>5. CASE m.res # "OK"
  <2>1. {q \in 0 .. AddressPages - 1 : Mapped(n, pool, q)}
           = {q \in 0 .. AddressPages - 1 : Mapped(s, pool, q)}
    BY <1>3, <1>5 DEF SameTranslation
  <2>2. Translations(n, pool) = Translations(s, pool)
    BY <1>3, <1>5, <2>1 DEF SameTranslation, Translations
  <2>. QED BY <1>5, <2>2 DEF m
<1>. QED BY <1>4, <1>5

\* Unmapping a page takes its pair away and no other.
LEMMA UnmapTranslations ==
  ASSUME NEW s, NEW pool \in Nat, WellFormed(s, pool), NEW ipa \in 0 .. AddressPages - 1
  PROVE  Translations(UnmapEntry(s, pool, ipa), pool)
            = {x \in Translations(s, pool) : x[1] # ipa}
<1>. DEFINE n == UnmapEntry(s, pool, ipa)
<1>1. /\ ~ Mapped(n, pool, ipa)
      /\ \A p \in 0 .. AddressPages - 1 : p # ipa => SameTranslation(s, n, pool, p)
  BY AddressesFit, UnmapPage
<1>. HIDE DEF n
<1>2. ASSUME NEW x \in Translations(n, pool)
      PROVE  x \in Translations(s, pool) /\ x[1] # ipa
  <2>1. /\ x = <<x[1], x[2]>> /\ x[1] \in 0 .. AddressPages - 1
        /\ Mapped(n, pool, x[1]) /\ x[2] = hv_stage2_translate(n, pool, x[1])
    BY <1>2, Pairs, InTranslations
  <2>2. x[1] # ipa
    BY <1>1, <2>1
  <2>3. SameTranslation(s, n, pool, x[1])
    BY <1>1, <2>1, <2>2
  <2>4. Mapped(s, pool, x[1]) /\ x[2] = hv_stage2_translate(s, pool, x[1])
    BY <2>1, <2>3 DEF SameTranslation
  <2>. QED BY <2>1, <2>2, <2>4, InTranslations
<1>3. ASSUME NEW x \in Translations(s, pool), x[1] # ipa
      PROVE  x \in Translations(n, pool)
  <2>1. /\ x = <<x[1], x[2]>> /\ x[1] \in 0 .. AddressPages - 1
        /\ Mapped(s, pool, x[1]) /\ x[2] = hv_stage2_translate(s, pool, x[1])
    BY <1>3, Pairs, InTranslations
  <2>2. SameTranslation(s, n, pool, x[1])
    BY <1>1, <1>3, <2>1
  <2>3. Mapped(n, pool, x[1]) /\ x[2] = hv_stage2_translate(n, pool, x[1])
    BY <2>1, <2>2 DEF SameTranslation
  <2>. QED BY <2>1, <2>3, InTranslations
<1>. QED BY <1>2, <1>3 DEF n

-----------------------------------------------------------------------------
\* What hv_vm_add_region keeps of a region table.
RegionTable(rs) ==
    /\ rs \in Seq(HvVmRegion)
    /\ Len(rs) <= HV_MAX_VM_REGIONS
    /\ \A i \in 1 .. Len(rs) : hv_vm_region_valid(rs[i], TRUE)
    /\ \A i, j \in 1 .. Len(rs) : i # j => ~ hv_vm_regions_overlap(rs[i], rs[j])

\* The pages of a region that was accepted.
LEMMA RegionType ==
  ASSUME NEW r \in HvVmRegion
  PROVE  /\ r.ipa_base \in Nat /\ r.size \in Nat /\ r.pa_base \in Nat
         /\ hv_vm_region_valid(r, TRUE) =>
               /\ r.size # 0 /\ r.ipa_base + r.size <= AddressPages
               /\ r.type = "RAM" => r.pa_base + r.size <= AddressPages
  BY RegionsAssumption
  DEF HvVmRegion, hv_vm_region_valid, hv_vm_fits_v1_32bit, hv_vm_region_backed

\* Regions that do not overlap share no page, and conversely.
LEMMA OverlapMeansShared ==
  ASSUME NEW a \in HvVmRegion, NEW b \in HvVmRegion, NEW p \in Nat,
         hv_vm_region_contains(a, p), hv_vm_region_contains(b, p)
  PROVE  hv_vm_regions_overlap(a, b)
<1>1. /\ a.ipa_base \in Nat /\ a.size \in Nat
      /\ b.ipa_base \in Nat /\ b.size \in Nat
  BY RegionType
<1>. QED BY <1>1 DEF hv_vm_region_contains, hv_vm_regions_overlap

\* hv_vm_find_region: at most one region of a table contains a page.
LEMMA OneRegion ==
  ASSUME NEW rs, RegionTable(rs), NEW p \in Nat, NEW i \in DOMAIN rs, NEW j \in DOMAIN rs,
         hv_vm_region_contains(rs[i], p), hv_vm_region_contains(rs[j], p)
  PROVE  i = j
<1>1. /\ i \in 1 .. Len(rs) /\ j \in 1 .. Len(rs)
      /\ rs[i] \in HvVmRegion /\ rs[j] \in HvVmRegion
  BY DEF RegionTable
<1>. QED BY <1>1, OverlapMeansShared DEF RegionTable

\* hv_vm_find_region finds the region that contains the address.
LEMMA FindRegion ==
  ASSUME NEW rs, RegionTable(rs), NEW p \in Nat, NEW i \in DOMAIN rs,
         hv_vm_region_contains(rs[i], p)
  PROVE  hv_vm_find_region(rs, p) = rs[i]
<1>1. DOMAIN rs = 1 .. Len(rs) /\ Len(rs) \in Nat
  BY DEF RegionTable
<1>2. \A j \in 1 .. i - 1 : ~ hv_vm_region_contains(rs[j], p)
  BY <1>1, OneRegion
<1>. DEFINE c == CHOOSE k \in DOMAIN rs :
                     /\ hv_vm_region_contains(rs[k], p)
                     /\ \A j \in 1 .. k - 1 : ~ hv_vm_region_contains(rs[j], p)
<1>3. c \in DOMAIN rs /\ hv_vm_region_contains(rs[c], p)
  BY <1>2
<1>4. c = i
  <2>. HIDE DEF c
  <2>. QED BY <1>3, OneRegion
<1>. QED BY <1>4 DEF hv_vm_find_region

\* Membership in the RAM a region table grants.
LEMMA InRam ==
  ASSUME NEW rs, NEW x
  PROVE  x \in RamPairs(rs) <=>
            \E i \in DOMAIN rs : /\ rs[i].type = "RAM"
                                 /\ x \in Run(rs[i].ipa_base, rs[i].pa_base, rs[i].size)
  BY DEF RamPairs

\* The RAM of a VM lies in the address range and gives a page one frame.
LEMMA RamType ==
  ASSUME NEW rs, RegionTable(rs)
  PROVE  /\ RamPairs(rs) \subseteq (0 .. AddressPages - 1) \X (0 .. AddressPages - 1)
         /\ \A x, y \in RamPairs(rs) : x[1] = y[1] => x = y
<1>1. ASSUME NEW x \in RamPairs(rs)
      PROVE  \E i \in DOMAIN rs :
               /\ rs[i] \in HvVmRegion /\ rs[i].type = "RAM"
               /\ hv_vm_region_contains(rs[i], x[1])
               /\ x = <<x[1], x[2]>>
               /\ x[1] \in 0 .. AddressPages - 1 /\ x[2] \in 0 .. AddressPages - 1
               /\ x[2] = rs[i].pa_base + (x[1] - rs[i].ipa_base)
  <2>1. PICK i \in DOMAIN rs : /\ rs[i].type = "RAM"
                               /\ x \in Run(rs[i].ipa_base, rs[i].pa_base, rs[i].size)
    BY <1>1, InRam
  <2>2. rs[i] \in HvVmRegion /\ hv_vm_region_valid(rs[i], TRUE)
    <3>1. i \in 1 .. Len(rs) /\ rs[i] \in HvVmRegion
      BY DEF RegionTable
    <3>2. \A j \in 1 .. Len(rs) : hv_vm_region_valid(rs[j], TRUE)
      BY DEF RegionTable
    <3>. QED BY <3>1, <3>2
  <2>. DEFINE r == rs[i]
  <2>3. /\ r.ipa_base \in Nat /\ r.size \in Nat /\ r.pa_base \in Nat
        /\ r.ipa_base + r.size <= AddressPages
        /\ r.pa_base + r.size <= AddressPages
    BY <2>1, <2>2, RegionType
  <2>4. x = <<x[1], x[2]>>
    BY <2>1, RunPairs
  <2>. HIDE DEF r
  <2>5. /\ x[1] \in r.ipa_base .. r.ipa_base + r.size - 1
        /\ x[2] = r.pa_base + (x[1] - r.ipa_base)
    <3>1. <<x[1], x[2]>> \in Run(r.ipa_base, r.pa_base, r.size)
      BY <2>1, <2>4 DEF r
    <3>. QED BY <2>3, <3>1, InRun
  <2>6. x[1] \in 0 .. AddressPages - 1 /\ x[2] \in 0 .. AddressPages - 1
    BY <2>3, <2>5, RegionsAssumption
  <2>7. hv_vm_region_contains(r, x[1])
    BY <2>3, <2>5 DEF hv_vm_region_contains
  <2>. QED BY <2>1, <2>2, <2>4, <2>5, <2>6, <2>7 DEF r
<1>2. RamPairs(rs) \subseteq (0 .. AddressPages - 1) \X (0 .. AddressPages - 1)
  BY <1>1
<1>3. ASSUME NEW x \in RamPairs(rs), NEW y \in RamPairs(rs), x[1] = y[1] PROVE x = y
  <2>1. PICK i \in DOMAIN rs : /\ hv_vm_region_contains(rs[i], x[1])
                               /\ x = <<x[1], x[2]>> /\ x[1] \in 0 .. AddressPages - 1
                               /\ x[2] = rs[i].pa_base + (x[1] - rs[i].ipa_base)
    BY <1>1
  <2>2. PICK j \in DOMAIN rs : /\ hv_vm_region_contains(rs[j], y[1])
                               /\ y = <<y[1], y[2]>>
                               /\ y[2] = rs[j].pa_base + (y[1] - rs[j].ipa_base)
    BY <1>1
  <2>3. i = j
    BY <1>3, <2>1, <2>2, OneRegion
  <2>. QED BY <1>3, <2>1, <2>2, <2>3
<1>. QED BY <1>2, <1>3

\* A range that stage2_region_contains_mapping accepts is RAM of the VM.
LEMMA CoveredIsRam ==
  ASSUME NEW rs, RegionTable(rs), NEW ipa \in Nat, NEW pa \in Nat, NEW size \in Nat,
         RegionFound(rs, ipa),
         stage2_region_contains_mapping(hv_vm_find_region(rs, ipa), ipa, pa, size)
  PROVE  Run(ipa, pa, size) \subseteq RamPairs(rs)
<1>1. PICK i \in DOMAIN rs : hv_vm_region_contains(rs[i], ipa)
  BY DEF RegionFound
<1>. DEFINE r == rs[i]
<1>2. stage2_region_contains_mapping(r, ipa, pa, size)
  BY <1>1, FindRegion
<1>3. r \in HvVmRegion
  BY DEF RegionTable
<1>4. r.ipa_base \in Nat /\ r.size \in Nat /\ r.pa_base \in Nat
  BY <1>3, RegionType
<1>. HIDE DEF r
<1>5. ASSUME NEW x \in Run(ipa, pa, size) PROVE x \in Run(r.ipa_base, r.pa_base, r.size)
  <2>1. x = <<x[1], x[2]>>
    BY RunPairs
  <2>2. <<x[1], x[2]>> \in Run(ipa, pa, size)
    BY <2>1
  <2>3. x[1] \in ipa .. ipa + size - 1 /\ x[2] = pa + (x[1] - ipa)
    BY <2>2, InRun
  <2>4. x[1] \in r.ipa_base .. r.ipa_base + r.size - 1 /\ x[2] = r.pa_base + (x[1] - r.ipa_base)
    BY <1>2, <1>4, <2>3 DEF stage2_region_contains_mapping
  <2>5. <<x[1], x[2]>> \in Run(r.ipa_base, r.pa_base, r.size)
    BY <1>4, <2>4, InRun
  <2>. QED BY <2>1, <2>5
<1>. QED BY <1>2, <1>5, InRam DEF r, stage2_region_contains_mapping

\* A region that is accepted keeps the table, and adds its RAM and no other.
LEMMA AddRegion ==
  ASSUME NEW rs, RegionTable(rs), NEW r \in HvVmRegion, NEW aligned \in BOOLEAN,
         AddRegionResult(rs, r, aligned) = "OK"
  PROVE  /\ RegionTable(Append(rs, r))
         /\ RamPairs(rs) \subseteq RamPairs(Append(rs, r))
         /\ \A x \in RamPairs(Append(rs, r)) \ RamPairs(rs), y \in RamPairs(rs) :
               x[1] # y[1]
<1>. DEFINE n == Append(rs, r)
            l == Len(rs)
<1>1. rs \in Seq(HvVmRegion) /\ l \in Nat /\ DOMAIN rs = 1 .. l
  BY DEF RegionTable
<1>2. /\ n \in Seq(HvVmRegion) /\ Len(n) = l + 1 /\ DOMAIN n = 1 .. l + 1
      /\ n[l + 1] = r /\ \A i \in 1 .. l : n[i] = rs[i]
  BY <1>1
<1>3. /\ hv_vm_region_valid(r, aligned) /\ l < HV_MAX_VM_REGIONS
      /\ \A i \in 1 .. l : ~ hv_vm_regions_overlap(rs[i], r)
  BY <1>1, RegionsAssumption DEF AddRegionResult
<1>4. hv_vm_region_valid(r, TRUE)
  BY <1>3 DEF hv_vm_region_valid
<1>5. \A i \in 1 .. l : ~ hv_vm_regions_overlap(r, rs[i])
  BY <1>3 DEF hv_vm_regions_overlap
<1>. HIDE DEF n, l
<1>6. RegionTable(n)
  <2>1. Len(n) <= HV_MAX_VM_REGIONS
    BY <1>1, <1>2, <1>3, RegionsAssumption
  <2>2. \A i \in 1 .. l + 1 : i \in 1 .. l \/ i = l + 1
    BY <1>1
  <2>3. \A i \in 1 .. Len(n) : hv_vm_region_valid(n[i], TRUE)
    BY <1>2, <1>4, <2>2 DEF RegionTable, l
  <2>4. \A i, j \in 1 .. Len(n) : i # j => ~ hv_vm_regions_overlap(n[i], n[j])
    <3>. SUFFICES ASSUME NEW i \in 1 .. l + 1, NEW j \in 1 .. l + 1, i # j
                  PROVE  ~ hv_vm_regions_overlap(n[i], n[j])
      BY <1>2
    <3>1. CASE i \in 1 .. l /\ j \in 1 .. l
      BY <1>2, <3>1 DEF RegionTable, l
    <3>2. CASE i = l + 1 /\ j \in 1 .. l
      BY <1>2, <1>5, <3>2
    <3>3. CASE i \in 1 .. l /\ j = l + 1
      BY <1>2, <1>3, <3>3
    <3>. QED BY <2>2, <3>1, <3>2, <3>3
  <2>. QED BY <1>2, <2>1, <2>3, <2>4 DEF RegionTable
<1>7. RamPairs(rs) \subseteq RamPairs(n)
  <2>. SUFFICES ASSUME NEW x \in RamPairs(rs) PROVE x \in RamPairs(n)
    OBVIOUS
  <2>1. PICK i \in 1 .. l : /\ rs[i].type = "RAM"
                            /\ x \in Run(rs[i].ipa_base, rs[i].pa_base, rs[i].size)
    BY <1>1, InRam
  <2>2. i \in DOMAIN n /\ n[i] = rs[i]
    BY <1>1, <1>2
  <2>. QED BY <2>1, <2>2, InRam
<1>8. ASSUME NEW x \in RamPairs(n) \ RamPairs(rs), NEW y \in RamPairs(rs), x[1] = y[1]
      PROVE  FALSE
  <2>1. x = y
    BY <1>6, <1>7, <1>8, RamType
  <2>. QED BY <2>1
<1>. QED BY <1>6, <1>7, <1>8 DEF n

\* Every non-empty set of naturals has a least member.
LEMMA LeastNatural ==
  ASSUME NEW S \in SUBSET Nat, S # {}
  PROVE  \E x \in S : \A y \in S : x <= y
<1>. DEFINE R == {ss \in Nat \X Nat : ss[1] < ss[2]}
<1>1. IsWellFoundedOn(R, Nat)
  BY NatLessThanWellFounded DEF OpToRel
<1>2. PICK x \in S : \A y \in S : ~ (<<y, x>> \in R)
  <2>. HIDE DEF R
  <2>. QED BY <1>1, WFMin
<1>3. ASSUME NEW y \in S PROVE x <= y
  <2>1. x \in Nat /\ y \in Nat /\ <<y, x>> \notin R
    BY <1>2
  <2>2. ~ (y < x)
    BY <2>1
  <2>. QED BY <2>1, <2>2
<1>. QED BY <1>3

-----------------------------------------------------------------------------
RunOf(r) == Run(r.ipa_base, r.pa_base, r.size)

\* Where hv_vm_build_stage2 is: in a RAM region, all earlier ones being mapped.
BuildPlace(c, xl, rs) ==
    /\ c.region \in DOMAIN rs
    /\ rs[c.region].type = "RAM"
    /\ c.ipa = rs[c.region].ipa_base
    /\ c.pa = rs[c.region].pa_base
    /\ c.size = rs[c.region].size
    /\ \A j \in DOMAIN rs : j < c.region /\ rs[j].type = "RAM" => RunOf(rs[j]) \subseteq xl

(***************************************************************************)
(* What holds of a call c whose VM has the tables s and the regions rs:    *)
(* CallResultsHold, and, while the call is in its loop, that the range it  *)
(* works on was checked and where it is.                                   *)
(***************************************************************************)
CallOK(c, s, pool, rs) ==
    LET xl == Translations(s, pool)
    IN  /\ c.op \in {"map", "build"} => Run(c.ipa, c.pa, c.done) \subseteq xl
        /\ c.op = "map" /\ c.res = "OK" => c.done = c.size
        /\ c.op = "build" /\ c.res = "OK" => RamPairs(rs) \subseteq xl
        /\ c.res = "MAPPED" => Mapped(s, pool, c.ipa + c.done)
        /\ c.res = "NO_TABLES" => /\ ~ Mapped(s, pool, c.ipa + c.done)
                                  /\ s.pool_used = HV_STAGE2_MAX_TABLE_PAGES
        /\ c.res = "BUSY" => /\ c.op \in {"map", "build"}
                             /\ c.done < c.size
                             /\ c.ipa + c.size <= AddressPages
                             /\ Run(c.ipa, c.pa, c.size) \subseteq RamPairs(rs)
                             /\ c.op = "build" => BuildPlace(c, xl, rs)

\* The checks before the loop let only RAM of the VM through.
LEMMA MapChecked ==
  ASSUME NEW vm \in Vms, RegionTable(regions[vm]), NEW aligned \in BOOLEAN,
         NEW ipa \in Nat, NEW pa \in Nat, NEW size \in Nat
  PROVE  /\ MapRegionCheck(vm, ipa, pa, size, aligned) \in {"INVAL", "RANGE", "BUSY"}
         /\ MapRegionCheck(vm, ipa, pa, size, aligned) = "BUSY" =>
               /\ 0 < size /\ ipa + size <= AddressPages
               /\ Run(ipa, pa, size) \subseteq RamPairs(regions[vm])
<1>1. MapRegionCheck(vm, ipa, pa, size, aligned) \in {"INVAL", "RANGE", "BUSY"}
  BY DEF MapRegionCheck
<1>2. ASSUME MapRegionCheck(vm, ipa, pa, size, aligned) = "BUSY"
      PROVE  /\ size # 0 /\ ~ (ipa + size > AddressPages)
             /\ RegionCovers(vm, ipa, pa, size)
  BY <1>2 DEF MapRegionCheck
<1>3. ASSUME RegionCovers(vm, ipa, pa, size)
      PROVE  Run(ipa, pa, size) \subseteq RamPairs(regions[vm])
  BY <1>3, CoveredIsRam DEF RegionCovers
<1>. QED BY <1>1, <1>2, <1>3, RegionsAssumption

\* hv_vm_build_stage2 goes on from one RAM region to the next.
LEMMA BuildGoesOn ==
  ASSUME NEW c \in Calls, c.op = "build", RegionTable(regions[c.vm]), NEW s, NEW pool,
         Run(c.ipa, c.pa, c.done) \subseteq Translations(s, pool),
         \A j \in DOMAIN regions[c.vm] :
            j <= c.region /\ regions[c.vm][j].type = "RAM" =>
               RunOf(regions[c.vm][j]) \subseteq Translations(s, pool)
  PROVE  /\ BuildFrom(c) \in Calls /\ BuildFrom(c).vm = c.vm
         /\ CallOK(BuildFrom(c), s, pool, regions[c.vm])
<1>. DEFINE rs == regions[c.vm]
            xl == Translations(s, pool)
            A  == RamAfter(c.vm, c.region)
<1>1. /\ rs \in Seq(HvVmRegion) /\ DOMAIN rs = 1 .. Len(rs) /\ Len(rs) \in Nat
      /\ c.vm \in Vms /\ c.region \in Nat
  BY DEF RegionTable, Calls
<1>2. A = {j \in DOMAIN rs : j > c.region /\ rs[j].type = "RAM"}
  BY DEF RamAfter, hv_vm_region_backed
<1>3. CASE A = {}
  <2>. DEFINE d == [c EXCEPT !.res = "OK"]
  <2>1. BuildFrom(c) = d
    BY <1>3 DEF BuildFrom
  <2>2. d \in Calls /\ d.vm = c.vm /\ d.op = "build" /\ d.res = "OK"
        /\ d.ipa = c.ipa /\ d.pa = c.pa /\ d.done = c.done
    BY DEF Calls, Results
  <2>3. RamPairs(rs) \subseteq xl
    <3>. SUFFICES ASSUME NEW x \in RamPairs(rs) PROVE x \in xl
      OBVIOUS
    <3>1. PICK j \in DOMAIN rs : rs[j].type = "RAM" /\ x \in RunOf(rs[j])
      BY InRam DEF RunOf
    <3>2. j <= c.region
      BY <1>1, <1>2, <1>3, <3>1
    <3>. QED BY <3>1, <3>2
  <2>. HIDE DEF d
  <2>. QED BY <2>1, <2>2, <2>3 DEF CallOK
<1>4. CASE A # {}
  <2>. DEFINE i == CHOOSE j \in A : \A k \in A : j <= k
              r == rs[i]
              res == MapRegionCheck(c.vm, r.ipa_base, r.pa_base, r.size, TRUE)
              d == [c EXCEPT !.region = i, !.ipa = r.ipa_base, !.pa = r.pa_base,
                             !.size = r.size, !.done = 0, !.res = res]
  <2>1. BuildFrom(c) = d
    BY <1>4 DEF BuildFrom
  <2>2. i \in A /\ \A k \in A : i <= k
    <3>1. A \in SUBSET Nat
      BY <1>1, <1>2
    <3>. HIDE DEF A
    <3>2. \E j \in A : \A k \in A : j <= k
      BY <1>4, <3>1, LeastNatural
    <3>. QED BY <3>2
  <2>. HIDE DEF i, A
  <2>3. i \in DOMAIN rs /\ i \in Nat /\ r \in HvVmRegion /\ r.type = "RAM"
    <3>1. i \in DOMAIN rs /\ r.type = "RAM"
      BY <1>2, <2>2
    <3>. QED BY <1>1, <3>1
  <2>4. r.ipa_base \in Nat /\ r.size \in Nat /\ r.pa_base \in Nat
    BY <2>3, RegionType
  <2>5. /\ res \in {"INVAL", "RANGE", "BUSY"}
        /\ res = "BUSY" =>
              /\ 0 < r.size /\ r.ipa_base + r.size <= AddressPages
              /\ Run(r.ipa_base, r.pa_base, r.size) \subseteq RamPairs(rs)
    BY <1>1, <2>4, MapChecked
  <2>. HIDE DEF r, res
  <2>6. /\ d \in Calls /\ d.vm = c.vm /\ d.op = "build" /\ d.res = res
        /\ d.ipa = r.ipa_base /\ d.pa = r.pa_base /\ d.size = r.size
        /\ d.done = 0 /\ d.region = i
    BY <2>3, <2>4, <2>5 DEF Calls, Results
  <2>7. \A j \in DOMAIN rs : j < i /\ rs[j].type = "RAM" => RunOf(rs[j]) \subseteq xl
    <3>. SUFFICES ASSUME NEW j \in DOMAIN rs, j < i, rs[j].type = "RAM"
                  PROVE  RunOf(rs[j]) \subseteq xl
      OBVIOUS
    <3>1. j \notin A
      BY <1>1, <2>2, <2>3
    <3>2. j <= c.region
      BY <1>1, <1>2, <3>1
    <3>. QED BY <3>2
  <2>8. Run(d.ipa, d.pa, d.done) = {}
    BY <2>4, <2>6, RunGrows
  <2>. HIDE DEF d
  <2>9. res = "BUSY" => BuildPlace(d, xl, rs)
    BY <2>3, <2>6, <2>7 DEF BuildPlace, r
  <2>. QED BY <2>1, <2>5, <2>6, <2>8, <2>9 DEF CallOK
<1>. QED BY <1>3, <1>4

\* One iteration of the loop: the call stays truthful, the tables stay a tree and
\* the VM is granted nothing but its RAM.
LEMMA LoopIteration ==
  ASSUME NEW c \in Calls, c.res = "BUSY", RegionTable(regions[c.vm]),
         NEW s, NEW pool \in Nat, WellFormed(s, pool), CallOK(c, s, pool, regions[c.vm]),
         Translations(s, pool) \subseteq RamPairs(regions[c.vm])
  PROVE  LET m == stage2_map_page(s, pool, c.ipa + c.done, c.pa + c.done)
             d == Returned(c, m.res)
         IN  /\ WellFormed(m.s, pool)
             /\ Translations(m.s, pool) \subseteq RamPairs(regions[c.vm])
             /\ Translations(s, pool) \subseteq Translations(m.s, pool)
             /\ m.res = "OK" => <<c.ipa + c.done, c.pa + c.done>> \in RamPairs(regions[c.vm])
             /\ d \in Calls /\ d.vm = c.vm
             /\ CallOK(d, m.s, pool, regions[c.vm])
<1>. DEFINE rs == regions[c.vm]
            p == c.ipa + c.done
            f == c.pa + c.done
            m == stage2_map_page(s, pool, p, f)
            d == Returned(c, m.res)
            xl == Translations(s, pool)
            yl == Translations(m.s, pool)
<1>1. /\ c.ipa \in Nat /\ c.pa \in Nat /\ c.done \in Nat /\ c.size \in Nat /\ c.region \in Nat
      /\ c.done < c.size /\ c.ipa + c.size <= AddressPages
      /\ c.op \in {"map", "build"}
      /\ Run(c.ipa, c.pa, c.done) \subseteq xl
      /\ Run(c.ipa, c.pa, c.size) \subseteq RamPairs(rs)
      /\ c.op = "build" => BuildPlace(c, xl, rs)
  BY DEF CallOK, Calls
<1>2. p \in 0 .. AddressPages - 1 /\ p \in Nat /\ f \in Nat /\ p < TablePages
  BY <1>1, RegionsAssumption, AddressesFit
<1>3. /\ WellFormed(m.s, pool) /\ m.res \in {"OK", "MAPPED", "NO_TABLES"}
      /\ m.res = "MAPPED" => Mapped(m.s, pool, p)
      /\ m.res = "NO_TABLES" => /\ ~ Mapped(m.s, pool, p)
                                /\ m.s.pool_used = HV_STAGE2_MAX_TABLE_PAGES
  BY <1>2, MapPage
<1>4. /\ m.res = "OK" => yl = xl \cup {<<p, f>>}
      /\ m.res # "OK" => yl = xl
  BY <1>2, MapPageTranslations
<1>5. <<p, f>> \in RamPairs(rs)
  <2>1. p \in c.ipa .. c.ipa + c.size - 1 /\ f = c.pa + (p - c.ipa)
    BY <1>1
  <2>. HIDE DEF p, f
  <2>2. <<p, f>> \in Run(c.ipa, c.pa, c.size)
    BY <1>1, <2>1, InRun
  <2>. QED BY <1>1, <2>2
<1>6. yl \subseteq RamPairs(rs) /\ xl \subseteq yl
  BY <1>4, <1>5
<1>. HIDE DEF m, xl, yl, p, f
<1>7. CASE m.res # "OK"
  <2>. DEFINE e == [c EXCEPT !.res = m.res]
  <2>1. d = e
    BY <1>7 DEF Returned
  <2>2. /\ e \in Calls /\ e.vm = c.vm /\ e.op = c.op /\ e.res = m.res
        /\ e.ipa = c.ipa /\ e.pa = c.pa /\ e.done = c.done
    BY <1>3 DEF Calls, Results
  <2>. HIDE DEF e, d
  <2>3. CallOK(e, m.s, pool, rs)
    BY <1>1, <1>3, <1>6, <1>7, <2>2 DEF CallOK, yl, p
  <2>. QED BY <1>3, <1>6, <1>7, <2>1, <2>2, <2>3 DEF m, d, xl, yl, p, f
<1>8. CASE m.res = "OK"
  <2>1. Run(c.ipa, c.pa, c.done + 1) \subseteq yl
    BY <1>1, <1>4, <1>8, RunGrows DEF p, f
  <2>. DEFINE e == [c EXCEPT !.done = @ + 1]
  <2>2. /\ e \in Calls /\ e.vm = c.vm /\ e.op = c.op /\ e.res = "BUSY" /\ e.size = c.size
        /\ e.ipa = c.ipa /\ e.pa = c.pa /\ e.done = c.done + 1 /\ e.region = c.region
    BY <1>1 DEF Calls
  <2>3. CASE c.done + 1 < c.size
    <3>1. d = e
      BY <1>8, <2>3 DEF Returned
    <3>. HIDE DEF e, d
    <3>2. c.op = "build" => BuildPlace(e, yl, rs)
      BY <1>1, <1>6, <2>2 DEF BuildPlace
    <3>3. CallOK(e, m.s, pool, rs)
      BY <1>1, <2>1, <2>2, <2>3, <3>2 DEF CallOK, yl
    <3>. QED BY <1>3, <1>5, <1>6, <2>2, <3>1, <3>3 DEF m, d, xl, yl, p, f
  <2>4. CASE ~ (c.done + 1 < c.size) /\ c.op = "map"
    <3>. DEFINE g == [e EXCEPT !.res = "OK"]
    <3>1. d = g
      BY <1>8, <2>4 DEF Returned
    <3>. HIDE DEF e
    <3>2. /\ g \in Calls /\ g.vm = c.vm /\ g.op = "map" /\ g.res = "OK" /\ g.size = c.size
          /\ g.ipa = c.ipa /\ g.pa = c.pa /\ g.done = c.done + 1
      BY <2>2, <2>4 DEF Calls, Results
    <3>3. c.done + 1 = c.size
      BY <1>1, <2>4
    <3>. HIDE DEF g, d
    <3>4. CallOK(g, m.s, pool, rs)
      BY <2>1, <3>2, <3>3 DEF CallOK, yl
    <3>. QED BY <1>3, <1>5, <1>6, <3>1, <3>2, <3>4 DEF m, d, xl, yl, p, f
  <2>5. CASE ~ (c.done + 1 < c.size) /\ c.op = "build"
    <3>1. d = BuildFrom(e)
      BY <1>8, <2>5 DEF Returned
    <3>2. c.done + 1 = c.size
      BY <1>1, <2>5
    <3>3. \A j \in DOMAIN rs : j <= c.region /\ rs[j].type = "RAM" => RunOf(rs[j]) \subseteq yl
      <4>. SUFFICES ASSUME NEW j \in DOMAIN rs, j <= c.region, rs[j].type = "RAM"
                    PROVE  RunOf(rs[j]) \subseteq yl
        OBVIOUS
      <4>1. j \in Nat
        BY DEF RegionTable
      <4>2. CASE j < c.region
        BY <1>1, <1>6, <2>5, <4>2 DEF BuildPlace
      <4>3. CASE j = c.region
        <5>1. RunOf(rs[j]) = Run(c.ipa, c.pa, c.size)
          BY <1>1, <2>5, <4>3 DEF BuildPlace, RunOf
        <5>. QED BY <2>1, <3>2, <5>1
      <4>. QED BY <1>1, <4>1, <4>2, <4>3
    <3>4. /\ BuildFrom(e) \in Calls /\ BuildFrom(e).vm = c.vm
          /\ CallOK(BuildFrom(e), m.s, pool, rs)
      <4>. HIDE DEF e
      <4>1. RegionTable(regions[e.vm]) /\ e.op = "build" /\ regions[e.vm] = rs
        BY <2>2, <2>5
      <4>2. Run(e.ipa, e.pa, e.done) \subseteq Translations(m.s, pool)
        BY <2>1, <2>2 DEF yl
      <4>3. \A j \in DOMAIN regions[e.vm] :
               j <= e.region /\ regions[e.vm][j].type = "RAM" =>
                  RunOf(regions[e.vm][j]) \subseteq Translations(m.s, pool)
        BY <2>2, <3>3 DEF yl
      <4>. QED BY <2>2, <4>1, <4>2, <4>3, BuildGoesOn
    <3>. HIDE DEF e, d
    <3>. QED BY <1>3, <1>5, <1>6, <3>1, <3>4 DEF m, d, xl, yl, p, f
  <2>. QED BY <1>1, <2>3, <2>4, <2>5
<1>. QED BY <1>7, <1>8

-----------------------------------------------------------------------------
\* The TLB holds translations of the VM in VTTBR only, and only current ones.
TlbTrue ==
    \A e \in tlb : /\ e.vmid = vttbr
                   /\ <<e.ipa, e.pa>> \in Translations(s2[e.vmid], pool_pa(e.vmid))

S2Inv ==
    /\ TypeOK
    /\ \A vm \in Vms : WellFormed(s2[vm], pool_pa(vm))
    /\ \A vm \in Vms : RegionTable(regions[vm])
    /\ \A vm \in Vms : Translations(s2[vm], pool_pa(vm)) \subseteq RamPairs(regions[vm])
    /\ TlbTrue
    /\ hcr_vm => vttbr \in Vms
    /\ CallOK(call, s2[call.vm], pool_pa(call.vm), regions[call.vm])

\* hv_vm_init for every VM.
LEMMA InitS2 == Init => S2Inv
<1>. SUFFICES ASSUME Init PROVE S2Inv
  OBVIOUS
<1>1. 0 \in Vms
  BY Stage2Assumption DEF Vms
<1>2. \A vm \in Vms : regions[vm] = <<>> /\ s2[vm] = hv_stage2_init
  BY DEF Init
<1>3. \A vm \in Vms : /\ WellFormed(hv_stage2_init, pool_pa(vm))
                      /\ \A p \in Nat : ~ Mapped(hv_stage2_init, pool_pa(vm), p)
  BY PoolType, InitialTables
<1>4. \A vm \in Vms : Translations(s2[vm], pool_pa(vm)) = {}
  BY <1>2, <1>3, AddressesFit DEF Translations
<1>5. RegionTable(<<>>)
  BY RegionsAssumption DEF RegionTable
<1>6. TypeOK
  <2>1. regions \in [Vms -> Seq(HvVmRegion)] /\ \A vm \in Vms : Len(regions[vm]) <= HV_MAX_VM_REGIONS
    BY RegionsAssumption DEF Init
  <2>2. s2 \in [Vms -> HvStage2]
    BY <1>3 DEF Init, WellFormed, TablesType
  <2>3. call \in Calls
    BY <1>1 DEF Init, Calls, Results
  <2>. QED BY <2>1, <2>2, <2>3 DEF Init, TypeOK
<1>7. CallOK(call, s2[call.vm], pool_pa(call.vm), regions[call.vm])
  BY DEF Init, CallOK
<1>. QED BY <1>2, <1>3, <1>4, <1>5, <1>6, <1>7 DEF Init, S2Inv, TlbTrue

-----------------------------------------------------------------------------
\* The arguments of the calls.
LEMMA RequestTypes ==
  /\ \A vm \in Vms : \A q \in RegionRequests(vm) : q.region \in HvVmRegion /\ q.aligned \in BOOLEAN
  /\ \A vm \in Vms : \A q \in MapRequests(vm) :
        q.ipa \in Nat /\ q.pa \in Nat /\ q.size \in Nat /\ q.aligned \in BOOLEAN
  /\ \A q \in UnmapRequests : q.ipa \in Nat /\ q.aligned \in BOOLEAN
  BY Stage2Assumption

\* hv_vm_add_region: the tables are not touched, the RAM can only grow.
LEMMA AddRegionStep ==
  ASSUME S2Inv, NEW vm \in Vms, NEW r \in HvVmRegion, NEW aligned \in BOOLEAN,
         hv_vm_add_region(vm, r, aligned)
  PROVE  S2Inv'
<1>. DEFINE res == AddRegionResult(regions[vm], r, aligned)
<1>1. /\ regions \in [Vms -> Seq(HvVmRegion)] /\ RegionTable(regions[vm])
      /\ regions' = IF res = "OK" THEN [regions EXCEPT ![vm] = Append(@, r)] ELSE regions
      /\ call' = [op |-> "add", vm |-> vm, region |-> 0, ipa |-> 0, pa |-> 0,
                  size |-> 0, done |-> 0, res |-> res]
      /\ s2' = s2 /\ tlb' = tlb /\ vttbr' = vttbr /\ hcr_vm' = hcr_vm
  BY DEF S2Inv, TypeOK, hv_vm_add_region
<1>2. res \in {"INVAL", "FULL", "OVERLAP", "OK"}
  BY DEF AddRegionResult
<1>3. \A v \in Vms : /\ RegionTable(regions'[v])
                     /\ RamPairs(regions[v]) \subseteq RamPairs(regions'[v])
  <2>1. CASE res = "OK"
    <3>1. /\ RegionTable(Append(regions[vm], r))
          /\ RamPairs(regions[vm]) \subseteq RamPairs(Append(regions[vm], r))
      BY <1>1, <2>1, AddRegion
    <3>2. /\ regions'[vm] = Append(regions[vm], r)
          /\ \A v \in Vms : v # vm => regions'[v] = regions[v]
      BY <1>1, <2>1
    <3>. QED BY <3>1, <3>2 DEF S2Inv
  <2>2. CASE res # "OK"
    BY <1>1, <2>2 DEF S2Inv
  <2>. QED BY <2>1, <2>2
<1>4. regions' \in [Vms -> Seq(HvVmRegion)]
  BY <1>1
<1>. HIDE DEF res
<1>5. call' \in Calls
  BY <1>1, <1>2 DEF Calls, Results
<1>6. CallOK(call', s2'[call'.vm], pool_pa(call'.vm), regions'[call'.vm])
  BY <1>1, <1>2 DEF CallOK
<1>7. TypeOK'
  BY <1>1, <1>3, <1>4, <1>5 DEF S2Inv, TypeOK, RegionTable
<1>8. \A v \in Vms : Translations(s2'[v], pool_pa(v)) \subseteq RamPairs(regions'[v])
  BY <1>1, <1>3 DEF S2Inv
<1>9. TlbTrue'
  BY <1>1 DEF S2Inv, TlbTrue
<1>. QED BY <1>1, <1>3, <1>6, <1>7, <1>8, <1>9 DEF S2Inv

\* A call that only changes "call".
LEMMA CallStep ==
  ASSUME S2Inv, UNCHANGED <<regions, s2, tlb, vttbr, hcr_vm>>, call' \in Calls,
         CallOK(call', s2[call'.vm], pool_pa(call'.vm), regions[call'.vm])
  PROVE  S2Inv'
<1>1. TypeOK'
  BY DEF S2Inv, TypeOK
<1>2. TlbTrue'
  BY DEF S2Inv, TlbTrue
<1>. QED BY <1>1, <1>2 DEF S2Inv

\* hv_stage2_map_region up to its loop.
LEMMA MapRegionStep ==
  ASSUME S2Inv, NEW vm \in Vms, NEW ipa \in Nat, NEW pa \in Nat, NEW size \in Nat,
         NEW aligned \in BOOLEAN, hv_stage2_map_region(vm, ipa, pa, size, aligned)
  PROVE  S2Inv'
<1>. DEFINE res == MapRegionCheck(vm, ipa, pa, size, aligned)
            c == [op |-> "map", vm |-> vm, region |-> 0, ipa |-> ipa, pa |-> pa,
                  size |-> size, done |-> 0, res |-> res]
<1>1. call' = c /\ UNCHANGED <<regions, s2, tlb, vttbr, hcr_vm>>
  BY DEF hv_stage2_map_region
<1>2. /\ res \in {"INVAL", "RANGE", "BUSY"}
      /\ res = "BUSY" => /\ 0 < size /\ ipa + size <= AddressPages
                         /\ Run(ipa, pa, size) \subseteq RamPairs(regions[vm])
  BY MapChecked DEF S2Inv
<1>. HIDE DEF res
<1>3. /\ c \in Calls /\ c.op = "map" /\ c.vm = vm /\ c.ipa = ipa /\ c.pa = pa
      /\ c.size = size /\ c.done = 0 /\ c.res = res
  BY <1>2 DEF Calls, Results
<1>. HIDE DEF c
<1>4. CallOK(c, s2[vm], pool_pa(vm), regions[vm])
  BY <1>2, <1>3, RunGrows DEF CallOK
<1>. QED BY <1>1, <1>3, <1>4, CallStep

\* hv_vm_build_stage2 up to its first loop.
LEMMA BuildStep ==
  ASSUME S2Inv, NEW vm \in Vms, hv_vm_build_stage2(vm)
  PROVE  S2Inv'
<1>. DEFINE c == [op |-> "build", vm |-> vm, region |-> 0, ipa |-> 0, pa |-> 0,
                  size |-> 0, done |-> 0, res |-> "BUSY"]
<1>1. call' = BuildFrom(c) /\ UNCHANGED <<regions, s2, tlb, vttbr, hcr_vm>>
  BY DEF hv_vm_build_stage2
<1>2. /\ c \in Calls /\ c.op = "build" /\ c.vm = vm /\ c.ipa = 0 /\ c.pa = 0
      /\ c.done = 0 /\ c.region = 0
  BY DEF Calls
<1>. HIDE DEF c
<1>3. Run(c.ipa, c.pa, c.done) \subseteq Translations(s2[vm], pool_pa(vm))
  BY <1>2, RunGrows
<1>4. RegionTable(regions[c.vm])
  BY <1>2 DEF S2Inv
<1>5. \A j \in DOMAIN regions[c.vm] : ~ (j <= c.region)
  BY <1>2, <1>4 DEF RegionTable
<1>6. /\ BuildFrom(c) \in Calls /\ BuildFrom(c).vm = vm
      /\ CallOK(BuildFrom(c), s2[vm], pool_pa(vm), regions[vm])
  BY <1>2, <1>3, <1>4, <1>5, BuildGoesOn
<1>. QED BY <1>1, <1>6, CallStep

\* One iteration of the loop of hv_stage2_map_region.
LEMMA MapLoopStep ==
  ASSUME S2Inv, MapLoop
  PROVE  S2Inv'
<1>. DEFINE v == call.vm
            m == stage2_map_page(s2[v], pool_pa(v), call.ipa + call.done, call.pa + call.done)
<1>1. /\ v \in Vms /\ call \in Calls /\ call.res = "BUSY" /\ pool_pa(v) \in Nat
      /\ RegionTable(regions[v]) /\ WellFormed(s2[v], pool_pa(v))
      /\ CallOK(call, s2[v], pool_pa(v), regions[v])
      /\ Translations(s2[v], pool_pa(v)) \subseteq RamPairs(regions[v])
  <2>1. call \in Calls /\ call.res = "BUSY"
    BY DEF S2Inv, TypeOK, MapLoop, Ready
  <2>2. v \in Vms
    BY <2>1 DEF Calls
  <2>. QED BY <2>1, <2>2, PoolType DEF S2Inv
<1>2. /\ WellFormed(m.s, pool_pa(v))
      /\ Translations(m.s, pool_pa(v)) \subseteq RamPairs(regions[v])
      /\ Translations(s2[v], pool_pa(v)) \subseteq Translations(m.s, pool_pa(v))
      /\ Returned(call, m.res) \in Calls /\ Returned(call, m.res).vm = v
      /\ CallOK(Returned(call, m.res), m.s, pool_pa(v), regions[v])
  BY <1>1, LoopIteration
<1>3. /\ s2' = [s2 EXCEPT ![v] = m.s] /\ call' = Returned(call, m.res)
      /\ tlb' \in {tlb, {}} /\ regions' = regions /\ vttbr' = vttbr /\ hcr_vm' = hcr_vm
  BY DEF MapLoop
<1>. HIDE DEF m, v
<1>4. s2'[v] = m.s /\ \A w \in Vms : w # v => s2'[w] = s2[w]
  BY <1>1, <1>3 DEF S2Inv, TypeOK
<1>5. TypeOK'
  <2>1. s2' \in [Vms -> HvStage2]
    BY <1>1, <1>2, <1>3 DEF S2Inv, TypeOK, WellFormed, TablesType
  <2>2. tlb' \subseteq tlb
    BY <1>3
  <2>. QED BY <1>2, <1>3, <2>1, <2>2 DEF S2Inv, TypeOK
<1>6. TlbTrue'
  <2>. SUFFICES ASSUME NEW e \in tlb'
                PROVE  /\ e.vmid = vttbr'
                       /\ <<e.ipa, e.pa>> \in Translations(s2'[e.vmid], pool_pa(e.vmid))
    BY DEF TlbTrue
  <2>1. e \in tlb /\ e.vmid \in Vms
    BY <1>3 DEF S2Inv, TypeOK
  <2>2. e.vmid = vttbr /\ <<e.ipa, e.pa>> \in Translations(s2[e.vmid], pool_pa(e.vmid))
    BY <2>1 DEF S2Inv, TlbTrue
  <2>. QED BY <1>2, <1>3, <1>4, <2>1, <2>2
<1>7. \A w \in Vms : /\ WellFormed(s2'[w], pool_pa(w)) /\ RegionTable(regions'[w])
                     /\ Translations(s2'[w], pool_pa(w)) \subseteq RamPairs(regions'[w])
  BY <1>2, <1>3, <1>4 DEF S2Inv
<1>8. CallOK(call', s2'[call'.vm], pool_pa(call'.vm), regions'[call'.vm])
  BY <1>2, <1>3, <1>4
<1>. QED BY <1>3, <1>5, <1>6, <1>7, <1>8 DEF S2Inv

\* The page of an unmap call that goes through lies in the address range.
LEMMA UnmapInRange ==
  ASSUME S2Inv, NEW vm \in Vms, NEW ipa \in Nat, NEW aligned \in BOOLEAN,
         UnmapCheck(vm, ipa, aligned) = "OK"
  PROVE  ipa \in 0 .. AddressPages - 1
<1>1. PICK i \in DOMAIN regions[vm] : hv_vm_region_contains(regions[vm][i], ipa)
  BY DEF UnmapCheck, RegionFound
<1>. DEFINE r == regions[vm][i]
<1>2. RegionTable(regions[vm])
  BY DEF S2Inv
<1>3. i \in 1 .. Len(regions[vm]) /\ r \in HvVmRegion
  BY <1>2 DEF RegionTable
<1>4. hv_vm_region_valid(r, TRUE)
  BY <1>2, <1>3 DEF RegionTable
<1>5. r.ipa_base \in Nat /\ r.size \in Nat /\ r.ipa_base + r.size <= AddressPages
  BY <1>3, <1>4, RegionType
<1>. HIDE DEF r
<1>6. ipa >= r.ipa_base /\ ipa - r.ipa_base < r.size
  BY <1>1 DEF hv_vm_region_contains, r
<1>. QED BY <1>5, <1>6, RegionsAssumption

\* hv_stage2_unmap_page: the entry goes, and with it what the TLB holds of it.
LEMMA UnmapStep ==
  ASSUME S2Inv, NEW vm \in Vms, NEW ipa \in Nat, NEW aligned \in BOOLEAN,
         hv_stage2_unmap_page(vm, ipa, aligned)
  PROVE  S2Inv'
<1>. DEFINE res == UnmapCheck(vm, ipa, aligned)
            n == UnmapEntry(s2[vm], pool_pa(vm), ipa)
<1>1. /\ s2' = IF res = "OK" THEN [s2 EXCEPT ![vm] = n] ELSE s2
      /\ tlb' = IF res = "OK" THEN hyp_invalidate_stage2_tlb_ipa(ipa) ELSE tlb
      /\ call' = [op |-> "unmap", vm |-> vm, region |-> 0, ipa |-> ipa, pa |-> 0,
                  size |-> 1, done |-> 0, res |-> res]
      /\ regions' = regions /\ vttbr' = vttbr /\ hcr_vm' = hcr_vm
  BY DEF hv_stage2_unmap_page
<1>2. res \in {"INVAL", "RANGE", "OK"}
  BY DEF UnmapCheck
<1>3. call' \in Calls
  <2>. HIDE DEF res
  <2>. QED BY <1>1, <1>2 DEF Calls, Results
<1>4. CallOK(call', s2'[call'.vm], pool_pa(call'.vm), regions'[call'.vm])
  <2>. HIDE DEF res
  <2>. QED BY <1>1, <1>2 DEF CallOK
<1>5. CASE res # "OK"
  <2>1. TypeOK' /\ TlbTrue'
    BY <1>1, <1>3, <1>5 DEF S2Inv, TypeOK, TlbTrue
  <2>. QED BY <1>1, <1>4, <1>5, <2>1 DEF S2Inv
<1>6. CASE res = "OK"
  <2>1. ipa \in 0 .. AddressPages - 1
    BY <1>6, UnmapInRange
  <2>2. /\ WellFormed(n, pool_pa(vm))
        /\ Translations(n, pool_pa(vm)) = {x \in Translations(s2[vm], pool_pa(vm)) : x[1] # ipa}
    BY <2>1, AddressesFit, PoolType, UnmapPage, UnmapTranslations DEF S2Inv
  <2>. HIDE DEF n, res
  <2>3. s2'[vm] = n /\ \A w \in Vms : w # vm => s2'[w] = s2[w]
    BY <1>1, <1>6 DEF S2Inv, TypeOK
  <2>4. tlb' = {e \in tlb : e.vmid # vttbr \/ e.ipa # ipa}
    BY <1>1, <1>6 DEF hyp_invalidate_stage2_tlb_ipa
  <2>5. TypeOK'
    <3>1. s2' \in [Vms -> HvStage2]
      BY <1>1, <1>6, <2>2 DEF S2Inv, TypeOK, WellFormed, TablesType
    <3>2. tlb' \subseteq tlb
      BY <2>4
    <3>. QED BY <1>1, <1>3, <3>1, <3>2 DEF S2Inv, TypeOK
  <2>6. TlbTrue'
    <3>. SUFFICES ASSUME NEW e \in tlb'
                  PROVE  /\ e.vmid = vttbr'
                         /\ <<e.ipa, e.pa>> \in Translations(s2'[e.vmid], pool_pa(e.vmid))
      BY DEF TlbTrue
    <3>1. e \in tlb /\ e.vmid \in Vms /\ (e.vmid # vttbr \/ e.ipa # ipa)
      BY <2>4 DEF S2Inv, TypeOK
    <3>2. e.vmid = vttbr /\ <<e.ipa, e.pa>> \in Translations(s2[e.vmid], pool_pa(e.vmid))
      BY <3>1 DEF S2Inv, TlbTrue
    <3>. QED BY <1>1, <2>2, <2>3, <3>1, <3>2
  <2>7. \A w \in Vms : /\ WellFormed(s2'[w], pool_pa(w)) /\ RegionTable(regions'[w])
                       /\ Translations(s2'[w], pool_pa(w)) \subseteq RamPairs(regions'[w])
    BY <1>1, <2>2, <2>3 DEF S2Inv
  <2>. QED BY <1>1, <1>4, <2>5, <2>6, <2>7 DEF S2Inv
<1>. QED BY <1>5, <1>6

\* Switching the address space empties the TLB.
LEMMA SwitchStep ==
  ASSUME S2Inv, (\E vm \in Vms : hv_mmu_activate_vcpu(vm)) \/ hv_mmu_deactivate_stage2
  PROVE  S2Inv'
<1>1. /\ tlb' = {} /\ UNCHANGED <<regions, s2, call>>
      /\ vttbr' \in Vms \cup {NoVm} /\ hcr_vm' \in BOOLEAN
      /\ hcr_vm' => vttbr' \in Vms
  BY DEF hv_mmu_activate_vcpu, hv_mmu_deactivate_stage2, S2Inv, TypeOK
<1>2. TypeOK' /\ TlbTrue'
  BY <1>1 DEF S2Inv, TypeOK, TlbTrue
<1>. QED BY <1>1, <1>2 DEF S2Inv

\* What the MMU does to the TLB by itself.
LEMMA TlbStep ==
  ASSUME S2Inv, TlbEvict \/ \E ipa \in 0 .. AddressPages - 1 : TlbFill(ipa)
  PROVE  S2Inv'
<1>1. UNCHANGED <<regions, s2, call, vttbr, hcr_vm>>
  BY DEF TlbEvict, TlbFill
<1>2. CASE TlbEvict
  <2>1. tlb' \subseteq tlb
    BY <1>2 DEF TlbEvict
  <2>2. TypeOK' /\ TlbTrue'
    BY <1>1, <2>1 DEF S2Inv, TypeOK, TlbTrue
  <2>. QED BY <1>1, <2>2 DEF S2Inv
<1>3. ASSUME NEW ipa \in 0 .. AddressPages - 1, TlbFill(ipa) PROVE S2Inv'
  <2>. DEFINE f == FrameOf(vttbr, ipa)
              e == [vmid |-> vttbr, ipa |-> ipa, pa |-> f]
  <2>1. vttbr \in Vms /\ tlb' = tlb \cup {e} /\ IsMapped(vttbr, ipa)
    BY <1>3 DEF TlbFill, S2Inv
  <2>2. <<ipa, f>> \in Translations(s2[vttbr], pool_pa(vttbr))
    BY <2>1, InTranslations DEF IsMapped, FrameOf
  <2>3. f \in 0 .. AddressPages - 1
    <3>1. <<ipa, f>> \in RamPairs(regions[vttbr]) /\ RegionTable(regions[vttbr])
      BY <2>1, <2>2 DEF S2Inv
    <3>2. <<ipa, f>> \in (0 .. AddressPages - 1) \X (0 .. AddressPages - 1)
      BY <3>1, RamType
    <3>. QED BY <3>2
  <2>. HIDE DEF f
  <2>4. e \in [vmid : Vms, ipa : Nat, pa : Nat]
    BY <2>1, <2>3
  <2>5. TypeOK'
    BY <1>1, <2>1, <2>4 DEF S2Inv, TypeOK
  <2>6. TlbTrue'
    <3>. SUFFICES ASSUME NEW d \in tlb'
                  PROVE  /\ d.vmid = vttbr
                         /\ <<d.ipa, d.pa>> \in Translations(s2[d.vmid], pool_pa(d.vmid))
      BY <1>1 DEF TlbTrue
    <3>1. CASE d \in tlb
      BY <3>1 DEF S2Inv, TlbTrue
    <3>2. CASE d = e
      BY <2>2, <3>2
    <3>. QED BY <2>1, <3>1, <3>2
  <2>. QED BY <1>1, <2>5, <2>6 DEF S2Inv
<1>. QED BY <1>2, <1>3

\* Every step keeps the invariant.
LEMMA S2Step == S2Inv /\ [Next]_vars => S2Inv'
<1>. SUFFICES ASSUME S2Inv, [Next]_vars PROVE S2Inv'
  OBVIOUS
<1>1. CASE UNCHANGED vars
  <2>1. TypeOK' /\ TlbTrue'
    BY <1>1 DEF vars, S2Inv, TypeOK, TlbTrue
  <2>. QED BY <1>1, <2>1 DEF vars, S2Inv
<1>2. CASE MapLoop
  BY <1>2, MapLoopStep
<1>3. CASE TlbEvict \/ \E ipa \in 0 .. AddressPages - 1 : TlbFill(ipa)
  BY <1>3, TlbStep
<1>4. CASE hv_mmu_deactivate_stage2
  BY <1>4, SwitchStep
<1>5. ASSUME NEW vm \in Vms, hv_mmu_activate_vcpu(vm) PROVE S2Inv'
  BY <1>5, SwitchStep
<1>6. ASSUME NEW vm \in Vms, NEW q \in RegionRequests(vm), hv_vm_add_region(vm, q.region, q.aligned)
      PROVE  S2Inv'
  BY <1>6, RequestTypes, AddRegionStep
<1>7. ASSUME NEW vm \in Vms, NEW q \in MapRequests(vm),
             hv_stage2_map_region(vm, q.ipa, q.pa, q.size, q.aligned)
      PROVE  S2Inv'
  BY <1>7, RequestTypes, MapRegionStep
<1>8. ASSUME NEW vm \in Vms, hv_vm_build_stage2(vm) PROVE S2Inv'
  BY <1>8, BuildStep
<1>9. ASSUME NEW vm \in Vms, NEW q \in UnmapRequests, hv_stage2_unmap_page(vm, q.ipa, q.aligned)
      PROVE  S2Inv'
  BY <1>9, RequestTypes, UnmapStep
<1>. QED BY <1>1, <1>2, <1>3, <1>4, <1>5, <1>6, <1>7, <1>8, <1>9 DEF Next

\* The inductive invariant holds in every reachable state.
LEMMA S2Invariant == Spec => []S2Inv
  BY InitS2, S2Step, PTL DEF Spec

-----------------------------------------------------------------------------
\* The region tables, the stage-2 tables, the call and the TLB keep their types.
THEOREM Stage2TypeCorrect == Spec => []TypeOK
<1>1. S2Inv => TypeOK
  BY DEF S2Inv
<1>. QED BY <1>1, S2Invariant, PTL

\* A well-formed set of tables is the tree that TableTree describes.
LEMMA TreeOfTables == S2Inv => TableTree
<1>. SUFFICES ASSUME S2Inv, NEW vm \in Vms
              PROVE  LET L1 == Links(vm, {Root})
                         L2 == Links(vm, {Target(vm, l) : l \in L1})
                         used == s2[vm].pool_used
                     IN  /\ \A l \in L1 : Target(vm, l) \in 1 .. used - 1
                         /\ \A l \in L2 : Target(vm, l) \in 1 .. used - 1
                         /\ \A t \in 1 .. used - 1 :
                               \E l \in L1 \cup L2 :
                                  /\ Target(vm, l) = t
                                  /\ \A k \in L1 \cup L2 : Target(vm, k) = t => k = l
                         /\ \A t \in Table : t >= used => s2[vm].pool[t] = stage2_zero_table
  BY DEF TableTree
<1>. DEFINE s == s2[vm]
            pool == pool_pa(vm)
            used == s.pool_used
            D(t, i) == Down(s, pool, t, i)
            L1 == Links(vm, {Root})
            Ts == {Target(vm, l) : l \in L1}
            L2 == Links(vm, Ts)
<1>1. /\ WellFormed(s, pool) /\ pool \in Nat
      /\ s \in HvStage2 /\ used \in 1 .. HV_STAGE2_MAX_TABLE_PAGES
  BY PoolType DEF S2Inv, WellFormed, TablesType
<1>2. /\ LinksValid(s, pool) /\ LinksUnique(s, pool) /\ AllLinked(s, pool) /\ FreeClean(s)
  BY <1>1 DEF WellFormed
<1>3. \A l : Target(vm, l) = D(l[1], l[2])
  BY DEF Target, Down
<1>4. /\ L1 = {l \in {Root} \X Index : s.pool[l[1]][l[2]] # DESC_INVALID}
      /\ L2 = {l \in Ts \X Index : s.pool[l[1]][l[2]] # DESC_INVALID}
  BY DEF Links
<1>5. \A t \in Inner(s, pool), i \in Index :
         s.pool[t][i] # DESC_INVALID <=> D(t, i) \in 1 .. used - 1
  <2>. SUFFICES ASSUME NEW t \in Inner(s, pool), NEW i \in Index
                PROVE  s.pool[t][i] # DESC_INVALID <=> D(t, i) \in 1 .. used - 1
    OBVIOUS
  <2>1. t \in Table
    BY <1>1, LevelsApart
  <2>2. s.pool[t][i] = DESC_INVALID => D(t, i) = NoTable
    BY <1>1, <2>1, DownType DEF DESC_INVALID
  <2>. QED BY <1>1, <1>2, <2>2, TablesAssumption DEF LinksValid, NoTable
<1>. HIDE DEF s, pool, used, D, L1, L2
<1>6. Ts = Level2(s, pool)
  <2>1. ASSUME NEW l \in L1 PROVE Target(vm, l) \in Level2(s, pool)
    <3>1. l[1] = Root /\ l[2] \in Index /\ s.pool[l[1]][l[2]] # DESC_INVALID
      BY <1>4, <2>1
    <3>2. D(Root, l[2]) \in 1 .. used - 1
      BY <1>5, <3>1 DEF Inner
    <3>3. D(Root, l[2]) \in Table
      BY <1>1, <3>2, TablesAssumption DEF Table
    <3>. QED BY <1>3, <3>1, <3>3 DEF Level2, D
  <2>2. ASSUME NEW t \in Level2(s, pool) PROVE \E l \in L1 : Target(vm, l) = t
    <3>1. PICK i \in Index : D(Root, i) = t /\ t \in Table
      BY <2>2 DEF Level2, D
    <3>2. s.pool[Root][i] # DESC_INVALID
      <4>1. D(Root, i) # NoTable
        BY <3>1, TablesAssumption DEF Table, NoTable
      <4>. QED BY <1>1, <4>1, RootType, DownType DEF D, DESC_INVALID
    <3>3. <<Root, i>> \in L1
      BY <1>4, <3>2
    <3>. QED BY <1>3, <3>1, <3>3
  <2>. QED BY <2>1, <2>2
<1>. HIDE DEF Ts
<1>7. L1 \cup L2 = {l \in Inner(s, pool) \X Index : s.pool[l[1]][l[2]] # DESC_INVALID}
  BY <1>4, <1>6 DEF Inner
<1>8. \A l \in L1 \cup L2 : D(l[1], l[2]) \in 1 .. used - 1
  BY <1>5, <1>7
<1>9. ASSUME NEW t \in 1 .. used - 1
      PROVE  \E l \in L1 \cup L2 : /\ Target(vm, l) = t
                                   /\ \A k \in L1 \cup L2 : Target(vm, k) = t => k = l
  <2>1. PICK u \in Inner(s, pool), i \in Index : D(u, i) = t
    BY <1>2, <1>9 DEF AllLinked, Level2, Level3, Inner, D, used
  <2>2. <<u, i>> \in L1 \cup L2
    BY <1>5, <1>7, <1>9, <2>1
  <2>3. t # NoTable
    BY <1>1, <1>9, TablesAssumption DEF NoTable
  <2>4. ASSUME NEW k \in L1 \cup L2, D(k[1], k[2]) = t PROVE k = <<u, i>>
    <3>1. k[1] \in Inner(s, pool) /\ k[2] \in Index /\ k = <<k[1], k[2]>>
      BY <1>7
    <3>2. k[1] = u /\ k[2] = i
      BY <1>2, <2>1, <2>3, <2>4, <3>1 DEF LinksUnique, D
    <3>. QED BY <3>1, <3>2
  <2>. QED BY <1>3, <2>1, <2>2, <2>4
<1>. QED BY <1>2, <1>3, <1>8, <1>9 DEF FreeClean, s, used, L1, L2, Ts

\* For every table and pool size, the table pages of every VM form a tree, no page
\* is lost or shared, and the free ones are clean.
THEOREM TablesFormTree == Spec => []TableTree
  BY TreeOfTables, S2Invariant, PTL

\* No page belongs to two regions of a VM.
THEOREM RegionsStayDisjoint == Spec => []RegionsDisjoint
<1>1. S2Inv => RegionsDisjoint
  <2>. SUFFICES ASSUME S2Inv, NEW vm \in Vms, NEW i \in DOMAIN regions[vm],
                       NEW j \in DOMAIN regions[vm], NEW p \in 0 .. AddressPages - 1,
                       hv_vm_region_contains(regions[vm][i], p),
                       hv_vm_region_contains(regions[vm][j], p)
                PROVE  i = j
    BY DEF RegionsDisjoint
  <2>. QED BY AddressesFit, OneRegion DEF S2Inv
<1>. QED BY <1>1, S2Invariant, PTL

\* The result of a mapping call is the truth, whatever the call was for.
THEOREM ResultsAreTrue == Spec => []CallResultsHold
<1>1. S2Inv => CallResultsHold
  BY XlateIs, RamIs DEF S2Inv, CallOK, CallResultsHold, IsMapped
<1>. QED BY <1>1, S2Invariant, PTL

\* No TLB entry is stale, although unmapping invalidates for one VMID only.
THEOREM TlbNeverStale == Spec => []TlbCoherent
<1>1. S2Inv => TlbCoherent
  <2>. SUFFICES ASSUME S2Inv, NEW e \in tlb
                PROVE  /\ Mapped(s2[e.vmid], pool_pa(e.vmid), e.ipa)
                       /\ hv_stage2_translate(s2[e.vmid], pool_pa(e.vmid), e.ipa) = e.pa
    BY DEF TlbCoherent, IsMapped, FrameOf
  <2>1. <<e.ipa, e.pa>> \in Translations(s2[e.vmid], pool_pa(e.vmid))
    BY DEF S2Inv, TlbTrue
  <2>. QED BY <2>1, InTranslations
<1>. QED BY <1>1, S2Invariant, PTL

\* The active guest reaches the frames of its own RAM regions and no others.
THEOREM GuestIsConfined == Spec => []GuestConfined
<1>1. S2Inv => GuestConfined
  <2>. SUFFICES ASSUME S2Inv, hcr_vm
                PROVE  /\ {<<e.ipa, e.pa>> : e \in {f \in tlb : f.vmid = vttbr}} \subseteq RamOf(vttbr)
                       /\ Xlate(vttbr) \subseteq RamOf(vttbr)
    BY DEF GuestConfined
  <2>1. vttbr \in Vms
    BY DEF S2Inv
  <2>2. Xlate(vttbr) \subseteq RamOf(vttbr)
    BY <2>1, XlateIs, RamIs DEF S2Inv
  <2>3. \A e \in tlb : e.vmid = vttbr => <<e.ipa, e.pa>> \in Xlate(vttbr)
    BY XlateIs DEF S2Inv, TlbTrue
  <2>. QED BY <2>2, <2>3
<1>. QED BY <1>1, S2Invariant, PTL

-----------------------------------------------------------------------------
(***************************************************************************)
(* The refinement.  A step that leaves a VM's tables and regions alone     *)
(* leaves its grant and its translations alone; the other steps are one    *)
(* Grant, one MapPage or one UnmapPage of the abstract specification, or   *)
(* change nothing that it can see.                                         *)
(***************************************************************************)
Granted == [vm \in Vms |-> RamPairs(regions[vm])]

Translated == [vm \in Vms |-> Translations(s2[vm], pool_pa(vm))]

\* The refinement mapping in terms of the two functions above.
LEMMA Mapping ==
  /\ [vm \in Vms |-> RamOf(vm)] = Granted
  /\ [vm \in Vms |-> Xlate(vm)] = Translated
  BY XlateIs, RamIs DEF Granted, Translated

\* The same in the next state.
LEMMA MappingNext ==
  /\ [vm \in Vms |-> RamOf(vm)]' = Granted'
  /\ [vm \in Vms |-> Xlate(vm)]' = Translated'
  BY DEF Granted, Translated, RamOf, RamPairs, Xlate, Translations, IsMapped, FrameOf

\* The initial states map to the initial state.
LEMMA RefinesInit == Init => AS!Init
<1>. SUFFICES ASSUME Init PROVE AS!Init
  OBVIOUS
<1>1. Granted = [vm \in Vms |-> {}]
  BY DEF Init, Granted, RamPairs
<1>2. Translated = [vm \in Vms |-> {}]
  BY PoolType, InitialTables, AddressesFit DEF Init, Translated, Translations
<1>. QED BY <1>1, <1>2, Mapping DEF AS!Init

\* A step that changes neither function is a stutter of the address space.
LEMMA Unseen ==
  ASSUME Granted' = Granted, Translated' = Translated
  PROVE  UNCHANGED AS!vars
  BY Mapping, MappingNext DEF AS!vars

\* hv_vm_add_region grants the RAM of the region that it accepts.
LEMMA RefinesGrant ==
  ASSUME S2Inv, S2Inv', NEW vm \in Vms, NEW r \in HvVmRegion, NEW aligned \in BOOLEAN,
         hv_vm_add_region(vm, r, aligned)
  PROVE  AS!Grant(vm)
<1>. DEFINE G == Granted
            H == Granted'
            new == H[vm] \ G[vm]
<1>1. Translated' = Translated
  BY DEF hv_vm_add_region, Translated
<1>2. /\ RegionTable(regions[vm]) /\ RegionTable(regions'[vm])
      /\ G[vm] = RamPairs(regions[vm]) /\ H[vm] = RamPairs(regions'[vm])
  BY DEF S2Inv, Granted
<1>3. \A w \in Vms : w # vm => regions'[w] = regions[w]
  BY DEF hv_vm_add_region, S2Inv, TypeOK
<1>4. /\ G[vm] \subseteq H[vm]
      /\ \A x \in new, y \in G[vm] : x[1] # y[1]
  <2>1. CASE AddRegionResult(regions[vm], r, aligned) = "OK"
    <3>1. regions'[vm] = Append(regions[vm], r)
      BY <2>1 DEF hv_vm_add_region, S2Inv, TypeOK
    <3>. QED BY <1>2, <2>1, <3>1, AddRegion
  <2>2. CASE AddRegionResult(regions[vm], r, aligned) # "OK"
    <3>1. regions'[vm] = regions[vm]
      BY <2>2 DEF hv_vm_add_region
    <3>. QED BY <1>2, <3>1
  <2>. QED BY <2>1, <2>2
<1>5. H = [G EXCEPT ![vm] = @ \cup new]
  <2>1. \A w \in Vms : w # vm => H[w] = G[w]
    BY <1>3 DEF Granted
  <2>2. H[vm] = G[vm] \cup new
    BY <1>4
  <2>. QED BY <2>1, <2>2 DEF Granted
<1>6. /\ new \subseteq (0 .. AddressPages - 1) \X (0 .. AddressPages - 1)
      /\ \A m, n \in new : m[1] = n[1] => m = n
  BY <1>2, RamType
<1>. HIDE DEF G, H, new
<1>7. {m[1] : m \in G[vm]} \cap {m[1] : m \in new} = {}
  BY <1>4
<1>. QED BY <1>1, <1>5, <1>6, <1>7, Mapping, MappingNext
         DEF AS!Grant, AS!Pages, G, H, new

\* An iteration of the loop maps one granted page, or nothing.
LEMMA RefinesMap ==
  ASSUME S2Inv, MapLoop
  PROVE  (\E vm \in Vms : \E m \in [v \in Vms |-> RamOf(v)][vm] : AS!MapPage(vm, m))
            \/ UNCHANGED AS!vars
<1>. DEFINE v == call.vm
            p == call.ipa + call.done
            f == call.pa + call.done
            m == stage2_map_page(s2[v], pool_pa(v), p, f)
            X == Translated
            Y == Translated'
<1>1. /\ v \in Vms /\ call \in Calls /\ call.res = "BUSY" /\ pool_pa(v) \in Nat
      /\ RegionTable(regions[v]) /\ WellFormed(s2[v], pool_pa(v))
      /\ CallOK(call, s2[v], pool_pa(v), regions[v])
      /\ Translations(s2[v], pool_pa(v)) \subseteq RamPairs(regions[v])
  <2>1. call \in Calls /\ call.res = "BUSY"
    BY DEF S2Inv, TypeOK, MapLoop, Ready
  <2>2. v \in Vms
    BY <2>1 DEF Calls
  <2>. QED BY <2>1, <2>2, PoolType DEF S2Inv
<1>2. m.res = "OK" => <<p, f>> \in RamPairs(regions[v])
  BY <1>1, LoopIteration
<1>3. p \in 0 .. AddressPages - 1 /\ f \in Nat
  <2>1. /\ call.ipa \in Nat /\ call.pa \in Nat /\ call.done \in Nat /\ call.size \in Nat
        /\ call.done < call.size /\ call.ipa + call.size <= AddressPages
    BY <1>1 DEF Calls, CallOK
  <2>. QED BY <2>1, RegionsAssumption
<1>. HIDE DEF p, f
<1>4. /\ m.res = "OK" =>
            /\ Translations(m.s, pool_pa(v)) = Translations(s2[v], pool_pa(v)) \cup {<<p, f>>}
            /\ \A g : <<p, g>> \notin Translations(s2[v], pool_pa(v))
      /\ m.res # "OK" => Translations(m.s, pool_pa(v)) = Translations(s2[v], pool_pa(v))
  BY <1>1, <1>3, MapPageTranslations
<1>5. s2' = [s2 EXCEPT ![v] = m.s] /\ regions' = regions
  BY DEF MapLoop, p, f
<1>. HIDE DEF m, v
<1>6. s2'[v] = m.s /\ \A w \in Vms : w # v => s2'[w] = s2[w]
  BY <1>1, <1>5 DEF S2Inv, TypeOK
<1>7. Granted' = Granted
  BY <1>5 DEF Granted
<1>8. CASE m.res # "OK"
  <2>1. Translated' = Translated
    BY <1>4, <1>6, <1>8 DEF Translated
  <2>. QED BY <1>7, <2>1, Unseen
<1>9. CASE m.res = "OK"
  <2>1. X[v] = Translations(s2[v], pool_pa(v)) /\ Granted[v] = RamPairs(regions[v])
    BY <1>1 DEF Translated, Granted
  <2>2. Y = [X EXCEPT ![v] = @ \cup {<<p, f>>}]
    BY <1>1, <1>4, <1>6, <1>9 DEF Translated
  <2>3. p \notin {x[1] : x \in X[v]}
    <3>1. \A x \in X[v] : x = <<x[1], x[2]>>
      BY <2>1, Pairs
    <3>. QED BY <1>4, <1>9, <2>1, <3>1
  <2>4. <<p, f>> \in Granted[v]
    BY <1>2, <1>9, <2>1
  <2>. DEFINE pair == <<p, f>>
  <2>5. pair[1] = p /\ pair \in Granted[v]
    BY <2>4
  <2>. HIDE DEF pair, X, Y
  <2>6. AS!MapPage(v, pair)
    BY <1>7, <2>2, <2>3, <2>5, Mapping, MappingNext DEF AS!MapPage, AS!Pages, X, Y, pair
  <2>. QED BY <1>1, <2>5, <2>6, Mapping
<1>. QED BY <1>8, <1>9

\* hv_stage2_unmap_page takes one page away, or nothing.
LEMMA RefinesUnmap ==
  ASSUME S2Inv, NEW vm \in Vms, NEW ipa \in Nat, NEW aligned \in BOOLEAN,
         hv_stage2_unmap_page(vm, ipa, aligned)
  PROVE  (\E m \in [v \in Vms |-> Xlate(v)][vm] : AS!UnmapPage(vm, m)) \/ UNCHANGED AS!vars
<1>. DEFINE X == Translated
            Y == Translated'
            x0 == Translations(s2[vm], pool_pa(vm))
<1>1. Granted' = Granted
  BY DEF hv_stage2_unmap_page, Granted
<1>2. CASE UnmapCheck(vm, ipa, aligned) # "OK"
  <2>1. Translated' = Translated
    BY <1>2 DEF hv_stage2_unmap_page, Translated
  <2>. QED BY <1>1, <2>1, Unseen
<1>3. CASE UnmapCheck(vm, ipa, aligned) = "OK"
  <2>1. /\ s2'[vm] = UnmapEntry(s2[vm], pool_pa(vm), ipa)
        /\ \A w \in Vms : w # vm => s2'[w] = s2[w]
    BY <1>3 DEF hv_stage2_unmap_page, S2Inv, TypeOK
  <2>2. ipa \in 0 .. AddressPages - 1
    BY <1>3, UnmapInRange
  <2>3. Translations(s2'[vm], pool_pa(vm)) = {x \in x0 : x[1] # ipa}
    BY <2>1, <2>2, PoolType, UnmapTranslations DEF S2Inv
  <2>4. /\ X[vm] = x0 /\ Y[vm] = {x \in x0 : x[1] # ipa}
        /\ \A w \in Vms : w # vm => Y[w] = X[w]
    BY <2>1, <2>3 DEF Translated
  <2>5. CASE \A x \in x0 : x[1] # ipa
    <3>1. Translated' = Translated
      BY <2>4, <2>5 DEF Translated
    <3>. QED BY <1>1, <3>1, Unseen
  <2>6. CASE \E x \in x0 : x[1] = ipa
    <3>1. PICK z \in x0 : z[1] = ipa
      BY <2>6
    <3>2. \A x \in x0 : x[1] = ipa => x = z
      <4>1. x0 \subseteq RamPairs(regions[vm]) /\ RegionTable(regions[vm])
        BY DEF S2Inv
      <4>. QED BY <3>1, <4>1, RamType
    <3>3. {x \in x0 : x[1] # ipa} = x0 \ {z}
      BY <3>1, <3>2
    <3>4. Y = [X EXCEPT ![vm] = @ \ {z}]
      BY <2>4, <3>3 DEF Translated
    <3>5. z \in X[vm]
      BY <2>4
    <3>. HIDE DEF X, Y
    <3>6. AS!UnmapPage(vm, z)
      BY <1>1, <3>4, <3>5, Mapping, MappingNext DEF AS!UnmapPage, X, Y
    <3>. QED BY <3>5, <3>6, Mapping DEF X
  <2>. QED BY <2>5, <2>6
<1>. QED BY <1>2, <1>3

\* Every step is a step of the abstract specification, or invisible to it.
LEMMA RefinesNext == S2Inv /\ S2Inv' /\ [Next]_vars => [AS!Next]_(AS!vars)
<1>. SUFFICES ASSUME S2Inv, S2Inv', [Next]_vars PROVE AS!Next \/ UNCHANGED AS!vars
  OBVIOUS
<1>1. ASSUME UNCHANGED <<regions, s2>> PROVE UNCHANGED AS!vars
  <2>1. Granted' = Granted /\ Translated' = Translated
    BY <1>1 DEF Granted, Translated
  <2>. QED BY <2>1, Unseen
<1>2. CASE UNCHANGED vars
  BY <1>1, <1>2 DEF vars
<1>3. CASE MapLoop
  BY <1>3, RefinesMap DEF AS!Next
<1>4. CASE \/ TlbEvict \/ hv_mmu_deactivate_stage2
           \/ \E ipa \in 0 .. AddressPages - 1 : TlbFill(ipa)
  BY <1>1, <1>4 DEF TlbEvict, hv_mmu_deactivate_stage2, TlbFill
<1>5. ASSUME NEW vm \in Vms,
             \/ hv_vm_build_stage2(vm) \/ hv_mmu_activate_vcpu(vm)
             \/ \E q \in MapRequests(vm) : hv_stage2_map_region(vm, q.ipa, q.pa, q.size, q.aligned)
      PROVE  UNCHANGED AS!vars
  BY <1>1, <1>5 DEF hv_vm_build_stage2, hv_mmu_activate_vcpu, hv_stage2_map_region
<1>6. ASSUME NEW vm \in Vms, NEW q \in RegionRequests(vm), hv_vm_add_region(vm, q.region, q.aligned)
      PROVE  AS!Next
  <2>1. AS!Grant(vm)
    BY <1>6, RequestTypes, RefinesGrant
  <2>. QED BY <2>1 DEF AS!Next
<1>7. ASSUME NEW vm \in Vms, NEW q \in UnmapRequests, hv_stage2_unmap_page(vm, q.ipa, q.aligned)
      PROVE  AS!Next \/ UNCHANGED AS!vars
  BY <1>7, RequestTypes, RefinesUnmap DEF AS!Next
<1>. QED BY <1>2, <1>3, <1>4, <1>5, <1>6, <1>7 DEF Next

\* The stage-2 code implements the abstract address spaces, for every number of
\* VMs, every table, pool and address range and all requests of the callers.
THEOREM Stage2Refines == Spec => ImplementsAddressSpace
  BY RefinesInit, RefinesNext, S2Invariant, PTL DEF Spec, ImplementsAddressSpace, AS!Spec
=============================================================================
