------------------------- MODULE ProcessCreateProofs -------------------------
(***************************************************************************)
(* Proofs about ProcessCreate.                                             *)
(***************************************************************************)
EXTENDS ProcessCreate, TLAPS

-----------------------------------------------------------------------------
(* Indices of a page in the tables. *)

\* Division has one quotient and one remainder.
LEMMA Division ==
    ASSUME NEW v \in Nat
    PROVE  /\ v \div FANOUT \in Nat /\ v % FANOUT \in Indices
           /\ v = FANOUT * (v \div FANOUT) + (v % FANOUT)
  BY FanoutAssumption DEF Indices

\* Every index is one of a table.
LEMMA VpnType ==
    ASSUME NEW v \in VirtualPages
    PROVE  /\ VPN_INDEX(v, 0) \in Indices
           /\ VPN_INDEX(v, 1) \in Indices
           /\ VPN_INDEX(v, 2) \in Indices
<1>1. v \in Nat
  BY FanoutAssumption DEF VirtualPages
<1>2. v \div FANOUT \in Nat
  BY <1>1, Division
<1>3. (v \div FANOUT) \div FANOUT \in Nat
  BY <1>2, Division
<1> QED
  BY <1>1, <1>2, <1>3, Division DEF VPN_INDEX

LEMMA ProductMonotone ==
    ASSUME NEW a \in Nat, NEW b \in Nat, NEW c \in Nat \ {0}, c * a < c * b
    PROVE  a < b
  OBVIOUS

\* Two pages with the same indices on all levels are one.
LEMMA VpnInjective ==
    ASSUME NEW u \in VirtualPages, NEW v \in VirtualPages,
           VPN_INDEX(u, 0) = VPN_INDEX(v, 0),
           VPN_INDEX(u, 1) = VPN_INDEX(v, 1),
           VPN_INDEX(u, 2) = VPN_INDEX(v, 2)
    PROVE  u = v
<1> DEFINE Up(x) == x \div FANOUT
<1>1. ASSUME NEW x \in VirtualPages
      PROVE  /\ x \in Nat /\ Up(x) \in Nat /\ Up(Up(x)) \in Nat
             /\ Up(Up(x)) < FANOUT
  <2>1. x \in Nat /\ x < FANOUT * (FANOUT * FANOUT)
    BY FanoutAssumption DEF VirtualPages
  <2>2. Up(x) \in Nat /\ x = FANOUT * Up(x) + (x % FANOUT) /\ x % FANOUT \in Nat
    BY <2>1, Division DEF Indices
  <2>3. Up(Up(x)) \in Nat /\ Up(x) = FANOUT * Up(Up(x)) + (Up(x) % FANOUT) /\ Up(x) % FANOUT \in Nat
    BY <2>2, Division DEF Indices
  <2>4. Up(x) < FANOUT * FANOUT
    <3>1. FANOUT * Up(x) <= x
      <4> HIDE DEF Up
      <4> QED BY <2>1, <2>2, FanoutAssumption
    <3>2. FANOUT * Up(x) < FANOUT * (FANOUT * FANOUT)
      <4> HIDE DEF Up
      <4> DEFINE A == FANOUT * Up(x)  B == FANOUT * (FANOUT * FANOUT)
      <4>1. A \in Nat /\ B \in Nat
        BY <2>2, FanoutAssumption
      <4>2. A <= x /\ x < B
        BY <3>1, <2>1
      <4> HIDE DEF A, B
      <4>3. A < B BY <4>1, <4>2, <2>1
      <4> QED BY <4>3 DEF A, B
    <3>3. FANOUT * FANOUT \in Nat
      BY FanoutAssumption
    <3> QED
      <4> HIDE DEF Up
      <4> QED BY <3>2, <3>3, <2>2, FanoutAssumption, ProductMonotone
  <2>5. FANOUT * Up(Up(x)) < FANOUT * FANOUT
      <4> HIDE DEF Up
      <4> DEFINE A == FANOUT * Up(Up(x))  B == FANOUT * FANOUT
      <4>1. A \in Nat /\ B \in Nat
        BY <2>3, FanoutAssumption
      <4>2. A <= Up(x) /\ Up(x) < B
        BY <2>3, <2>2, <2>4, FanoutAssumption
      <4> HIDE DEF A, B
      <4>3. A < B BY <4>1, <4>2, <2>2
      <4> QED BY <4>3 DEF A, B
  <2>6. Up(Up(x)) < FANOUT
      <4> HIDE DEF Up
      <4> QED BY <2>5, <2>3, FanoutAssumption, ProductMonotone
  <2> QED
    BY <2>1, <2>2, <2>3, <2>6
<1>2. Up(Up(u)) = Up(Up(v))
  <2>1. VPN_INDEX(u, 2) = Up(Up(u)) % FANOUT /\ VPN_INDEX(v, 2) = Up(Up(v)) % FANOUT
    BY DEF VPN_INDEX
  <2>2. ASSUME NEW q \in Nat, q < FANOUT PROVE q % FANOUT = q
    BY <2>2, FanoutAssumption
  <2> HIDE DEF Up
  <2> QED BY <2>1, <2>2, <1>1
<1>3. ASSUME NEW x \in Nat, NEW y \in Nat, Up(x) = Up(y), x % FANOUT = y % FANOUT
      PROVE  x = y
  BY <1>3, Division
<1>4. Up(u) = Up(v)
  BY <1>1, <1>2, <1>3 DEF VPN_INDEX
<1> QED
  BY <1>1, <1>3, <1>4 DEF VPN_INDEX

-----------------------------------------------------------------------------
(* The tables of a memory.  Their levels are no variable of the code: they *)
(* are what the walks rely on.                                             *)

Memory == UNION {[free_list : Seq(Nat), free_page_count : Nat, tables : [T -> [Indices -> PTE]]]
                    : T \in SUBSET Nat}

LEMMA MemoryParts ==
    ASSUME NEW m \in Memory
    PROVE  /\ m = [free_list |-> m.free_list, free_page_count |-> m.free_page_count,
                   tables |-> m.tables]
           /\ m.free_list \in Seq(Nat) /\ m.free_page_count \in Nat
           /\ DOMAIN m.tables \subseteq Nat
           /\ m.tables \in [DOMAIN m.tables -> [Indices -> PTE]]
<1>1. PICK T \in SUBSET Nat : m \in [free_list : Seq(Nat), free_page_count : Nat,
                                     tables : [T -> [Indices -> PTE]]]
  BY DEF Memory
<1> QED
  BY <1>1

LEMMA MemoryOf ==
    ASSUME NEW f \in Seq(Nat), NEW c \in Nat, NEW g,
           DOMAIN g \subseteq Nat, g \in [DOMAIN g -> [Indices -> PTE]]
    PROVE  [free_list |-> f, free_page_count |-> c, tables |-> g] \in Memory
<1>1. [free_list |-> f, free_page_count |-> c, tables |-> g]
        \in [free_list : Seq(Nat), free_page_count : Nat, tables : [DOMAIN g -> [Indices -> PTE]]]
  OBVIOUS
<1> QED
  BY <1>1 DEF Memory

\* EXCEPT on the record of a memory.
LEMMA MemoryExcept ==
    ASSUME NEW f, NEW c, NEW g, NEW f2, NEW c2, NEW g2,
           NEW m, m = [free_list |-> f, free_page_count |-> c, tables |-> g]
    PROVE  /\ [m EXCEPT !.free_list = f2, !.free_page_count = c2]
                = [free_list |-> f2, free_page_count |-> c2, tables |-> g]
           /\ [m EXCEPT !.tables = g2] = [free_list |-> f, free_page_count |-> c, tables |-> g2]
<1>1. [m EXCEPT !.free_list = f2, !.free_page_count = c2]
        = [[m EXCEPT !.free_list = f2] EXCEPT !.free_page_count = c2]
  <2>1. ASSUME NEW r
        PROVE  [r EXCEPT !.free_list = f2, !.free_page_count = c2]
                 = [[r EXCEPT !.free_list = f2] EXCEPT !.free_page_count = c2]
    OBVIOUS
  <2> QED
    BY <2>1
<1>2. [m EXCEPT !.free_list = f2] = [free_list |-> f2, free_page_count |-> c, tables |-> g]
  OBVIOUS
<1>3. [[free_list |-> f2, free_page_count |-> c, tables |-> g] EXCEPT !.free_page_count = c2]
        = [free_list |-> f2, free_page_count |-> c2, tables |-> g]
  OBVIOUS
<1>4. [m EXCEPT !.tables = g2] = [free_list |-> f, free_page_count |-> c, tables |-> g2]
  OBVIOUS
<1> QED
  BY <1>1, <1>2, <1>3, <1>4

LEMMA AllocOf ==
    ASSUME NEW m \in Memory
    PROVE  page_alloc(m) = [free_list |-> Tail(m.free_list),
                            free_page_count |-> m.free_page_count - 1, tables |-> m.tables]
<1> DEFINE f2 == Tail(m.free_list)
           c2 == m.free_page_count - 1
<1>1. page_alloc(m) = [m EXCEPT !.free_list = f2, !.free_page_count = c2]
  BY DEF page_alloc
<1> HIDE DEF f2, c2
<1>2. page_alloc(m) = [free_list |-> f2, free_page_count |-> c2, tables |-> m.tables]
  BY <1>1, MemoryExcept, MemoryParts
<1> QED
  BY <1>2 DEF f2, c2

\* A page handed out leaves the rest as it is.
LEMMA AllocFacts ==
    ASSUME NEW m \in Memory, ~Full(m), m.free_page_count = Len(m.free_list)
    PROVE  /\ page_alloc(m) \in Memory
           /\ page_alloc(m).free_list = Tail(m.free_list)
           /\ page_alloc(m).free_page_count = m.free_page_count - 1
           /\ page_alloc(m).tables = m.tables
<1>1. /\ m.free_list \in Seq(Nat) /\ m.free_page_count \in Nat
      /\ DOMAIN m.tables \subseteq Nat /\ m.tables \in [DOMAIN m.tables -> [Indices -> PTE]]
  BY MemoryParts
<1> DEFINE f2 == Tail(m.free_list)
           c2 == m.free_page_count - 1
<1>2. f2 \in Seq(Nat) /\ c2 \in Nat
  BY <1>1 DEF Full
<1>3. page_alloc(m) = [free_list |-> f2, free_page_count |-> c2, tables |-> m.tables]
  BY AllocOf
<1> HIDE DEF f2, c2
<1>4. page_alloc(m) \in Memory
  BY <1>1, <1>2, <1>3, MemoryOf
<1>5. /\ page_alloc(m).free_list = f2 /\ page_alloc(m).free_page_count = c2
      /\ page_alloc(m).tables = m.tables
  BY <1>3
<1> QED
  BY <1>4, <1>5 DEF f2, c2

\* What an entry is after one was written.
WriteEntry(m, t, i, e) == [m EXCEPT !.tables[t][i] = e]

LEMMA WriteFacts ==
    ASSUME NEW m \in Memory, NEW t \in DOMAIN m.tables, NEW i \in Indices, NEW e \in PTE
    PROVE  LET m2 == WriteEntry(m, t, i, e)
           IN  /\ m2 \in Memory
               /\ m2.free_list = m.free_list /\ m2.free_page_count = m.free_page_count
               /\ DOMAIN m2.tables = DOMAIN m.tables
               /\ \A u \in DOMAIN m.tables, j \in Indices :
                     m2.tables[u][j] = IF u = t /\ j = i THEN e ELSE m.tables[u][j]
<1> DEFINE m2 == WriteEntry(m, t, i, e)
           g == [m.tables EXCEPT ![t][i] = e]
<1>1. /\ m = [free_list |-> m.free_list, free_page_count |-> m.free_page_count, tables |-> m.tables]
      /\ m.free_list \in Seq(Nat) /\ m.free_page_count \in Nat
      /\ DOMAIN m.tables \subseteq Nat /\ m.tables \in [DOMAIN m.tables -> [Indices -> PTE]]
  BY MemoryParts
<1>2. m2 = [free_list |-> m.free_list, free_page_count |-> m.free_page_count, tables |-> g]
  <2>1. m2 = [m EXCEPT !.tables = g]
    BY DEF WriteEntry
  <2> HIDE DEF g, m2
  <2> QED
    BY <1>1, <2>1, MemoryExcept
<1>3. g \in [DOMAIN m.tables -> [Indices -> PTE]]
  BY <1>1
<1>4. \A u \in DOMAIN m.tables, j \in Indices :
         g[u][j] = IF u = t /\ j = i THEN e ELSE m.tables[u][j]
  BY <1>1
<1> HIDE DEF g, m2
<1>5. m2 \in Memory
  BY <1>1, <1>2, <1>3, MemoryOf
<1>6. m2.free_list = m.free_list /\ m2.free_page_count = m.free_page_count /\ m2.tables = g
  BY <1>2
<1> QED
  BY <1>3, <1>4, <1>5, <1>6 DEF m2

\* A zeroed table among the others.
WithTable(m, p) == [q \in DOMAIN m.tables \cup {p} |-> IF q = p THEN ZeroTable ELSE m.tables[q]]

\* What the entries are after a table was made and an entry refers to it.
LEMMA NewTableFacts ==
    ASSUME NEW m \in Memory, ~Full(m), m.free_page_count = Len(m.free_list),
           NEW t \in DOMAIN m.tables, NEW i \in Indices,
           NEW p, p = Head(m.free_list), p \notin DOMAIN m.tables
    PROVE  LET m2 == NewTable(m, t, i)
           IN  /\ m2 \in Memory /\ p \in Nat
               /\ m2.free_list = Tail(m.free_list) /\ m2.free_page_count = m.free_page_count - 1
               /\ DOMAIN m2.tables = DOMAIN m.tables \cup {p}
               /\ \A j \in Indices : m2.tables[p][j] = Invalid
               /\ \A u \in DOMAIN m.tables, j \in Indices :
                     m2.tables[u][j] = IF u = t /\ j = i THEN [pa |-> p, flags |-> {"V"}]
                                       ELSE m.tables[u][j]
<1> DEFINE a == page_alloc(m)
           e == [pa |-> p, flags |-> {"V"}]
           z == [a EXCEPT !.tables = WithTable(m, p)]
           m2 == NewTable(m, t, i)
<1>1. /\ a \in Memory /\ a.free_list = Tail(m.free_list)
      /\ a.free_page_count = m.free_page_count - 1 /\ a.tables = m.tables
  BY AllocFacts
<1>2. /\ a = [free_list |-> a.free_list, free_page_count |-> a.free_page_count, tables |-> a.tables]
      /\ a.free_list \in Seq(Nat) /\ a.free_page_count \in Nat
      /\ DOMAIN m.tables \subseteq Nat /\ m.tables \in [DOMAIN m.tables -> [Indices -> PTE]]
  BY <1>1, MemoryParts
<1>3. p \in Nat
  BY MemoryParts DEF Full
<1>4. Invalid \in PTE /\ e \in PTE
  BY <1>3 DEF Invalid, PTE, Flags
<1>5. WithTable(m, p) \in [DOMAIN m.tables \cup {p} -> [Indices -> PTE]]
  BY <1>2, <1>4 DEF WithTable, ZeroTable
<1> HIDE DEF a
<1>6. z = [free_list |-> a.free_list, free_page_count |-> a.free_page_count,
           tables |-> WithTable(m, p)]
  BY <1>2
<1>7. DOMAIN m.tables \cup {p} \subseteq Nat
  BY <1>2, <1>3
<1>8. DOMAIN WithTable(m, p) = DOMAIN m.tables \cup {p}
  BY DEF WithTable
<1>9. z \in Memory
  BY <1>2, <1>5, <1>6, <1>7, MemoryOf
<1>10. m2 = WriteEntry(z, t, i, e)
  <2>1. m2 = [a EXCEPT !.tables = [WithTable(m, p) EXCEPT ![t][i] = e]]
    BY DEF NewTable, WithTable, a
  <2> QED
    BY <2>1, <1>2, <1>6 DEF WriteEntry
<1>11. z.tables = WithTable(m, p) /\ z.free_list = a.free_list
       /\ z.free_page_count = a.free_page_count
  BY <1>6
<1>12. t \in DOMAIN z.tables
  BY <1>8, <1>11
<1> HIDE DEF m2, z, e
<1> USE DEF m2
<1>13. LET w == WriteEntry(z, t, i, e)
       IN  /\ w \in Memory
           /\ w.free_list = z.free_list /\ w.free_page_count = z.free_page_count
           /\ DOMAIN w.tables = DOMAIN z.tables
           /\ \A u \in DOMAIN z.tables, j \in Indices :
                 w.tables[u][j] = IF u = t /\ j = i THEN e ELSE z.tables[u][j]
  BY <1>4, <1>9, <1>12, WriteFacts
<1>14. /\ \A j \in Indices : z.tables[p][j] = Invalid
       /\ \A u \in DOMAIN m.tables, j \in Indices : z.tables[u][j] = m.tables[u][j]
  BY <1>11 DEF WithTable, ZeroTable
<1>15. NewTable(m, t, i) = WriteEntry(z, t, i, e)
  BY <1>10
<1>16. p # t /\ p \in DOMAIN z.tables
  BY <1>8, <1>11
<1>17. DOMAIN z.tables = DOMAIN m.tables \cup {p}
  BY <1>8, <1>11
<1> DEFINE w == WriteEntry(z, t, i, e)
<1> HIDE DEF m2, w
<1>18. /\ w \in Memory /\ p \in Nat
       /\ w.free_list = Tail(m.free_list) /\ w.free_page_count = m.free_page_count - 1
       /\ DOMAIN w.tables = DOMAIN m.tables \cup {p}
  BY <1>1, <1>3, <1>11, <1>13, <1>17 DEF w
<1>19. \A j \in Indices : w.tables[p][j] = Invalid
  BY <1>13, <1>14, <1>16 DEF w
<1>20. \A u \in DOMAIN m.tables, j \in Indices :
         w.tables[u][j] = IF u = t /\ j = i THEN e ELSE m.tables[u][j]
  BY <1>13, <1>14, <1>17 DEF w
<1> QED
  BY <1>15, <1>18, <1>19, <1>20 DEF e, w

\* Every table has a level: 2 for the roots R.  Only a table of level 0 has leaves, and
\* it has no other entries; the entries of the others each refer to a table of its own,
\* one level down, and every table but a root is referred to.
Levelled(m, R, lv) ==
    /\ lv \in [DOMAIN m.tables -> {0, 1, 2}]
    /\ R = {t \in DOMAIN m.tables : lv[t] = 2}
    /\ \A t \in DOMAIN m.tables, i \in Indices :
          ~Valid(m.tables[t][i]) => m.tables[t][i] = Invalid
    /\ \A t \in DOMAIN m.tables, i \in Indices :
          Valid(m.tables[t][i]) /\ lv[t] = 0 => Leaf(m.tables[t][i])
    /\ \A t \in DOMAIN m.tables, i \in Indices :
          Valid(m.tables[t][i]) /\ lv[t] # 0 =>
             /\ ~Leaf(m.tables[t][i])
             /\ m.tables[t][i].pa \in DOMAIN m.tables
             /\ lv[m.tables[t][i].pa] = lv[t] - 1
    /\ \A u \in DOMAIN m.tables : lv[u] # 2 =>
          \E t \in DOMAIN m.tables, i \in Indices :
             lv[t] # 0 /\ Valid(m.tables[t][i]) /\ m.tables[t][i].pa = u
    /\ \A t, u \in DOMAIN m.tables, i, j \in Indices :
          /\ lv[t] # 0 /\ Valid(m.tables[t][i])
          /\ lv[u] # 0 /\ Valid(m.tables[u][j])
          /\ m.tables[t][i].pa = m.tables[u][j].pa
          => t = u /\ i = j

\* The levels with the table p one below the table t.
LevelsWith(lv, p, t) == [q \in DOMAIN lv \cup {p} |-> IF q = p THEN lv[t] - 1 ELSE lv[q]]

LEMMA InvalidFlags == ~Valid(Invalid) /\ ~Leaf(Invalid) /\ Invalid \in PTE
  BY DEF Invalid, Valid, Leaf, PTE, Flags

\* What the walks see of the memory m2: that of m with a table p that t's entry i,
\* which was invalid, refers to.
Extended(m, m2, p, t, i) ==
    /\ m2 \in Memory /\ p \in Nat
    /\ DOMAIN m2.tables = DOMAIN m.tables \cup {p}
    /\ \A j \in Indices : m2.tables[p][j] = Invalid
    /\ \A u \in DOMAIN m.tables, j \in Indices :
          m2.tables[u][j] = IF u = t /\ j = i THEN [pa |-> p, flags |-> {"V"}]
                            ELSE m.tables[u][j]

LEMMA ExtendedLevels ==
    ASSUME NEW m \in Memory, NEW R, NEW lv, Levelled(m, R, lv),
           NEW t \in DOMAIN m.tables, lv[t] # 0, NEW i \in Indices, ~Valid(m.tables[t][i]),
           NEW p, p \notin DOMAIN m.tables, NEW m2, Extended(m, m2, p, t, i)
    PROVE  Levelled(m2, R, LevelsWith(lv, p, t))
<1> DEFINE lv2 == LevelsWith(lv, p, t)
           e == [pa |-> p, flags |-> {"V"}]
           D == DOMAIN m.tables
<1>1. lv \in [D -> {0, 1, 2}] /\ R = {u \in D : lv[u] = 2}
  BY DEF Levelled
<1>2. /\ lv2 \in [D \cup {p} -> {0, 1, 2}]
      /\ lv2[p] = lv[t] - 1
      /\ \A u \in D : lv2[u] = lv[u]
  BY <1>1 DEF LevelsWith
<1>3. Valid(e) /\ ~Leaf(e) /\ e.pa = p
  BY DEF Valid, Leaf
<1>4. /\ DOMAIN m2.tables = D \cup {p}
      /\ \A j \in Indices : m2.tables[p][j] = Invalid
      /\ \A u \in D, j \in Indices :
            m2.tables[u][j] = IF u = t /\ j = i THEN e ELSE m.tables[u][j]
  BY DEF Extended
<1>5. ~Valid(Invalid) /\ ~Leaf(Invalid)
  BY InvalidFlags
<1>6. m2.tables[t][i] = e /\ p # t
  BY <1>4
<1> HIDE DEF lv2, e, D
<1>7. R = {u \in D \cup {p} : lv2[u] = 2}
  <2>1. lv2[p] # 2
    BY <1>1, <1>2 DEF D
  <2> QED
    BY <1>1, <1>2, <2>1
<1>8. \A u \in D \cup {p}, j \in Indices : ~Valid(m2.tables[u][j]) => m2.tables[u][j] = Invalid
  BY <1>3, <1>4 DEF Levelled, D
<1>9. \A u \in D \cup {p}, j \in Indices :
        Valid(m2.tables[u][j]) /\ lv2[u] = 0 => Leaf(m2.tables[u][j])
  BY <1>2, <1>4, <1>5 DEF Levelled, D
<1>10. \A u \in D \cup {p}, j \in Indices :
        Valid(m2.tables[u][j]) /\ lv2[u] # 0 =>
             /\ ~Leaf(m2.tables[u][j])
             /\ m2.tables[u][j].pa \in D \cup {p}
             /\ lv2[m2.tables[u][j].pa] = lv2[u] - 1
  BY <1>2, <1>3, <1>4, <1>5 DEF Levelled, D
<1>11. ASSUME NEW u \in D \cup {p}, lv2[u] # 2
       PROVE  \E w \in D \cup {p}, j \in Indices :
                 lv2[w] # 0 /\ Valid(m2.tables[w][j]) /\ m2.tables[w][j].pa = u
  <2>1. CASE u = p
    BY <2>1, <1>2, <1>3, <1>6 DEF D
  <2>2. CASE u \in D
    <3>1. lv[u] # 2
      BY <2>2, <1>11, <1>2
    <3>2. PICK w \in D, j \in Indices :
              lv[w] # 0 /\ Valid(m.tables[w][j]) /\ m.tables[w][j].pa = u
      BY <2>2, <3>1 DEF Levelled, D
    <3>3. m2.tables[w][j] = m.tables[w][j] /\ lv2[w] # 0
      BY <3>2, <1>2, <1>4
    <3> QED
      BY <3>2, <3>3
  <2> QED
    BY <2>1, <2>2
<1>12. ASSUME NEW u \in D \cup {p}, NEW w \in D \cup {p}, NEW j \in Indices, NEW k \in Indices,
              lv2[u] # 0, Valid(m2.tables[u][j]), lv2[w] # 0, Valid(m2.tables[w][k]),
              m2.tables[u][j].pa = m2.tables[w][k].pa
       PROVE  u = w /\ j = k
  <2>1. u \in D /\ w \in D
    BY <1>4, <1>5, <1>12
  <2>2. \A x \in D, l \in Indices : lv[x] # 0 /\ Valid(m.tables[x][l]) => m.tables[x][l].pa # p
    BY DEF Levelled, D
  <2>3. CASE u = t /\ j = i
    BY <2>1, <2>2, <2>3, <1>2, <1>3, <1>4, <1>12
  <2>4. CASE w = t /\ k = i
    BY <2>1, <2>2, <2>4, <1>2, <1>3, <1>4, <1>12
  <2>5. CASE ~(u = t /\ j = i) /\ ~(w = t /\ k = i)
    <3>1. m2.tables[u][j] = m.tables[u][j] /\ m2.tables[w][k] = m.tables[w][k]
          /\ lv[u] # 0 /\ lv[w] # 0
      BY <2>1, <2>5, <1>2, <1>4, <1>12
    <3> QED
      BY <3>1, <2>1, <1>12 DEF Levelled, D
  <2> QED
    BY <2>3, <2>4, <2>5
<1> QED
  BY <1>2, <1>4, <1>7, <1>8, <1>9, <1>10, <1>11, <1>12 DEF Levelled, lv2, D

-----------------------------------------------------------------------------
(* What a walk finds. *)

\* Entry(r, v) in the memory m.
Lookup(m, r, v) ==
    LET upper == m.tables[r][VPN_INDEX(v, 2)]
        lower == m.tables[upper.pa][VPN_INDEX(v, 1)]
    IN  IF ~Valid(upper) \/ Leaf(upper) THEN Invalid
        ELSE IF ~Valid(lower) \/ Leaf(lower) THEN Invalid
        ELSE m.tables[lower.pa][VPN_INDEX(v, 0)]

LEMMA EntryLookup == \A r, v : Entry(r, v) = Lookup(mem, r, v)
  BY DEF Entry, Lookup

\* The walk for v from r ends in the table t.
Reaches(m, r, v, t) ==
    LET upper == m.tables[r][VPN_INDEX(v, 2)]
        lower == m.tables[upper.pa][VPN_INDEX(v, 1)]
    IN  Valid(upper) /\ Valid(lower) /\ lower.pa = t

\* A walk passes a table of each level.
LEMMA ReachesFacts ==
    ASSUME NEW m \in Memory, NEW R, NEW lv, Levelled(m, R, lv),
           NEW r \in R, NEW v \in VirtualPages, NEW t, Reaches(m, r, v, t)
    PROVE  /\ r \in DOMAIN m.tables /\ lv[r] = 2
           /\ m.tables[r][VPN_INDEX(v, 2)].pa \in DOMAIN m.tables
           /\ lv[m.tables[r][VPN_INDEX(v, 2)].pa] = 1
           /\ t \in DOMAIN m.tables /\ lv[t] = 0
           /\ Lookup(m, r, v) = m.tables[t][VPN_INDEX(v, 0)]
<1> DEFINE D == DOMAIN m.tables
           upper == m.tables[r][VPN_INDEX(v, 2)]
           lower == m.tables[upper.pa][VPN_INDEX(v, 1)]
<1>1. r \in D /\ lv[r] = 2
  BY DEF Levelled
<1>2. VPN_INDEX(v, 0) \in Indices /\ VPN_INDEX(v, 1) \in Indices /\ VPN_INDEX(v, 2) \in Indices
  BY VpnType
<1>3. Valid(upper) /\ Valid(lower) /\ lower.pa = t
  BY DEF Reaches
<1>4. \A u \in D, i \in Indices :
          Valid(m.tables[u][i]) /\ lv[u] # 0 =>
             /\ ~Leaf(m.tables[u][i])
             /\ m.tables[u][i].pa \in DOMAIN m.tables
             /\ lv[m.tables[u][i].pa] = lv[u] - 1
  BY DEF Levelled
<1>5. ~Leaf(upper) /\ upper.pa \in D /\ lv[upper.pa] = 1
  BY <1>1, <1>2, <1>3, <1>4
<1>6. ~Leaf(lower) /\ lower.pa \in D /\ lv[lower.pa] = 0
  BY <1>2, <1>3, <1>4, <1>5
<1> QED
  BY <1>1, <1>3, <1>5, <1>6 DEF Lookup

\* A walk that ends in no table finds nothing.
LEMMA NotReached ==
    ASSUME NEW m \in Memory, NEW r, NEW v, \A t : ~Reaches(m, r, v, t)
    PROVE  Lookup(m, r, v) = Invalid
  BY DEF Lookup, Reaches

\* Two walks end at the same entry only if they are the same walk.
LEMMA ReachesOnce ==
    ASSUME NEW m \in Memory, NEW R, NEW lv, Levelled(m, R, lv),
           NEW r \in R, NEW v \in VirtualPages, NEW s \in R, NEW u \in VirtualPages,
           NEW t, Reaches(m, r, v, t), Reaches(m, s, u, t)
    PROVE  /\ r = s
           /\ VPN_INDEX(v, 0) = VPN_INDEX(u, 0) => v = u
<1> DEFINE D == DOMAIN m.tables
           a == m.tables[r][VPN_INDEX(v, 2)].pa
           b == m.tables[s][VPN_INDEX(u, 2)].pa
<1>1. /\ r \in D /\ s \in D /\ a \in D /\ b \in D
      /\ lv[r] = 2 /\ lv[s] = 2 /\ lv[a] = 1 /\ lv[b] = 1
  BY ReachesFacts
<1>2. /\ VPN_INDEX(v, 1) \in Indices /\ VPN_INDEX(v, 2) \in Indices
      /\ VPN_INDEX(u, 1) \in Indices /\ VPN_INDEX(u, 2) \in Indices
  BY VpnType
<1>3. /\ Valid(m.tables[r][VPN_INDEX(v, 2)]) /\ Valid(m.tables[s][VPN_INDEX(u, 2)])
      /\ Valid(m.tables[a][VPN_INDEX(v, 1)]) /\ Valid(m.tables[b][VPN_INDEX(u, 1)])
      /\ m.tables[a][VPN_INDEX(v, 1)].pa = m.tables[b][VPN_INDEX(u, 1)].pa
  BY DEF Reaches
<1>4. \A x, y \in DOMAIN m.tables, i, j \in Indices :
          /\ lv[x] # 0 /\ Valid(m.tables[x][i])
          /\ lv[y] # 0 /\ Valid(m.tables[y][j])
          /\ m.tables[x][i].pa = m.tables[y][j].pa
          => x = y /\ i = j
  BY DEF Levelled
<1>5. a = b /\ VPN_INDEX(v, 1) = VPN_INDEX(u, 1)
  <2> HIDE DEF a, b
  <2> QED
    BY <1>1, <1>2, <1>3, <1>4
<1>6. r = s /\ VPN_INDEX(v, 2) = VPN_INDEX(u, 2)
  <2>1. m.tables[r][VPN_INDEX(v, 2)].pa = m.tables[s][VPN_INDEX(u, 2)].pa
    BY <1>5
  <2> HIDE DEF a, b
  <2>2. /\ r \in D /\ s \in D /\ lv[r] # 0 /\ lv[s] # 0
        /\ Valid(m.tables[r][VPN_INDEX(v, 2)]) /\ Valid(m.tables[s][VPN_INDEX(u, 2)])
    BY <1>1, <1>3
  <2> QED
    BY <2>1, <2>2, <1>2, <1>4
<1> QED
  BY <1>5, <1>6, VpnInjective

\* A new table maps nothing.
LEMMA ExtendedLookup ==
    ASSUME NEW m \in Memory, NEW R, NEW lv, Levelled(m, R, lv),
           NEW t \in DOMAIN m.tables, lv[t] # 0, NEW i \in Indices, ~Valid(m.tables[t][i]),
           NEW p, p \notin DOMAIN m.tables, NEW m2, Extended(m, m2, p, t, i),
           NEW r \in R, NEW v \in VirtualPages
    PROVE  Lookup(m2, r, v) = Lookup(m, r, v)
<1> DEFINE D == DOMAIN m.tables
           e == [pa |-> p, flags |-> {"V"}]
<1>1. VPN_INDEX(v, 0) \in Indices /\ VPN_INDEX(v, 1) \in Indices /\ VPN_INDEX(v, 2) \in Indices
  BY VpnType
<1>2. /\ \A j \in Indices : m2.tables[p][j] = Invalid
      /\ \A u \in D, j \in Indices :
            m2.tables[u][j] = IF u = t /\ j = i THEN e ELSE m.tables[u][j]
  BY DEF Extended
<1>3. Valid(e) /\ ~Leaf(e) /\ e.pa = p /\ ~Valid(Invalid)
  BY InvalidFlags DEF Valid, Leaf
<1>4. r \in D /\ lv[r] = 2
  BY DEF Levelled
<1> HIDE DEF e
<1>5. CASE \E b : Reaches(m, r, v, b)
  <2>1. PICK b : Reaches(m, r, v, b)
    BY <1>5
  <2> DEFINE a == m.tables[r][VPN_INDEX(v, 2)].pa
  <2>2. /\ a \in D /\ lv[a] = 1 /\ b \in D /\ lv[b] = 0
        /\ Lookup(m, r, v) = m.tables[b][VPN_INDEX(v, 0)]
    BY <2>1, ReachesFacts
  <2>3. /\ Valid(m.tables[r][VPN_INDEX(v, 2)]) /\ Valid(m.tables[a][VPN_INDEX(v, 1)])
        /\ m.tables[a][VPN_INDEX(v, 1)].pa = b
    BY <2>1 DEF Reaches
  <2>4. /\ ~Leaf(m.tables[r][VPN_INDEX(v, 2)]) /\ ~Leaf(m.tables[a][VPN_INDEX(v, 1)])
    <3>1. \A u \in D, j \in Indices :
             Valid(m.tables[u][j]) /\ lv[u] # 0 => ~Leaf(m.tables[u][j])
      BY DEF Levelled
    <3> QED
      BY <3>1, <2>2, <2>3, <1>1, <1>4
  <2>5. /\ m2.tables[r][VPN_INDEX(v, 2)] = m.tables[r][VPN_INDEX(v, 2)]
        /\ m2.tables[a][VPN_INDEX(v, 1)] = m.tables[a][VPN_INDEX(v, 1)]
        /\ m2.tables[b][VPN_INDEX(v, 0)] = m.tables[b][VPN_INDEX(v, 0)]
    BY <1>1, <1>2, <1>4, <2>2, <2>3
  <2> QED
    BY <2>2, <2>3, <2>4, <2>5 DEF Lookup
<1>6. CASE \A b : ~Reaches(m, r, v, b)
  <2>1. Lookup(m, r, v) = Invalid
    BY <1>6, NotReached
  <2> DEFINE upper == m.tables[r][VPN_INDEX(v, 2)]
             upper2 == m2.tables[r][VPN_INDEX(v, 2)]
  <2>2. CASE ~Valid(upper)
    <3>1. upper2 = e \/ upper2 = upper
      BY <1>1, <1>2, <1>4
    <3>2. CASE upper2 = e
      <4>1. m2.tables[upper2.pa][VPN_INDEX(v, 1)] = Invalid
        BY <3>2, <1>1, <1>2, <1>3
      <4> QED
        BY <4>1, <2>1, <3>2, <1>3 DEF Lookup
    <3>3. CASE upper2 = upper
      BY <2>1, <2>2, <3>3 DEF Lookup
    <3> QED
      BY <3>1, <3>2, <3>3
  <2>3. CASE Valid(upper)
    <3>1. upper2 = upper /\ ~Leaf(upper) /\ upper.pa \in D /\ lv[upper.pa] = 1
      BY <2>3, <1>1, <1>2, <1>4 DEF Levelled
    <3> DEFINE lower == m.tables[upper.pa][VPN_INDEX(v, 1)]
               lower2 == m2.tables[upper.pa][VPN_INDEX(v, 1)]
    <3>2. ~Valid(lower)
      BY <2>3, <1>6 DEF Reaches
    <3>3. lower2 = e \/ lower2 = lower
      BY <3>1, <1>1, <1>2
    <3>4. CASE lower2 = e
      <4>1. m2.tables[lower2.pa][VPN_INDEX(v, 0)] = Invalid
        BY <3>4, <1>1, <1>2, <1>3
      <4> QED
        BY <4>1, <2>1, <3>1, <3>4, <1>3 DEF Lookup
    <3>5. CASE lower2 = lower
      BY <2>1, <3>1, <3>2, <3>5 DEF Lookup
    <3> QED
      BY <3>3, <3>4, <3>5
  <2> QED
    BY <2>2, <2>3
<1> QED
  BY <1>5, <1>6

-----------------------------------------------------------------------------
(* The pages of memory. *)

\* The pages ram are on the free list, or tables, or the pages F, each once.
PagesOf(m, F, ram) ==
    /\ \A j, k \in 1 .. Len(m.free_list) : m.free_list[j] = m.free_list[k] => j = k
    /\ \A k \in 1 .. Len(m.free_list) :
          m.free_list[k] \in ram /\ m.free_list[k] \notin DOMAIN m.tables /\ m.free_list[k] \notin F
    /\ \A p \in ram : p \in DOMAIN m.tables \/ p \in F \/ \E k \in 1 .. Len(m.free_list) : m.free_list[k] = p
    /\ DOMAIN m.tables \subseteq ram /\ F \subseteq ram
    /\ DOMAIN m.tables \cap F = {}
    /\ m.free_page_count = Len(m.free_list)

\* The first page of the list is nothing else, and becomes a table or one of F.
LEMMA PageTaken ==
    ASSUME NEW m \in Memory, NEW F, NEW ram, PagesOf(m, F, ram), ~Full(m),
           NEW p, p = Head(m.free_list),
           NEW m2 \in Memory, NEW F2,
           m2.free_list = Tail(m.free_list), m2.free_page_count = m.free_page_count - 1,
           \/ DOMAIN m2.tables = DOMAIN m.tables \cup {p} /\ F2 = F
           \/ DOMAIN m2.tables = DOMAIN m.tables /\ F2 = F \cup {p}
    PROVE  /\ p \in ram /\ p \notin DOMAIN m.tables /\ p \notin F
           /\ PagesOf(m2, F2, ram)
<1> DEFINE f == m.free_list
           g == Tail(f)
<1>1. f \in Seq(Nat) /\ f # <<>>
  BY MemoryParts DEF Full
<1>2. /\ Len(f) \in Nat \ {0} /\ Len(g) = Len(f) - 1 /\ p = f[1]
      /\ \A k \in 1 .. Len(g) : g[k] = f[k + 1]
  BY <1>1
<1>3. m2.free_list = g
  OBVIOUS
<1> HIDE DEF f, g
<1>4. /\ \A j, k \in 1 .. Len(f) : f[j] = f[k] => j = k
      /\ \A k \in 1 .. Len(f) : f[k] \in ram /\ f[k] \notin DOMAIN m.tables /\ f[k] \notin F
      /\ \A q \in ram : q \in DOMAIN m.tables \/ q \in F \/ \E k \in 1 .. Len(f) : f[k] = q
      /\ DOMAIN m.tables \subseteq ram /\ F \subseteq ram
      /\ DOMAIN m.tables \cap F = {}
      /\ m.free_page_count = Len(f)
  BY DEF PagesOf, f
<1>5. p \in ram /\ p \notin DOMAIN m.tables /\ p \notin F
  BY <1>2, <1>4
<1>6. \A j, k \in 1 .. Len(g) : g[j] = g[k] => j = k
  <2> SUFFICES ASSUME NEW j \in 1 .. Len(g), NEW k \in 1 .. Len(g), g[j] = g[k]
               PROVE  j = k
    OBVIOUS
  <2>1. j + 1 \in 1 .. Len(f) /\ k + 1 \in 1 .. Len(f) /\ f[j + 1] = f[k + 1]
    BY <1>2
  <2>2. j + 1 = k + 1
    BY <2>1, <1>4
  <2> QED
    BY <2>2
<1>7. \A k \in 1 .. Len(g) : g[k] \in ram /\ g[k] \notin DOMAIN m.tables /\ g[k] \notin F /\ g[k] # p
  <2> SUFFICES ASSUME NEW k \in 1 .. Len(g)
               PROVE  g[k] \in ram /\ g[k] \notin DOMAIN m.tables /\ g[k] \notin F /\ g[k] # p
    OBVIOUS
  <2>1. k + 1 \in 1 .. Len(f) /\ 1 \in 1 .. Len(f) /\ k + 1 # 1
    BY <1>2
  <2> QED
    BY <2>1, <1>2, <1>4
<1>8. \A q \in ram : q \in DOMAIN m.tables \/ q \in F \/ q = p \/ \E k \in 1 .. Len(g) : g[k] = q
  <2> SUFFICES ASSUME NEW q \in ram, q \notin DOMAIN m.tables, q \notin F, q # p
               PROVE  \E k \in 1 .. Len(g) : g[k] = q
    OBVIOUS
  <2>1. PICK k \in 1 .. Len(f) : f[k] = q
    BY <1>4
  <2>2. k # 1 /\ k - 1 \in 1 .. Len(g) /\ g[k - 1] = q
    BY <2>1, <1>2
  <2> QED
    BY <2>2
<1>9. m2.free_page_count = Len(g)
  BY <1>2, <1>4
<1>10. \A q : q \in DOMAIN m2.tables \/ q \in F2 <=> q \in DOMAIN m.tables \/ q \in F \/ q = p
  OBVIOUS
<1>11. DOMAIN m2.tables \cap F2 = {}
  BY <1>4, <1>5
<1>12. \A k \in 1 .. Len(g) : g[k] \in ram /\ g[k] \notin DOMAIN m2.tables /\ g[k] \notin F2
  BY <1>7, <1>10
<1>13. \A q \in ram : q \in DOMAIN m2.tables \/ q \in F2 \/ \E k \in 1 .. Len(g) : g[k] = q
  BY <1>8, <1>10
<1>14. DOMAIN m2.tables \subseteq ram /\ F2 \subseteq ram
  BY <1>4, <1>5, <1>10
<1>15. PagesOf(m2, F2, ram)
  BY <1>3, <1>6, <1>9, <1>11, <1>12, <1>13, <1>14 DEF PagesOf
<1> QED
  BY <1>5, <1>15

\* The accounts depend on nothing but the list, the tables and F.
LEMMA PagesSame ==
    ASSUME NEW m \in Memory, NEW F, NEW ram, PagesOf(m, F, ram), NEW m2 \in Memory,
           m2.free_list = m.free_list, m2.free_page_count = m.free_page_count,
           DOMAIN m2.tables = DOMAIN m.tables
    PROVE  PagesOf(m2, F, ram)
  BY DEF PagesOf

-----------------------------------------------------------------------------
(* What vm_walk and vm_map_page do. *)

\* The memory m has got tables, in which nothing is mapped, and become m2.
Grown(m, m2, R, lv, lv2) ==
    /\ m2 \in Memory /\ Levelled(m2, R, lv2)
    /\ DOMAIN m.tables \subseteq DOMAIN m2.tables
    /\ \A t \in DOMAIN m.tables : lv2[t] = lv[t]
    /\ \A t \in DOMAIN m.tables, i \in Indices :
          Valid(m.tables[t][i]) => m2.tables[t][i] = m.tables[t][i]
    /\ \A t \in DOMAIN m2.tables, i \in Indices :
          Leaf(m2.tables[t][i]) => t \in DOMAIN m.tables /\ m2.tables[t][i] = m.tables[t][i]
    /\ \A r \in R, v \in VirtualPages : Lookup(m2, r, v) = Lookup(m, r, v)

LEMMA GrownNot ==
    ASSUME NEW m \in Memory, NEW R, NEW lv, Levelled(m, R, lv)
    PROVE  Grown(m, m, R, lv, lv)
  BY DEF Grown

LEMMA GrownTwice ==
    ASSUME NEW m, NEW m2, NEW m3, NEW R, NEW lv, NEW lv2, NEW lv3,
           Grown(m, m2, R, lv, lv2), Grown(m2, m3, R, lv2, lv3)
    PROVE  Grown(m, m3, R, lv, lv3)
<1>1. \A t \in DOMAIN m.tables : lv3[t] = lv[t]
  BY DEF Grown
<1>2. \A t \in DOMAIN m.tables, i \in Indices :
          Valid(m.tables[t][i]) => m3.tables[t][i] = m.tables[t][i]
  BY DEF Grown
<1>3. \A t \in DOMAIN m3.tables, i \in Indices :
          Leaf(m3.tables[t][i]) => t \in DOMAIN m.tables /\ m3.tables[t][i] = m.tables[t][i]
  BY DEF Grown
<1>4. \A r \in R, v \in VirtualPages : Lookup(m3, r, v) = Lookup(m, r, v)
  BY DEF Grown
<1> QED
  BY <1>1, <1>2, <1>3, <1>4 DEF Grown

\* One level of a walk finds a table one level down, or makes it, or memory is full.
LEMMA DescendFacts ==
    ASSUME NEW m \in Memory, NEW R, NEW lv, Levelled(m, R, lv),
           NEW F, NEW ram, PagesOf(m, F, ram),
           NEW t \in DOMAIN m.tables, lv[t] # 0, NEW i \in Indices,
           NEW d, d = Descend(m, t, i)
    PROVE  /\ d.ok \in BOOLEAN
           /\ ~d.ok => Full(d.mem)
           /\ \E lv2 :
                 /\ Grown(m, d.mem, R, lv, lv2)
                 /\ PagesOf(d.mem, F, ram)
                 /\ d.ok => /\ Valid(d.mem.tables[t][i]) /\ d.mem.tables[t][i].pa = d.table
                           /\ d.table \in DOMAIN d.mem.tables /\ lv2[d.table] = lv[t] - 1
<1>1. CASE Valid(m.tables[t][i])
  <2>1. /\ ~Leaf(m.tables[t][i]) /\ m.tables[t][i].pa \in DOMAIN m.tables
        /\ lv[m.tables[t][i].pa] = lv[t] - 1
    BY <1>1 DEF Levelled
  <2>2. d.ok = TRUE /\ d.mem = m /\ d.table = m.tables[t][i].pa
    BY <1>1, <2>1 DEF Descend
  <2> QED
    BY <1>1, <2>1, <2>2, GrownNot
<1>2. CASE ~Valid(m.tables[t][i]) /\ Full(m)
  <2>1. d.ok = FALSE /\ d.mem = m
    BY <1>2 DEF Descend
  <2> QED
    BY <1>2, <2>1, GrownNot
<1>3. CASE ~Valid(m.tables[t][i]) /\ ~Full(m)
  <2> DEFINE p == Head(m.free_list)
             m2 == NewTable(m, t, i)
             lv2 == LevelsWith(lv, p, t)
  <2>1. d.ok = TRUE /\ d.mem = m2 /\ d.table = p
    BY <1>3 DEF Descend
  <2>2. m.free_page_count = Len(m.free_list)
    BY DEF PagesOf
  <2>3. p \notin DOMAIN m.tables
    <3>1. m.free_list \in Seq(Nat) /\ m.free_list # <<>>
      BY <1>3, MemoryParts DEF Full
    <3>2. p = m.free_list[1] /\ 1 \in 1 .. Len(m.free_list)
      BY <3>1
    <3> HIDE DEF p
    <3> QED
      BY <3>2 DEF PagesOf
  <2> HIDE DEF p
  <2>4. /\ m2 \in Memory /\ p \in Nat
        /\ m2.free_list = Tail(m.free_list) /\ m2.free_page_count = m.free_page_count - 1
        /\ DOMAIN m2.tables = DOMAIN m.tables \cup {p}
        /\ \A j \in Indices : m2.tables[p][j] = Invalid
        /\ \A u \in DOMAIN m.tables, j \in Indices :
              m2.tables[u][j] = IF u = t /\ j = i THEN [pa |-> p, flags |-> {"V"}]
                                ELSE m.tables[u][j]
    BY <1>3, <2>2, <2>3, NewTableFacts DEF p
  <2> HIDE DEF m2, lv2
  <2>5. Extended(m, m2, p, t, i)
    BY <2>4 DEF Extended
  <2>6. Levelled(m2, R, lv2)
    BY <1>3, <2>3, <2>5, ExtendedLevels DEF lv2
  <2>7. \A r \in R, v \in VirtualPages : Lookup(m2, r, v) = Lookup(m, r, v)
    BY <1>3, <2>3, <2>5, ExtendedLookup
  <2>8. PagesOf(m2, F, ram)
    BY <1>3, <2>4, PageTaken DEF p
  <2>9. lv2[p] = lv[t] - 1 /\ \A u \in DOMAIN m.tables : lv2[u] = lv[u]
    BY <2>3 DEF lv2, LevelsWith, Levelled
  <2>10. Valid([pa |-> p, flags |-> {"V"}]) /\ ~Leaf([pa |-> p, flags |-> {"V"}]) /\ ~Leaf(Invalid)
    BY InvalidFlags DEF Valid, Leaf
  <2>11. Grown(m, m2, R, lv, lv2)
    <3>1. \A u \in DOMAIN m.tables, j \in Indices :
             Valid(m.tables[u][j]) => m2.tables[u][j] = m.tables[u][j]
      BY <1>3, <2>4
    <3>2. \A u \in DOMAIN m2.tables, j \in Indices :
             Leaf(m2.tables[u][j]) => u \in DOMAIN m.tables /\ m2.tables[u][j] = m.tables[u][j]
      BY <2>4, <2>10
    <3> QED
      BY <2>4, <2>6, <2>7, <2>9, <3>1, <3>2 DEF Grown
  <2>12. m2.tables[t][i] = [pa |-> p, flags |-> {"V"}] /\ p \in DOMAIN m2.tables
    BY <2>4
  <2>13. Valid(m2.tables[t][i]) /\ m2.tables[t][i].pa = p
    BY <2>10, <2>12
  <2> QED
    BY <2>1, <2>8, <2>9, <2>11, <2>12, <2>13
<1> QED
  BY <1>1, <1>2, <1>3

\* A walk with allocation ends in a table of level 0, or memory is full.
LEMMA WalkFacts ==
    ASSUME NEW m \in Memory, NEW R, NEW lv, Levelled(m, R, lv),
           NEW F, NEW ram, PagesOf(m, F, ram),
           NEW r \in R, NEW v \in VirtualPages,
           NEW w, w = vm_walk(m, r, v)
    PROVE  /\ w.ok \in BOOLEAN
           /\ ~w.ok => Full(w.mem)
           /\ \E lv2 :
                 /\ Grown(m, w.mem, R, lv, lv2)
                 /\ PagesOf(w.mem, F, ram)
                 /\ w.ok => Reaches(w.mem, r, v, w.table)
<1> DEFINE upper == Descend(m, r, VPN_INDEX(v, 2))
<1>1. VPN_INDEX(v, 0) \in Indices /\ VPN_INDEX(v, 1) \in Indices /\ VPN_INDEX(v, 2) \in Indices
  BY VpnType
<1>2. r \in DOMAIN m.tables /\ lv[r] = 2
  BY DEF Levelled
<1> HIDE DEF upper
<1>3. /\ upper.ok \in BOOLEAN
      /\ ~upper.ok => Full(upper.mem)
      /\ \E lv2 :
            /\ Grown(m, upper.mem, R, lv, lv2)
            /\ PagesOf(upper.mem, F, ram)
            /\ upper.ok => /\ Valid(upper.mem.tables[r][VPN_INDEX(v, 2)])
                          /\ upper.mem.tables[r][VPN_INDEX(v, 2)].pa = upper.table
                          /\ upper.table \in DOMAIN upper.mem.tables
                          /\ lv2[upper.table] = lv[r] - 1
  BY <1>1, <1>2, DescendFacts DEF upper
<1>4. PICK lv2 :
         /\ Grown(m, upper.mem, R, lv, lv2)
         /\ PagesOf(upper.mem, F, ram)
         /\ upper.ok => /\ Valid(upper.mem.tables[r][VPN_INDEX(v, 2)])
                       /\ upper.mem.tables[r][VPN_INDEX(v, 2)].pa = upper.table
                       /\ upper.table \in DOMAIN upper.mem.tables
                       /\ lv2[upper.table] = lv[r] - 1
  BY <1>3
<1>5. CASE ~upper.ok
  <2>1. w = upper
    BY <1>5 DEF vm_walk, upper
  <2> QED
    BY <2>1, <1>3, <1>4, <1>5
<1>6. CASE upper.ok
  <2> DEFINE n == upper.mem
             a == upper.table
  <2>1. w = Descend(n, a, VPN_INDEX(v, 1))
    BY <1>6 DEF vm_walk, upper
  <2>2. /\ n \in Memory /\ Levelled(n, R, lv2) /\ PagesOf(n, F, ram)
        /\ a \in DOMAIN n.tables /\ lv2[a] # 0
    BY <1>2, <1>4, <1>6 DEF Grown
  <2> HIDE DEF n, a
  <2>3. /\ w.ok \in BOOLEAN
        /\ ~w.ok => Full(w.mem)
        /\ \E lv3 :
              /\ Grown(n, w.mem, R, lv2, lv3)
              /\ PagesOf(w.mem, F, ram)
              /\ w.ok => /\ Valid(w.mem.tables[a][VPN_INDEX(v, 1)])
                        /\ w.mem.tables[a][VPN_INDEX(v, 1)].pa = w.table
                        /\ w.table \in DOMAIN w.mem.tables /\ lv3[w.table] = lv2[a] - 1
    BY <1>1, <2>1, <2>2, DescendFacts
  <2>4. PICK lv3 :
              /\ Grown(n, w.mem, R, lv2, lv3)
              /\ PagesOf(w.mem, F, ram)
              /\ w.ok => /\ Valid(w.mem.tables[a][VPN_INDEX(v, 1)])
                        /\ w.mem.tables[a][VPN_INDEX(v, 1)].pa = w.table
    BY <2>3
  <2>5. Grown(m, w.mem, R, lv, lv3)
    BY <1>4, <2>4, GrownTwice DEF n
  <2>6. w.mem.tables[r][VPN_INDEX(v, 2)] = n.tables[r][VPN_INDEX(v, 2)]
    <3>1. r \in DOMAIN n.tables
      BY <2>2 DEF Levelled
    <3>2. Valid(n.tables[r][VPN_INDEX(v, 2)])
      BY <1>4, <1>6 DEF n
    <3> QED
      BY <3>1, <3>2, <2>4, <1>1 DEF Grown
  <2>7. Valid(n.tables[r][VPN_INDEX(v, 2)]) /\ n.tables[r][VPN_INDEX(v, 2)].pa = a
    BY <1>4, <1>6 DEF n, a
  <2>8. ASSUME w.ok
        PROVE  Reaches(w.mem, r, v, w.table)
    BY <2>4, <2>6, <2>7, <2>8 DEF Reaches
  <2> QED
    BY <2>3, <2>4, <2>5, <2>8
<1> QED
  BY <1>3, <1>5, <1>6

\* A leaf written where a walk ends.
LEMMA WriteLevels ==
    ASSUME NEW m \in Memory, NEW R, NEW lv, Levelled(m, R, lv),
           NEW t \in DOMAIN m.tables, lv[t] = 0, NEW i \in Indices,
           NEW e \in PTE, Valid(e), Leaf(e),
           NEW m2, m2 = WriteEntry(m, t, i, e)
    PROVE  Levelled(m2, R, lv)
<1>1. /\ DOMAIN m2.tables = DOMAIN m.tables
      /\ \A u \in DOMAIN m.tables, j \in Indices :
            m2.tables[u][j] = IF u = t /\ j = i THEN e ELSE m.tables[u][j]
  BY WriteFacts
<1>2. \A u \in DOMAIN m.tables, j \in Indices : lv[u] # 0 => m2.tables[u][j] = m.tables[u][j]
  BY <1>1
<1>3. lv \in [DOMAIN m2.tables -> {0, 1, 2}] /\ R = {u \in DOMAIN m2.tables : lv[u] = 2}
  BY <1>1 DEF Levelled
<1>4. \A u \in DOMAIN m.tables, j \in Indices :
          ~Valid(m2.tables[u][j]) => m2.tables[u][j] = Invalid
  BY <1>1 DEF Levelled
<1>5. \A u \in DOMAIN m.tables, j \in Indices :
          Valid(m2.tables[u][j]) /\ lv[u] = 0 => Leaf(m2.tables[u][j])
  BY <1>1 DEF Levelled
<1>6. \A u \in DOMAIN m.tables, j \in Indices :
          Valid(m2.tables[u][j]) /\ lv[u] # 0 =>
             /\ ~Leaf(m2.tables[u][j])
             /\ m2.tables[u][j].pa \in DOMAIN m.tables
             /\ lv[m2.tables[u][j].pa] = lv[u] - 1
  BY <1>2 DEF Levelled
<1>7. \A u \in DOMAIN m.tables : lv[u] # 2 =>
          \E w \in DOMAIN m.tables, j \in Indices :
             lv[w] # 0 /\ Valid(m2.tables[w][j]) /\ m2.tables[w][j].pa = u
  <2> SUFFICES ASSUME NEW u \in DOMAIN m.tables, lv[u] # 2
               PROVE  \E w \in DOMAIN m.tables, j \in Indices :
                         lv[w] # 0 /\ Valid(m2.tables[w][j]) /\ m2.tables[w][j].pa = u
    OBVIOUS
  <2>1. PICK w \in DOMAIN m.tables, j \in Indices :
           lv[w] # 0 /\ Valid(m.tables[w][j]) /\ m.tables[w][j].pa = u
    BY DEF Levelled
  <2> QED
    BY <2>1, <1>2
<1>8. \A u, w \in DOMAIN m.tables, j, k \in Indices :
          /\ lv[u] # 0 /\ Valid(m2.tables[u][j])
          /\ lv[w] # 0 /\ Valid(m2.tables[w][k])
          /\ m2.tables[u][j].pa = m2.tables[w][k].pa
          => u = w /\ j = k
  <2>1. \A u, w \in DOMAIN m.tables, j, k \in Indices :
          /\ lv[u] # 0 /\ Valid(m.tables[u][j])
          /\ lv[w] # 0 /\ Valid(m.tables[w][k])
          /\ m.tables[u][j].pa = m.tables[w][k].pa
          => u = w /\ j = k
    BY DEF Levelled
  <2> QED
    BY <2>1, <1>2
<1> QED
  BY <1>1, <1>3, <1>4, <1>5, <1>6, <1>7, <1>8 DEF Levelled

LEMMA WriteLookup ==
    ASSUME NEW m \in Memory, NEW R, NEW lv, Levelled(m, R, lv),
           NEW r \in R, NEW v \in VirtualPages, NEW t, Reaches(m, r, v, t),
           NEW e \in PTE, Valid(e), Leaf(e),
           NEW m2, m2 = WriteEntry(m, t, VPN_INDEX(v, 0), e),
           NEW s \in R, NEW u \in VirtualPages
    PROVE  Lookup(m2, s, u) = IF s = r /\ u = v THEN e ELSE Lookup(m, s, u)
<1> DEFINE D == DOMAIN m.tables
           i == VPN_INDEX(v, 0)
<1>1. /\ VPN_INDEX(u, 0) \in Indices /\ VPN_INDEX(u, 1) \in Indices /\ VPN_INDEX(u, 2) \in Indices
      /\ i \in Indices
  BY VpnType
<1>2. t \in D /\ lv[t] = 0 /\ s \in D /\ lv[s] = 2
  <2>1. t \in D /\ lv[t] = 0
    BY ReachesFacts
  <2>2. s \in D /\ lv[s] = 2
    BY DEF Levelled
  <2> QED
    BY <2>1, <2>2
<1> HIDE DEF i
<1>3. \A w \in D, j \in Indices :
         m2.tables[w][j] = IF w = t /\ j = i THEN e ELSE m.tables[w][j]
  BY <1>1, <1>2, WriteFacts DEF i
<1>4. \A w \in D, j \in Indices : lv[w] # 0 => m2.tables[w][j] = m.tables[w][j]
  BY <1>2, <1>3
<1>5. \A w \in D, j \in Indices :
         Valid(m.tables[w][j]) /\ lv[w] # 0 => ~Leaf(m.tables[w][j])
  BY DEF Levelled
<1>6. m2.tables[s][VPN_INDEX(u, 2)] = m.tables[s][VPN_INDEX(u, 2)]
  BY <1>1, <1>2, <1>4
<1>7. CASE \E b : Reaches(m, s, u, b)
  <2>1. PICK b : Reaches(m, s, u, b)
    BY <1>7
  <2> DEFINE a == m.tables[s][VPN_INDEX(u, 2)].pa
  <2>2. /\ a \in D /\ lv[a] = 1 /\ b \in D /\ lv[b] = 0
        /\ Lookup(m, s, u) = m.tables[b][VPN_INDEX(u, 0)]
    BY <2>1, ReachesFacts
  <2>3. /\ Valid(m.tables[s][VPN_INDEX(u, 2)]) /\ Valid(m.tables[a][VPN_INDEX(u, 1)])
        /\ m.tables[a][VPN_INDEX(u, 1)].pa = b
    BY <2>1 DEF Reaches
  <2>4. ~Leaf(m.tables[s][VPN_INDEX(u, 2)]) /\ ~Leaf(m.tables[a][VPN_INDEX(u, 1)])
    <3> HIDE DEF a
    <3> QED
      BY <2>2, <2>3, <1>1, <1>2, <1>5
  <2>5. m2.tables[a][VPN_INDEX(u, 1)] = m.tables[a][VPN_INDEX(u, 1)]
    <3> HIDE DEF a
    <3> QED
      BY <2>2, <1>1, <1>4
  <2>6. Lookup(m2, s, u) = m2.tables[b][VPN_INDEX(u, 0)]
    BY <1>6, <2>3, <2>4, <2>5 DEF Lookup
  <2>7. CASE s = r /\ u = v
    <3>1. b = t
      BY <2>7, <2>3 DEF Reaches
    <3>2. m2.tables[b][VPN_INDEX(u, 0)] = e
      BY <3>1, <2>7, <1>1, <1>2, <1>3 DEF i
    <3> QED
      BY <3>2, <2>6, <2>7
  <2>8. CASE ~(s = r /\ u = v)
    <3>1. ~(b = t /\ VPN_INDEX(u, 0) = i)
      BY <2>1, <2>8, ReachesOnce DEF i
    <3>2. m2.tables[b][VPN_INDEX(u, 0)] = m.tables[b][VPN_INDEX(u, 0)]
      BY <3>1, <2>2, <1>1, <1>3
    <3> QED
      BY <3>2, <2>2, <2>6, <2>8
  <2> QED
    BY <2>7, <2>8
<1>8. CASE \A b : ~Reaches(m, s, u, b)
  <2>1. ~(s = r /\ u = v)
    BY <1>8
  <2>2. Lookup(m, s, u) = Invalid
    BY <1>8, NotReached
  <2>3. CASE ~Valid(m.tables[s][VPN_INDEX(u, 2)])
    BY <2>1, <2>2, <2>3, <1>6 DEF Lookup
  <2>4. CASE Valid(m.tables[s][VPN_INDEX(u, 2)])
    <3> DEFINE a == m.tables[s][VPN_INDEX(u, 2)].pa
    <3>1. a \in D /\ lv[a] = 1
      BY <2>4, <1>1, <1>2 DEF Levelled
    <3>2. ~Valid(m.tables[a][VPN_INDEX(u, 1)])
      BY <2>4, <1>8 DEF Reaches
    <3>3. m2.tables[a][VPN_INDEX(u, 1)] = m.tables[a][VPN_INDEX(u, 1)]
      <4> HIDE DEF a
      <4> QED
        BY <3>1, <1>1, <1>4
    <3> QED
      BY <2>1, <2>2, <3>2, <3>3, <1>6 DEF Lookup
  <2> QED
    BY <2>3, <2>4
<1> QED
  BY <1>7, <1>8

\* A memory whose tables have levels, with the roots R, and whose pages have one use.
Sound(m, R, F, ram) ==
    /\ m \in Memory
    /\ PagesOf(m, F, ram)
    /\ \E lv : Levelled(m, R, lv)

\* The leaves of m2 are those of m, but for one at the most.
LeavesKept(m, m2) ==
    \A t \in DOMAIN m2.tables, i \in Indices :
        Leaf(m2.tables[t][i]) => t \in DOMAIN m.tables /\ m2.tables[t][i] = m.tables[t][i]

LeafAdded(m, m2, t, i, e) ==
    /\ t \in DOMAIN m2.tables /\ i \in Indices /\ m2.tables[t][i] = e
    /\ \A u \in DOMAIN m2.tables, j \in Indices :
          \/ u = t /\ j = i
          \/ Leaf(m2.tables[u][j]) => u \in DOMAIN m.tables /\ m2.tables[u][j] = m.tables[u][j]

\* m2 is n with the leaf e at the entry i of the table t, where the walk for v ends.
Written(n, m2, R, F, ram, r, v, t, i, e) ==
    /\ Sound(m2, R, F, ram)
    /\ DOMAIN m2.tables = DOMAIN n.tables
    /\ t \in DOMAIN n.tables /\ i \in Indices
    /\ \A u \in DOMAIN n.tables, j \in Indices :
          m2.tables[u][j] = IF u = t /\ j = i THEN e ELSE n.tables[u][j]
    /\ \A s \in R, u \in VirtualPages :
          Lookup(m2, s, u) = IF s = r /\ u = v THEN e ELSE Lookup(n, s, u)

LEMMA LeafWritten ==
    ASSUME NEW n \in Memory, NEW R, NEW lv, Levelled(n, R, lv), NEW F, NEW ram, PagesOf(n, F, ram),
           NEW r \in R, NEW v \in VirtualPages, NEW t, Reaches(n, r, v, t),
           NEW e \in PTE, Valid(e), Leaf(e)
    PROVE  Written(n, WriteEntry(n, t, VPN_INDEX(v, 0), e), R, F, ram, r, v, t, VPN_INDEX(v, 0), e)
<1> DEFINE i == VPN_INDEX(v, 0)
           m2 == WriteEntry(n, t, i, e)
<1>1. t \in DOMAIN n.tables /\ lv[t] = 0 /\ i \in Indices
  BY ReachesFacts, VpnType
<1>2. \A s \in R, u \in VirtualPages :
         Lookup(m2, s, u) = IF s = r /\ u = v THEN e ELSE Lookup(n, s, u)
  BY WriteLookup
<1> HIDE DEF i
<1>3. /\ m2 \in Memory
      /\ m2.free_list = n.free_list /\ m2.free_page_count = n.free_page_count
      /\ DOMAIN m2.tables = DOMAIN n.tables
      /\ \A u \in DOMAIN n.tables, j \in Indices :
            m2.tables[u][j] = IF u = t /\ j = i THEN e ELSE n.tables[u][j]
  BY <1>1, WriteFacts
<1>4. Levelled(m2, R, lv)
  BY <1>1, WriteLevels
<1> HIDE DEF m2
<1>5. Sound(m2, R, F, ram)
  BY <1>3, <1>4, PagesSame DEF Sound
<1> QED
  BY <1>1, <1>2, <1>3, <1>5 DEF Written, m2, i

\* vm_map_page maps what was not mapped, and fails only when memory is full.
LEMMA MapFacts ==
    ASSUME NEW m, NEW R, NEW F, NEW ram, Sound(m, R, F, ram),
           NEW r \in R, NEW v \in VirtualPages, Lookup(m, r, v) = Invalid,
           NEW pa \in Nat, NEW flags \in SUBSET Flags, flags \cap {"R", "W", "X"} # {},
           NEW w, w = vm_map_page(m, r, v, pa, flags),
           NEW e, e = [pa |-> pa, flags |-> flags \cup {"V"}]
    PROVE  /\ w.ok \in BOOLEAN /\ Sound(w.mem, R, F, ram)
           /\ ~w.ok => /\ Full(w.mem) /\ LeavesKept(m, w.mem)
                      /\ \A s \in R, u \in VirtualPages : Lookup(w.mem, s, u) = Lookup(m, s, u)
           /\ w.ok => /\ \E t, i : LeafAdded(m, w.mem, t, i, e)
                     /\ \A s \in R, u \in VirtualPages :
                           Lookup(w.mem, s, u) = IF s = r /\ u = v THEN e ELSE Lookup(m, s, u)
<1> DEFINE k == vm_walk(m, r, v)
           i == VPN_INDEX(v, 0)
<1>1. PICK lv : m \in Memory /\ PagesOf(m, F, ram) /\ Levelled(m, R, lv)
  BY DEF Sound
<1>2. i \in Indices
  BY VpnType
<1> HIDE DEF k
<1>3. /\ k.ok \in BOOLEAN
      /\ ~k.ok => Full(k.mem)
      /\ \E lv2 :
            /\ Grown(m, k.mem, R, lv, lv2)
            /\ PagesOf(k.mem, F, ram)
            /\ k.ok => Reaches(k.mem, r, v, k.table)
  BY <1>1, WalkFacts DEF k
<1>4. PICK lv2 :
         /\ Grown(m, k.mem, R, lv, lv2)
         /\ PagesOf(k.mem, F, ram)
         /\ k.ok => Reaches(k.mem, r, v, k.table)
  BY <1>3
<1>5. /\ k.mem \in Memory /\ Levelled(k.mem, R, lv2)
      /\ LeavesKept(m, k.mem)
      /\ \A s \in R, u \in VirtualPages : Lookup(k.mem, s, u) = Lookup(m, s, u)
  BY <1>4 DEF Grown, LeavesKept
<1>6. CASE ~k.ok
  <2>1. w.ok = FALSE /\ w.mem = k.mem
    BY <1>6 DEF vm_map_page, k
  <2> QED
    BY <2>1, <1>3, <1>4, <1>5, <1>6 DEF Sound
<1>7. CASE k.ok
  <2> DEFINE n == k.mem
             t == k.table
             m2 == WriteEntry(n, t, i, e)
  <2>1. Reaches(n, r, v, t)
    BY <1>4, <1>7
  <2>2. Lookup(n, r, v) = n.tables[t][i]
    BY <2>1, <1>5, ReachesFacts
  <2>3. ~Valid(n.tables[t][i])
    BY <2>2, <1>5, InvalidFlags
  <2>4. w.ok = TRUE /\ w.mem = m2
    BY <2>3, <1>7 DEF vm_map_page, WriteEntry, k
  <2>5. e \in PTE /\ Valid(e) /\ Leaf(e)
    BY DEF PTE, Valid, Leaf, Flags
  <2>6. n \in Memory /\ Levelled(n, R, lv2) /\ PagesOf(n, F, ram)
    BY <1>4, <1>5
  <2> HIDE DEF n, t
  <2>7. Written(n, m2, R, F, ram, r, v, t, i, e)
    BY <2>1, <2>5, <2>6, LeafWritten
  <2> HIDE DEF i, m2
  <2>8. LeafAdded(m, m2, t, i, e)
    <3>1. \A u \in DOMAIN n.tables, j \in Indices :
             Leaf(n.tables[u][j]) => u \in DOMAIN m.tables /\ n.tables[u][j] = m.tables[u][j]
      BY <1>5 DEF LeavesKept, n
    <3>2. m2.tables[t][i] = e
      BY <2>7 DEF Written
    <3>3. \A u \in DOMAIN m2.tables, j \in Indices :
             \/ u = t /\ j = i
             \/ Leaf(m2.tables[u][j]) => u \in DOMAIN m.tables /\ m2.tables[u][j] = m.tables[u][j]
      BY <3>1, <2>7 DEF Written
    <3>4. t \in DOMAIN m2.tables /\ i \in Indices
      BY <2>7 DEF Written
    <3> QED
      BY <3>2, <3>3, <3>4 DEF LeafAdded
  <2>9. \A s \in R, u \in VirtualPages :
            Lookup(m2, s, u) = IF s = r /\ u = v THEN e ELSE Lookup(m, s, u)
    BY <2>7, <1>5 DEF Written, n
  <2> QED
    BY <2>4, <2>7, <2>8, <2>9 DEF Written
<1> QED
  BY <1>3, <1>6, <1>7

\* m2 is m with the first page of the list as a zeroed table.
WithRoot(m) == [page_alloc(m) EXCEPT !.tables = WithTable(m, Head(m.free_list))]

Rooted(m, m2, p) ==
    /\ m2 \in Memory
    /\ m2.free_list = Tail(m.free_list) /\ m2.free_page_count = m.free_page_count - 1
    /\ DOMAIN m2.tables = DOMAIN m.tables \cup {p}
    /\ \A j \in Indices : m2.tables[p][j] = Invalid
    /\ \A t \in DOMAIN m.tables, j \in Indices : m2.tables[t][j] = m.tables[t][j]

LEMMA RootMemory ==
    ASSUME NEW m \in Memory, ~Full(m), m.free_page_count = Len(m.free_list),
           Head(m.free_list) \notin DOMAIN m.tables
    PROVE  Rooted(m, WithRoot(m), Head(m.free_list))
<1> DEFINE p == Head(m.free_list)
           a == page_alloc(m)
           g == WithTable(m, p)
           m2 == [a EXCEPT !.tables = g]
<1>1. /\ a \in Memory /\ a.free_list = Tail(m.free_list)
      /\ a.free_page_count = m.free_page_count - 1 /\ a.tables = m.tables
  BY AllocFacts
<1>2. p \in Nat
  BY MemoryParts DEF Full
<1> HIDE DEF a
<1>3. /\ g \in [DOMAIN g -> [Indices -> PTE]]
      /\ DOMAIN g = DOMAIN m.tables \cup {p} /\ DOMAIN g \subseteq Nat
      /\ \A j \in Indices : g[p][j] = Invalid
      /\ \A t \in DOMAIN m.tables, j \in Indices : g[t][j] = m.tables[t][j]
  <2>1. m.tables \in [DOMAIN m.tables -> [Indices -> PTE]] /\ DOMAIN m.tables \subseteq Nat
    BY MemoryParts
  <2>2. ZeroTable \in [Indices -> PTE] /\ \A j \in Indices : ZeroTable[j] = Invalid
    BY InvalidFlags DEF ZeroTable
  <2> QED
    BY <2>1, <2>2, <1>2 DEF WithTable
<1> HIDE DEF g
<1>4. /\ a = [free_list |-> a.free_list, free_page_count |-> a.free_page_count, tables |-> a.tables]
      /\ a.free_list \in Seq(Nat) /\ a.free_page_count \in Nat
  BY <1>1, MemoryParts
<1>5. m2 = [free_list |-> a.free_list, free_page_count |-> a.free_page_count, tables |-> g]
  <2> DEFINE f == a.free_list
             c == a.free_page_count
             h == a.tables
  <2>1. a = [free_list |-> f, free_page_count |-> c, tables |-> h]
    BY <1>4
  <2> HIDE DEF f, c, h, m2
  <2>2. [a EXCEPT !.tables = g] = [free_list |-> f, free_page_count |-> c, tables |-> g]
    BY <2>1
  <2> QED
    BY <2>2 DEF f, c, m2
<1> HIDE DEF m2
<1>6. m2 \in Memory
  BY <1>3, <1>4, <1>5, MemoryOf
<1>7. m2.free_list = a.free_list /\ m2.free_page_count = a.free_page_count /\ m2.tables = g
  BY <1>5
<1> QED
  BY <1>1, <1>3, <1>6, <1>7 DEF Rooted, WithRoot, m2, a, g

\* m2 has a root p more than m, in which nothing is mapped.
RootAdded(m, m2, R, p) ==
    /\ \E lv2 : Levelled(m2, R \cup {p}, lv2)
    /\ LeavesKept(m, m2)
    /\ \A v \in VirtualPages :
          /\ Lookup(m2, p, v) = Invalid
          /\ \A s \in R : Lookup(m2, s, v) = Lookup(m, s, v)

\* The levels with a root p.
LEMMA RootLevels ==
    ASSUME NEW m \in Memory, NEW R, NEW lv, Levelled(m, R, lv),
           NEW m2, NEW p, p \notin DOMAIN m.tables, Rooted(m, m2, p)
    PROVE  RootAdded(m, m2, R, p)
<1> DEFINE D == DOMAIN m.tables
           E == DOMAIN m2.tables
           lv2 == [q \in E |-> IF q = p THEN 2 ELSE lv[q]]
<1>10. /\ E = D \cup {p} /\ p \notin D
       /\ \A j \in Indices : m2.tables[p][j] = Invalid
       /\ \A t \in D, j \in Indices : m2.tables[t][j] = m.tables[t][j]
  BY DEF Rooted
<1>9. /\ lv2 \in [E -> {0, 1, 2}] /\ lv2[p] = 2
      /\ \A t \in D : lv2[t] = lv[t]
  <2>1. lv \in [D -> {0, 1, 2}]
    BY DEF Levelled
  <2> QED
    BY <2>1, <1>10
<1>1. Levelled(m, R, lv)
  OBVIOUS
<1> HIDE DEF lv2, E
<1>11. ~Valid(Invalid) /\ ~Leaf(Invalid)
  BY InvalidFlags
<1>12. Levelled(m2, R \cup {p}, lv2)
  <2>1. R \cup {p} = {t \in E : lv2[t] = 2}
    BY <1>1, <1>9, <1>10 DEF Levelled
  <2>2. \A t \in E, i \in Indices :
           ~Valid(m2.tables[t][i]) => m2.tables[t][i] = Invalid
    BY <1>1, <1>10 DEF Levelled
  <2>3. \A t \in E, i \in Indices :
           Valid(m2.tables[t][i]) /\ lv2[t] = 0 => Leaf(m2.tables[t][i])
    BY <1>1, <1>9, <1>10, <1>11 DEF Levelled
  <2>4. \A t \in E, i \in Indices :
           Valid(m2.tables[t][i]) /\ lv2[t] # 0 =>
              /\ ~Leaf(m2.tables[t][i])
              /\ m2.tables[t][i].pa \in E
              /\ lv2[m2.tables[t][i].pa] = lv2[t] - 1
    BY <1>1, <1>9, <1>10, <1>11 DEF Levelled
  <2>5. \A u \in E : lv2[u] # 2 =>
           \E t \in E, i \in Indices :
              lv2[t] # 0 /\ Valid(m2.tables[t][i]) /\ m2.tables[t][i].pa = u
    <3> SUFFICES ASSUME NEW u \in E, lv2[u] # 2
                 PROVE  \E t \in E, i \in Indices :
                           lv2[t] # 0 /\ Valid(m2.tables[t][i]) /\ m2.tables[t][i].pa = u
      OBVIOUS
    <3>1. u \in D /\ lv[u] # 2
      BY <1>9, <1>10
    <3>2. PICK t \in D, i \in Indices :
             lv[t] # 0 /\ Valid(m.tables[t][i]) /\ m.tables[t][i].pa = u
      BY <3>1, <1>1 DEF Levelled
    <3> QED
      BY <3>2, <1>9, <1>10
  <2>6. \A t, u \in E, i, j \in Indices :
          /\ lv2[t] # 0 /\ Valid(m2.tables[t][i])
          /\ lv2[u] # 0 /\ Valid(m2.tables[u][j])
          /\ m2.tables[t][i].pa = m2.tables[u][j].pa
          => t = u /\ i = j
    <3>1. \A t, u \in D, i, j \in Indices :
          /\ lv[t] # 0 /\ Valid(m.tables[t][i])
          /\ lv[u] # 0 /\ Valid(m.tables[u][j])
          /\ m.tables[t][i].pa = m.tables[u][j].pa
          => t = u /\ i = j
      BY <1>1 DEF Levelled
    <3> QED
      BY <3>1, <1>9, <1>10, <1>11
  <2> QED
    BY <2>1, <2>2, <2>3, <2>4, <2>5, <2>6, <1>9 DEF Levelled, E
<1>14. LeavesKept(m, m2)
  BY <1>10, <1>11 DEF LeavesKept, E
<1>15. ASSUME NEW v \in VirtualPages
       PROVE  Lookup(m2, p, v) = Invalid
  <2>1. m2.tables[p][VPN_INDEX(v, 2)] = Invalid
    BY <1>10, VpnType
  <2> QED
    BY <2>1, <1>11 DEF Lookup
<1>16. ASSUME NEW v \in VirtualPages, NEW s \in R
       PROVE  Lookup(m2, s, v) = Lookup(m, s, v)
  <2>1. /\ VPN_INDEX(v, 0) \in Indices /\ VPN_INDEX(v, 1) \in Indices
        /\ VPN_INDEX(v, 2) \in Indices /\ s \in D /\ lv[s] = 2
    BY <1>1, VpnType DEF Levelled
  <2>2. m2.tables[s][VPN_INDEX(v, 2)] = m.tables[s][VPN_INDEX(v, 2)]
    BY <2>1, <1>10
  <2>3. CASE ~Valid(m.tables[s][VPN_INDEX(v, 2)])
    BY <2>2, <2>3 DEF Lookup
  <2>4. CASE Valid(m.tables[s][VPN_INDEX(v, 2)])
    <3> DEFINE b == m.tables[s][VPN_INDEX(v, 2)].pa
    <3>1. b \in D /\ lv[b] = 1
      BY <2>1, <2>4, <1>1 DEF Levelled
    <3> HIDE DEF b
    <3>2. m2.tables[b][VPN_INDEX(v, 1)] = m.tables[b][VPN_INDEX(v, 1)]
      BY <2>1, <3>1, <1>10
    <3>3. CASE ~Valid(m.tables[b][VPN_INDEX(v, 1)])
      BY <2>2, <3>2, <3>3 DEF Lookup, b
    <3>4. CASE Valid(m.tables[b][VPN_INDEX(v, 1)])
      <4>1. m.tables[b][VPN_INDEX(v, 1)].pa \in D
        BY <2>1, <3>1, <3>4, <1>1 DEF Levelled
      <4>2. m2.tables[m.tables[b][VPN_INDEX(v, 1)].pa][VPN_INDEX(v, 0)]
              = m.tables[m.tables[b][VPN_INDEX(v, 1)].pa][VPN_INDEX(v, 0)]
        BY <4>1, <2>1, <1>10
      <4> QED
        BY <2>2, <3>2, <4>2 DEF Lookup, b
    <3> QED
      BY <3>3, <3>4
  <2> QED
    BY <2>3, <2>4
<1> QED
  BY <1>12, <1>14, <1>15, <1>16 DEF RootAdded

\* vm_create makes a root in which nothing is mapped.
LEMMA RootFacts ==
    ASSUME NEW m, NEW R, NEW F, NEW ram, Sound(m, R, F, ram), ~Full(m),
           NEW p, p = Head(m.free_list), NEW m2, m2 = WithRoot(m)
    PROVE  /\ p \in ram /\ p \notin DOMAIN m.tables /\ p \notin R /\ p \notin F
           /\ Sound(m2, R \cup {p}, F, ram)
           /\ LeavesKept(m, m2)
           /\ \A v \in VirtualPages :
                 /\ Lookup(m2, p, v) = Invalid
                 /\ \A s \in R : Lookup(m2, s, v) = Lookup(m, s, v)
<1>1. PICK lv : m \in Memory /\ PagesOf(m, F, ram) /\ Levelled(m, R, lv)
  BY DEF Sound
<1>2. p \in ram /\ p \notin DOMAIN m.tables /\ p \notin F
  <2>1. m.free_list \in Seq(Nat) /\ m.free_list # <<>>
    BY <1>1, MemoryParts DEF Full
  <2>2. Len(m.free_list) \in Nat \ {0} /\ p = m.free_list[1]
    BY <2>1
  <2> QED
    BY <1>1, <2>2 DEF PagesOf
<1>3. p \notin R
  BY <1>1, <1>2 DEF Levelled
<1>4. m.free_page_count = Len(m.free_list)
  BY <1>1 DEF PagesOf
<1>5. Rooted(m, m2, p)
  BY <1>1, <1>2, <1>4, RootMemory
<1>6. PagesOf(m2, F, ram)
  <2>1. \/ DOMAIN m2.tables = DOMAIN m.tables \cup {p} /\ F = F
        \/ DOMAIN m2.tables = DOMAIN m.tables /\ F = F \cup {p}
    BY <1>5 DEF Rooted
  <2>2. /\ m2 \in Memory
        /\ m2.free_list = Tail(m.free_list) /\ m2.free_page_count = m.free_page_count - 1
    BY <1>5 DEF Rooted
  <2> QED
    BY <2>1, <2>2, <1>1, PageTaken
<1>7. RootAdded(m, m2, R, p)
  BY <1>1, <1>2, <1>5, RootLevels
<1>8. Sound(m2, R \cup {p}, F, ram)
  BY <1>5, <1>6, <1>7 DEF Sound, Rooted, RootAdded
<1> QED
  BY <1>2, <1>3, <1>7, <1>8 DEF RootAdded

-----------------------------------------------------------------------------
(* The parts of an address space. *)

LEMMA Appended ==
    ASSUME NEW S, NEW s \in Seq(S), NEW t \in Seq(S)
    PROVE  /\ s \o t \in Seq(S) /\ Len(s \o t) = Len(s) + Len(t)
           /\ \A k \in 1 .. Len(s) + Len(t) :
                 (s \o t)[k] = IF k <= Len(s) THEN s[k] ELSE t[k - Len(s)]
  OBVIOUS

Parts(s, x1, x2, x3, x4, x5, x6, x7, x8, z) ==
    /\ Len(s) = IF z = << >> THEN 7 ELSE 8
    /\ s[1] = x1 /\ s[2] = x2 /\ s[3] = x3 /\ s[4] = x4 /\ s[5] = x5
    /\ s[6] = x6 /\ s[7] = x7
    /\ z # << >> => s[8] = x8

LEMMA Listed ==
    ASSUME NEW x1, NEW x2, NEW x3, NEW x4, NEW x5, NEW x6, NEW x7, NEW x8,
           NEW z, z = << >> \/ z = <<x8>>
    PROVE  Parts(<<x1, x2, x3, x4, x5>> \o <<x6, x7>> \o z, x1, x2, x3, x4, x5, x6, x7, x8, z)
<1> DEFINE S == {x1, x2, x3, x4, x5, x6, x7, x8}
           a == <<x1, x2, x3, x4, x5>>
           b == <<x6, x7>>
           d == a \o b
           s == d \o z
<1>1. /\ Len(a) = 5 /\ Len(b) = 2
      /\ a[1] = x1 /\ a[2] = x2 /\ a[3] = x3 /\ a[4] = x4 /\ a[5] = x5
      /\ b[1] = x6 /\ b[2] = x7
  OBVIOUS
<1>2. a \in Seq(S) /\ b \in Seq(S)
  OBVIOUS
<1>3. z \in Seq(S)
  <2>1. << >> \in Seq(S) /\ <<x8>> \in Seq(S)
    OBVIOUS
  <2> HIDE DEF S
  <2> QED
    BY <2>1
<1>9. Len(z) = (IF z = << >> THEN 0 ELSE 1) /\ (z # << >> => z[1] = x8)
  OBVIOUS
<1> HIDE DEF S, a, b
<1>4. /\ d \in Seq(S) /\ Len(d) = Len(a) + Len(b)
      /\ \A k \in 1 .. Len(a) + Len(b) : d[k] = IF k <= Len(a) THEN a[k] ELSE b[k - Len(a)]
  BY <1>2, Appended, Zenon
<1> HIDE DEF d
<1>5. Len(d) = 7
  BY <1>1, <1>4
<1>6. /\ d[1] = x1 /\ d[2] = x2 /\ d[3] = x3 /\ d[4] = x4 /\ d[5] = x5
      /\ d[6] = x6 /\ d[7] = x7
  <2>1. /\ d[1] = a[1] /\ d[2] = a[2] /\ d[3] = a[3] /\ d[4] = a[4] /\ d[5] = a[5]
        /\ d[6] = b[1] /\ d[7] = b[2]
    <3>1. Len(a) = 5 /\ Len(b) = 2
      BY <1>1
    <3> QED
      BY <3>1, <1>4
  <2> QED
    BY <2>1, <1>1
<1>11. d \in Seq(S)
  BY <1>4
<1>7. /\ Len(s) = Len(d) + Len(z)
      /\ \A k \in 1 .. Len(d) + Len(z) : s[k] = IF k <= Len(d) THEN d[k] ELSE z[k - Len(d)]
  BY <1>3, <1>11, Appended, Zenon
<1> HIDE DEF s
<1>8. s[1] = d[1] /\ s[2] = d[2] /\ s[3] = d[3] /\ s[4] = d[4] /\ s[5] = d[5] /\ s[6] = d[6]
      /\ s[7] = d[7] /\ (Len(z) = 1 => s[8] = z[1])
  BY <1>9, <1>5, <1>7
<1>10. Parts(s, x1, x2, x3, x4, x5, x6, x7, x8, z)
  BY <1>5, <1>6, <1>7, <1>8, <1>9 DEF Parts
<1> QED
  BY <1>10, Zenon DEF s, d, a, b

\* The parts of an address space, in the order in which they are mapped.
LEMMA RegionsAre ==
    /\ Len(Regions) = IF build = "memory" THEN 8 ELSE 7
    /\ Regions[1] = Identity(TEXT, {"R", "X"})
    /\ Regions[2] = Identity(RODATA, {"R"})
    /\ Regions[3] = Identity(DATA, {"R", "W"})
    /\ Regions[4] = Identity([start |-> KERNEL_END, end |-> ram_end], {"R", "W"})
    /\ Regions[5] = Identity([start |-> UART0, end |-> UART0 + 1], {"R", "W"})
    /\ Regions[6] = Copied(USER_TEXT, {"R", "X", "U"})
    /\ Regions[7] = Copied(USER_RODATA, {"R", "U"})
    /\ build = "memory" => Regions[8] = Zeroed(WorkingSet, {"R", "W", "U"})
<1> DEFINE x1 == Identity(TEXT, {"R", "X"})
           x2 == Identity(RODATA, {"R"})
           x3 == Identity(DATA, {"R", "W"})
           x4 == Identity([start |-> KERNEL_END, end |-> ram_end], {"R", "W"})
           x5 == Identity([start |-> UART0, end |-> UART0 + 1], {"R", "W"})
           x6 == Copied(USER_TEXT, {"R", "X", "U"})
           x7 == Copied(USER_RODATA, {"R", "U"})
           x8 == Zeroed(WorkingSet, {"R", "W", "U"})
           z == IF build = "memory" THEN <<x8>> ELSE <<>>
           r == <<x1, x2, x3, x4, x5>> \o <<x6, x7>> \o z
<1>1. Regions = r
  BY DEF Regions, map_kernel, user_regions, map_benchmark_working_set
<1> HIDE DEF x1, x2, x3, x4, x5, x6, x7, x8
<1>2. z = << >> \/ z = <<x8>>
  OBVIOUS
<1>3. z = << >> <=> build # "memory"
  OBVIOUS
<1> HIDE DEF z
<1>4. Parts(r, x1, x2, x3, x4, x5, x6, x7, x8, z)
  BY <1>2, Listed, Zenon
<1> HIDE DEF r
<1> QED
  BY <1>1, <1>3, <1>4 DEF Parts, x1, x2, x3, x4, x5, x6, x7, x8

-----------------------------------------------------------------------------
(* Where the parts are. *)

\* The order of the parts in the address space.
LEMMA Layout ==
    ASSUME ram_end \in RAM_ENDS
    PROVE  /\ UART0 \in Nat \ {0} /\ UART0 + 1 <= USER_STACK_BASE /\ USER_STACK_BASE \in Nat
           /\ WorkingSet.start \in Nat /\ WorkingSet.end \in Nat
           /\ USER_STACK_BASE < WorkingSet.start
           /\ WorkingSet.start < WorkingSet.end /\ WorkingSet.end <= TEXT.start
           /\ TEXT.start \in Nat /\ TEXT.end \in Nat /\ TEXT.start <= TEXT.end
           /\ TEXT.end <= USER_TEXT.start
           /\ USER_TEXT.start \in Nat /\ USER_TEXT.end \in Nat /\ USER_TEXT.start < USER_TEXT.end
           /\ USER_TEXT.end <= USER_RODATA.start
           /\ USER_RODATA.start \in Nat /\ USER_RODATA.end \in Nat
           /\ USER_RODATA.start <= USER_RODATA.end /\ USER_RODATA.end <= RODATA.start
           /\ RODATA.start \in Nat /\ RODATA.end \in Nat /\ RODATA.start <= RODATA.end
           /\ RODATA.end <= DATA.start
           /\ DATA.start \in Nat /\ DATA.end \in Nat /\ DATA.start <= DATA.end
           /\ DATA.end <= KERNEL_END /\ KERNEL_END \in Nat /\ KERNEL_END <= ram_end
           /\ ram_end \in VirtualPages /\ ram_end \in Nat /\ USER_STACK_BASE <= ram_end
<1>1. VirtualPages \subseteq Nat
  BY FanoutAssumption DEF VirtualPages
<1>2. \A s \in Sections : /\ s.start \in Nat /\ s.end \in Nat /\ s.start <= s.end
  BY <1>1, LayoutAssumption
<1>3. /\ TEXT \in Sections /\ USER_TEXT \in Sections /\ USER_RODATA \in Sections
      /\ RODATA \in Sections /\ DATA \in Sections
  BY DEF Sections
<1>4. /\ TEXT.start \in Nat /\ TEXT.end \in Nat /\ TEXT.start <= TEXT.end
      /\ USER_TEXT.start \in Nat /\ USER_TEXT.end \in Nat
      /\ USER_RODATA.start \in Nat /\ USER_RODATA.end \in Nat
      /\ USER_RODATA.start <= USER_RODATA.end
      /\ RODATA.start \in Nat /\ RODATA.end \in Nat /\ RODATA.start <= RODATA.end
      /\ DATA.start \in Nat /\ DATA.end \in Nat /\ DATA.start <= DATA.end
  BY <1>2, <1>3
<1>5. USER_TEXT.start < USER_TEXT.end
  BY <1>4, LayoutAssumption
<1>6. KERNEL_END \in Nat /\ ram_end \in VirtualPages /\ KERNEL_END <= ram_end
  BY <1>1, LayoutAssumption
<1>7. /\ WorkingSet.start = BENCHMARK_WORKING_SET_BASE
      /\ WorkingSet.end = BENCHMARK_WORKING_SET_BASE + BENCHMARK_WORKING_SET_PAGES
  BY DEF WorkingSet
<1>8. /\ BENCHMARK_WORKING_SET_BASE \in Nat /\ BENCHMARK_WORKING_SET_PAGES \in Nat \ {0}
      /\ UART0 \in Nat \ {0} /\ UART0 < USER_STACK_BASE /\ USER_STACK_BASE \in Nat
      /\ USER_STACK_BASE < BENCHMARK_WORKING_SET_BASE /\ WorkingSet.end <= TEXT.start
  BY LayoutAssumption
<1>9. /\ UART0 + 1 <= USER_STACK_BASE
      /\ WorkingSet.start \in Nat /\ WorkingSet.end \in Nat
      /\ WorkingSet.start < WorkingSet.end
  BY <1>7, <1>8
<1>10. /\ TEXT.end <= USER_TEXT.start /\ USER_TEXT.end <= USER_RODATA.start
       /\ USER_RODATA.end <= RODATA.start /\ RODATA.end <= DATA.start
       /\ DATA.end <= KERNEL_END
  BY LayoutAssumption
<1>11. USER_STACK_BASE <= ram_end
  BY <1>1, <1>4, <1>5, <1>6, <1>7, <1>8, <1>9, <1>10
<1> QED
  BY <1>1, <1>4, <1>5, <1>6, <1>7, <1>8, <1>9, <1>10, <1>11

\* What is below the end of memory is a virtual page.
LEMMA BelowRamEnd ==
    ASSUME ram_end \in RAM_ENDS, NEW v \in Nat, v <= ram_end
    PROVE  v \in VirtualPages
<1>1. ram_end \in VirtualPages
  BY Layout
<1> DEFINE N == FANOUT * FANOUT * FANOUT
<1>2. N \in Nat
  BY FanoutAssumption
<1>3. ram_end \in 0 .. N - 1
  BY <1>1 DEF VirtualPages
<1> HIDE DEF N
<1>4. v \in 0 .. N - 1
  BY <1>2, <1>3
<1> QED
  BY <1>4 DEF VirtualPages, N

\* Each part is a range of virtual pages and has some access; what a program may reach
\* is its own, and not both writable and executable.
LEMMA RegionFacts ==
    ASSUME ram_end \in RAM_ENDS, NEW k \in 1 .. Len(Regions), NEW r, r = Regions[k]
    PROVE  /\ r.start \in Nat /\ r.end \in Nat /\ r.start <= r.end
           /\ r.start \in VirtualPages /\ r.end \in VirtualPages
           /\ r.flags \in SUBSET Flags /\ r.flags \cap {"R", "W", "X"} # {}
           /\ r.how \in {"identity", "copied", "zeroed"}
           /\ "U" \in r.flags <=> r.how # "identity"
           /\ r.how # "identity" => ~({"W", "X"} \subseteq r.flags)
<1>1. /\ r.start \in Nat /\ r.end \in Nat /\ r.start <= r.end /\ r.end <= ram_end
      /\ ram_end \in Nat
  BY Layout, RegionsAre DEF Identity, Copied, Zeroed
<1>2. r.start \in VirtualPages /\ r.end \in VirtualPages
  BY <1>1, BelowRamEnd
<1>3. /\ r.flags \in SUBSET Flags /\ r.flags \cap {"R", "W", "X"} # {}
      /\ r.how \in {"identity", "copied", "zeroed"}
      /\ "U" \in r.flags <=> r.how # "identity"
      /\ r.how # "identity" => ~({"W", "X"} \subseteq r.flags)
  BY RegionsAre DEF Identity, Copied, Zeroed, Flags
<1> QED
  BY <1>1, <1>2, <1>3

\* v is a page of the part r.
In(r, v) == v \in r.start .. r.end - 1

\* No page is in two parts, or in one and the stack.
LEMMA RegionsApart ==
    ASSUME ram_end \in RAM_ENDS, NEW k \in 1 .. Len(Regions), NEW v, In(Regions[k], v)
    PROVE  /\ v # USER_STACK_BASE
           /\ \A j \in 1 .. Len(Regions) : In(Regions[j], v) => j = k
<1>1. v \in Nat /\ Regions[k].start <= v /\ v < Regions[k].end
  BY RegionFacts DEF In
<1>2. v # USER_STACK_BASE
  BY <1>1, Layout, RegionsAre DEF Identity, Copied, Zeroed
<1>3. ASSUME NEW j \in 1 .. Len(Regions), In(Regions[j], v)
      PROVE  j = k
  <2>1. v \in Nat /\ Regions[j].start <= v /\ v < Regions[j].end
    BY <1>3, RegionFacts DEF In
  <2> QED
    BY <1>1, <2>1, Layout, RegionsAre DEF Identity, Copied, Zeroed
<1> QED
  BY <1>2, <1>3

-----------------------------------------------------------------------------
(* The inductive invariant. *)

\* The entry e maps the page v of the part r, in memory whose filled pages are f.
Maps(r, v, e, f) ==
    IF r.how = "identity" THEN e = [pa |-> v, flags |-> r.flags \cup {"V"}]
    ELSE /\ e.flags = r.flags \cup {"V"}
         /\ e.pa \in DOMAIN f /\ f[e.pa] = IF r.how = "copied" THEN v ELSE 0

\* Of the parts rs, the root rt maps the first reg - 1, and the next up to the page a.
Done(rs, k, v, reg, a) == In(rs[k], v) /\ (k < reg \/ (k = reg /\ v < a))

Building(rs, m, f, rt, reg, a) ==
    \A v \in VirtualPages :
        /\ \A k \in 1 .. Len(rs) :
              Done(rs, k, v, reg, a) => Maps(rs[k], v, Lookup(m, rt, v), f)
        /\ (\A k \in 1 .. Len(rs) : ~Done(rs, k, v, reg, a)) => Lookup(m, rt, v) = Invalid

\* What process_create leaves behind: the record p of a process, and its address space.
Finished(rs, m, f, p) ==
    /\ p.pagetable # 0
    /\ p.kernel_stack \in DOMAIN f /\ p.user_stack \in DOMAIN f /\ f[p.user_stack] = 0
    /\ p.sp = USER_STACK_BASE + 1 /\ p.sepc = USER_ENTRY
    /\ \A v \in VirtualPages :
          /\ \A k \in 1 .. Len(rs) :
                In(rs[k], v) => Maps(rs[k], v, Lookup(m, p.pagetable, v), f)
          /\ v = USER_STACK_BASE =>
                Lookup(m, p.pagetable, v) = [pa |-> p.user_stack, flags |-> {"R", "W", "U", "V"}]
          /\ v # USER_STACK_BASE /\ (\A k \in 1 .. Len(rs) : ~In(rs[k], v)) =>
                Lookup(m, p.pagetable, v) = Invalid

\* Programs reach only pages of F that are not in K, each through one entry.
UserLeaf(m, t, i) ==
    /\ t \in DOMAIN m.tables /\ i \in Indices
    /\ Leaf(m.tables[t][i]) /\ "U" \in m.tables[t][i].flags

LeavesOwn(m, F, K) ==
    /\ \A t, i : UserLeaf(m, t, i) =>
          /\ m.tables[t][i].pa \in F /\ m.tables[t][i].pa \notin K
          /\ ~({"W", "X"} \subseteq m.tables[t][i].flags)
    /\ \A t, i, u, j : UserLeaf(m, t, i) /\ UserLeaf(m, u, j) =>
          (m.tables[t][i].pa = m.tables[u][j].pa => t = u /\ i = j)

CreatedPids == {p \in Pids : p < pid \/ (p = pid /\ pc \in {"created", "booted"})}
KernelStacks == {processes[p].kernel_stack : p \in Pids}
ProcessRecord == [pagetable : Nat, kernel_stack : Nat, user_stack : Nat, sp : Nat, sepc : Nat]

Types ==
    /\ build \in {"shell", "cpu", "memory"} /\ ram_end \in RAM_ENDS
    /\ pc \in {"pmm_init", "vm_create", "map", "stacks", "created", "booted", "failed"}
    /\ pid \in Pids /\ region \in 1 .. Len(Regions) /\ at \in VirtualPages
    /\ total_page_count \in Nat
    /\ filled \in [DOMAIN filled -> VirtualPages]
    /\ processes \in [Pids -> ProcessRecord]

MemoryInv ==
    /\ Sound(mem, Roots, DOMAIN filled, IF pc = "pmm_init" THEN KERNEL_END .. at - 1 ELSE Ram)
    /\ pc # "pmm_init" => total_page_count = ram_end - KERNEL_END
    /\ LeavesOwn(mem, DOMAIN filled, KernelStacks)
    /\ pc = "failed" => Full(mem)

BuildInv ==
    /\ pc = "pmm_init" =>
          /\ at \in KERNEL_END .. ram_end /\ mem.free_page_count = at - KERNEL_END
          /\ DOMAIN filled = {} /\ root = 0 /\ pid = 1
    /\ pc = "vm_create" => root = 0 \/ \E p \in CreatedPids : root = processes[p].pagetable
    /\ pc \in {"map", "stacks"} =>
          /\ root # 0 /\ \A p \in CreatedPids : processes[p].pagetable # root
          /\ at \in Regions[region].start .. Regions[region].end
          /\ Building(Regions, mem, filled, root, region, at)
    /\ pc = "stacks" => region = Len(Regions) /\ at = Regions[region].end
    /\ pc \in {"created", "booted"} => root = processes[pid].pagetable
    /\ pc = "booted" => pid + 1 \notin Pids

ProcessInv ==
    /\ \A p \in Pids : p \notin CreatedPids => processes[p] = NoProcess
    /\ \A p \in CreatedPids : Finished(Regions, mem, filled, processes[p])
    /\ \A p, q \in CreatedPids : processes[p].pagetable = processes[q].pagetable => p = q

\* A step leaves the finished processes and their address spaces as they are.
SpacesStay ==
    \A q \in CreatedPids :
        /\ processes'[q] = processes[q]
        /\ \A v \in VirtualPages :
              Lookup(mem', processes[q].pagetable, v) = Lookup(mem, processes[q].pagetable, v)

IInv == Types /\ MemoryInv /\ BuildInv /\ ProcessInv

-----------------------------------------------------------------------------
(* What a page that is freed, filled or mapped changes. *)

\* A page that is freed is free.
LEMMA FreeFacts ==
    ASSUME NEW m, NEW R, NEW F, NEW ram, Sound(m, R, F, ram), NEW p \in Nat, p \notin ram
    PROVE  /\ Sound(page_free(m, p), R, F, ram \cup {p})
           /\ page_free(m, p).tables = m.tables
           /\ page_free(m, p).free_page_count = m.free_page_count + 1
<1>1. PICK lv : m \in Memory /\ PagesOf(m, F, ram) /\ Levelled(m, R, lv)
  BY DEF Sound
<1> DEFINE f == m.free_list
           c == m.free_page_count
           g == m.tables
           f2 == <<p>> \o f
           c2 == c + 1
           m2 == page_free(m, p)
<1>2. /\ m = [free_list |-> f, free_page_count |-> c, tables |-> g]
      /\ f \in Seq(Nat) /\ c \in Nat
      /\ DOMAIN g \subseteq Nat /\ g \in [DOMAIN g -> [Indices -> PTE]]
  BY <1>1, MemoryParts
<1>3. m2 = [m EXCEPT !.free_list = f2, !.free_page_count = c2]
  BY DEF page_free
<1>4. f2 \in Seq(Nat) /\ c2 \in Nat /\ Len(f2) = Len(f) + 1 /\ f2[1] = p
      /\ \A k \in 1 .. Len(f) : f2[k + 1] = f[k]
  <2> HIDE DEF f, c
  <2> QED
    BY <1>2
<1> HIDE DEF m2, f, c, g, f2, c2
<1>5. m2 = [free_list |-> f2, free_page_count |-> c2, tables |-> g]
  BY <1>2, <1>3, MemoryExcept
<1>6. m2 \in Memory
  BY <1>2, <1>4, <1>5, MemoryOf
<1>7. m2.free_list = f2 /\ m2.free_page_count = c2 /\ m2.tables = g
  BY <1>5
<1>8. Levelled(m2, R, lv)
  BY <1>1, <1>7 DEF Levelled, g
<1>9. /\ \A j, k \in 1 .. Len(f) : f[j] = f[k] => j = k
      /\ \A k \in 1 .. Len(f) : f[k] \in ram /\ f[k] \notin DOMAIN g /\ f[k] \notin F
      /\ \A q \in ram : q \in DOMAIN g \/ q \in F \/ \E k \in 1 .. Len(f) : f[k] = q
      /\ DOMAIN g \subseteq ram /\ F \subseteq ram /\ DOMAIN g \cap F = {} /\ c = Len(f)
  BY <1>1 DEF PagesOf, f, c, g
<1>10. Len(f) \in Nat
  BY <1>2
<1>11. \A k \in 1 .. Len(f2) : k = 1 \/ (k - 1 \in 1 .. Len(f) /\ f2[k] = f[k - 1])
  <2> SUFFICES ASSUME NEW k \in 1 .. Len(f2), k # 1
               PROVE  k - 1 \in 1 .. Len(f) /\ f2[k] = f[k - 1]
    OBVIOUS
  <2>1. k - 1 \in 1 .. Len(f) /\ (k - 1) + 1 = k
    BY <1>4, <1>10
  <2>2. f2[(k - 1) + 1] = f[k - 1]
    BY <2>1, <1>4
  <2> QED
    BY <2>1, <2>2
<1>12. \A j, k \in 1 .. Len(f2) : f2[j] = f2[k] => j = k
  <2> SUFFICES ASSUME NEW j \in 1 .. Len(f2), NEW k \in 1 .. Len(f2), f2[j] = f2[k]
               PROVE  j = k
    OBVIOUS
  <2>1. j = 1 \/ (j - 1 \in 1 .. Len(f) /\ f2[j] = f[j - 1])
    BY <1>11
  <2>2. k = 1 \/ (k - 1 \in 1 .. Len(f) /\ f2[k] = f[k - 1])
    BY <1>11
  <2>3. j # 1 /\ k # 1 => j - 1 = k - 1
    BY <2>1, <2>2, <1>9
  <2>4. (j = 1 <=> k = 1)
    BY <2>1, <2>2, <1>4, <1>9
  <2> QED
    BY <2>3, <2>4
<1>13. \A k \in 1 .. Len(f2) : f2[k] \in ram \cup {p} /\ f2[k] \notin DOMAIN g /\ f2[k] \notin F
  BY <1>4, <1>9, <1>11
<1>14. \A q \in ram \cup {p} : q \in DOMAIN g \/ q \in F \/ \E k \in 1 .. Len(f2) : f2[k] = q
  <2> SUFFICES ASSUME NEW q \in ram \cup {p}, q \notin DOMAIN g, q \notin F
               PROVE  \E k \in 1 .. Len(f2) : f2[k] = q
    OBVIOUS
  <2>1. CASE q = p
    BY <2>1, <1>4, <1>10
  <2>2. CASE q \in ram
    <3>1. PICK k \in 1 .. Len(f) : f[k] = q
      BY <2>2, <1>9
    <3>2. k + 1 \in 1 .. Len(f2) /\ f2[k + 1] = q
      BY <3>1, <1>4, <1>10
    <3> QED
      BY <3>2
  <2> QED
    BY <2>1, <2>2
<1>15. DOMAIN g \subseteq ram \cup {p} /\ F \subseteq ram \cup {p} /\ c2 = Len(f2)
  BY <1>4, <1>9, <1>10 DEF c2
<1>16. PagesOf(m2, F, ram \cup {p})
  BY <1>7, <1>9, <1>12, <1>13, <1>14, <1>15 DEF PagesOf
<1> QED
  BY <1>6, <1>7, <1>8, <1>16 DEF Sound, m2, c2, c, g

\* A page that is taken from the list and filled is one of F.
LEMMA FillFacts ==
    ASSUME NEW m, NEW R, NEW F, NEW ram, Sound(m, R, F, ram), ~Full(m),
           NEW p, p = Head(m.free_list), NEW m2, m2 = page_alloc(m)
    PROVE  /\ p \in ram /\ p \notin F /\ p \in Nat /\ p \notin R
           /\ Sound(m2, R, F \cup {p}, ram)
           /\ m2.tables = m.tables /\ m2.free_list = Tail(m.free_list)
<1>1. PICK lv : m \in Memory /\ PagesOf(m, F, ram) /\ Levelled(m, R, lv)
  BY DEF Sound
<1>2. m.free_page_count = Len(m.free_list)
  BY <1>1 DEF PagesOf
<1>3. /\ m2 \in Memory /\ m2.free_list = Tail(m.free_list)
      /\ m2.free_page_count = m.free_page_count - 1 /\ m2.tables = m.tables
  BY <1>1, <1>2, AllocFacts
<1>4. DOMAIN m2.tables = DOMAIN m.tables
  BY <1>3
<1>5. /\ p \in ram /\ p \notin DOMAIN m.tables /\ p \notin F
      /\ PagesOf(m2, F \cup {p}, ram)
  BY <1>1, <1>3, <1>4, PageTaken
<1>6. Levelled(m2, R, lv)
  BY <1>1, <1>3 DEF Levelled
<1>7. p \in Nat
  BY <1>1, MemoryParts DEF Full
<1>8. p \notin R
  BY <1>1, <1>5 DEF Levelled
<1> QED
  BY <1>3, <1>5, <1>6, <1>7, <1>8 DEF Sound

\* What was filled stays.
Extends(f, f2) == \A q \in DOMAIN f : q \in DOMAIN f2 /\ f2[q] = f[q]

LEMMA MapsKept ==
    ASSUME NEW r, NEW v, NEW e, NEW f, NEW f2, Extends(f, f2), Maps(r, v, e, f)
    PROVE  Maps(r, v, e, f2)
  BY DEF Maps, Extends

LEMMA FinishedKept ==
    ASSUME NEW m, NEW f, NEW p, Finished(Regions, m, f, p), NEW m2, NEW f2, Extends(f, f2),
           \A v \in VirtualPages : Lookup(m2, p.pagetable, v) = Lookup(m, p.pagetable, v)
    PROVE  Finished(Regions, m2, f2, p)
<1>1. /\ p.pagetable # 0
      /\ p.kernel_stack \in DOMAIN f2 /\ p.user_stack \in DOMAIN f2 /\ f2[p.user_stack] = 0
      /\ p.sp = USER_STACK_BASE + 1 /\ p.sepc = USER_ENTRY
  BY DEF Finished, Extends
<1>2. ASSUME NEW v \in VirtualPages
      PROVE  /\ \A k \in 1 .. Len(Regions) :
                   In(Regions[k], v) => Maps(Regions[k], v, Lookup(m2, p.pagetable, v), f2)
             /\ v = USER_STACK_BASE =>
                   Lookup(m2, p.pagetable, v) = [pa |-> p.user_stack, flags |-> {"R", "W", "U", "V"}]
             /\ v # USER_STACK_BASE /\ (\A k \in 1 .. Len(Regions) : ~In(Regions[k], v)) =>
                   Lookup(m2, p.pagetable, v) = Invalid
  BY MapsKept DEF Finished
<1> QED
  BY <1>1, <1>2 DEF Finished

\* The pages of programs stay theirs when no leaf is added, or one that is the kernel's,
\* or one for a page of their own.
LEMMA LeavesOwnKept ==
    ASSUME NEW m, NEW F, NEW K, LeavesOwn(m, F, K), NEW m2, LeavesKept(m, m2),
           NEW F2, F \subseteq F2, NEW K2, K2 \cap F \subseteq K
    PROVE  LeavesOwn(m2, F2, K2)
<1>1. \A t, i : UserLeaf(m2, t, i) => UserLeaf(m, t, i) /\ m2.tables[t][i] = m.tables[t][i]
  BY DEF LeavesKept, UserLeaf
<1> QED
  BY <1>1 DEF LeavesOwn

LEMMA LeavesOwnAdded ==
    ASSUME NEW m, NEW F, NEW K, LeavesOwn(m, F, K),
           NEW m2, NEW t, NEW i, NEW e, LeafAdded(m, m2, t, i, e),
           NEW F2, F \subseteq F2, NEW K2, K2 \cap F \subseteq K,
           "U" \in e.flags =>
              /\ e.pa \in F2 /\ e.pa \notin F /\ e.pa \notin K2
              /\ ~({"W", "X"} \subseteq e.flags)
    PROVE  LeavesOwn(m2, F2, K2)
<1>1. m2.tables[t][i] = e
  BY DEF LeafAdded
<1>2. ASSUME NEW u, NEW j, UserLeaf(m2, u, j), ~(u = t /\ j = i)
      PROVE  UserLeaf(m, u, j) /\ m2.tables[u][j] = m.tables[u][j]
  BY <1>2 DEF LeafAdded, UserLeaf
<1>3. ASSUME NEW u, NEW j, UserLeaf(m, u, j)
      PROVE  m.tables[u][j].pa \in F /\ m.tables[u][j].pa \notin K
             /\ ~({"W", "X"} \subseteq m.tables[u][j].flags)
  BY <1>3 DEF LeavesOwn
<1>4. UserLeaf(m2, t, i) => "U" \in e.flags
  BY <1>1 DEF UserLeaf
<1>5. ASSUME NEW u, NEW j, UserLeaf(m2, u, j)
      PROVE  /\ m2.tables[u][j].pa \in F2 /\ m2.tables[u][j].pa \notin K2
             /\ ~({"W", "X"} \subseteq m2.tables[u][j].flags)
             /\ m2.tables[u][j].pa \notin F => u = t /\ j = i
  <2>1. CASE u = t /\ j = i
    BY <2>1, <1>1, <1>4, <1>5
  <2>2. CASE ~(u = t /\ j = i)
    BY <2>2, <1>2, <1>3, <1>5
  <2> QED
    BY <2>1, <2>2
<1>6. ASSUME NEW u, NEW j, NEW w, NEW k, UserLeaf(m2, u, j), UserLeaf(m2, w, k),
             m2.tables[u][j].pa = m2.tables[w][k].pa
      PROVE  u = w /\ j = k
  <2>1. CASE u = t /\ j = i
    <3>1. m2.tables[w][k].pa \notin F
      BY <2>1, <1>1, <1>4, <1>6
    <3> QED
      BY <2>1, <3>1, <1>5, <1>6
  <2>2. CASE w = t /\ k = i
    <3>1. m2.tables[u][j].pa \notin F
      BY <2>2, <1>1, <1>4, <1>6
    <3> QED
      BY <2>2, <3>1, <1>5, <1>6
  <2>3. CASE ~(u = t /\ j = i) /\ ~(w = t /\ k = i)
    BY <2>3, <1>2, <1>6 DEF LeavesOwn
  <2> QED
    BY <2>1, <2>2, <2>3
<1> QED
  BY <1>5, <1>6 DEF LeavesOwn

-----------------------------------------------------------------------------
(* The progress of an address space. *)

\* The entry for the next page of a part is added.
LEMMA BuildingStep ==
    ASSUME ram_end \in RAM_ENDS,
           NEW m, NEW f, NEW rt, NEW k \in 1 .. Len(Regions), NEW a \in VirtualPages,
           Building(Regions, m, f, rt, k, a), In(Regions[k], a),
           NEW m2, NEW f2, Extends(f, f2), NEW e, Maps(Regions[k], a, e, f2),
           \A u \in VirtualPages : Lookup(m2, rt, u) = IF u = a THEN e ELSE Lookup(m, rt, u)
    PROVE  Building(Regions, m2, f2, rt, k, a + 1)
<1>1. a \in Nat
  BY FanoutAssumption DEF VirtualPages
<1>2. ASSUME NEW v \in VirtualPages, NEW j \in 1 .. Len(Regions)
      PROVE  Done(Regions, j, v, k, a + 1) <=> Done(Regions, j, v, k, a) \/ (v = a /\ j = k)
  <2>1. v \in Nat
    BY FanoutAssumption DEF VirtualPages
  <2> QED
    BY <1>1, <2>1 DEF Done
<1>3. ASSUME NEW v \in VirtualPages, NEW j \in 1 .. Len(Regions), Done(Regions, j, v, k, a + 1)
      PROVE  Maps(Regions[j], v, Lookup(m2, rt, v), f2)
  <2>1. CASE v = a
    <3>1. j = k
      BY <2>1, <1>3, RegionsApart DEF Done
    <3> QED
      BY <2>1, <3>1
  <2>2. CASE v # a
    <3>1. Done(Regions, j, v, k, a)
      BY <2>2, <1>2, <1>3
    <3>2. Maps(Regions[j], v, Lookup(m, rt, v), f)
      BY <3>1 DEF Building
    <3> QED
      BY <3>2, <2>2, MapsKept
  <2> QED
    BY <2>1, <2>2
<1>4. ASSUME NEW v \in VirtualPages, \A j \in 1 .. Len(Regions) : ~Done(Regions, j, v, k, a + 1)
      PROVE  Lookup(m2, rt, v) = Invalid
  <2>1. v # a
    BY <1>2, <1>4
  <2>2. \A j \in 1 .. Len(Regions) : ~Done(Regions, j, v, k, a)
    BY <1>2, <1>4
  <2> QED
    BY <2>1, <2>2 DEF Building
<1> QED
  BY <1>3, <1>4 DEF Building

\* The next page of a part is not mapped yet.
LEMMA BuildingNext ==
    ASSUME ram_end \in RAM_ENDS,
           NEW m, NEW f, NEW rt, NEW k \in 1 .. Len(Regions), NEW a \in VirtualPages,
           Building(Regions, m, f, rt, k, a), In(Regions[k], a)
    PROVE  Lookup(m, rt, a) = Invalid
<1>1. a \in Nat
  BY FanoutAssumption DEF VirtualPages
<1>2. ASSUME NEW j \in 1 .. Len(Regions), Done(Regions, j, a, k, a)
      PROVE  FALSE
  <2>1. j = k
    BY <1>2, RegionsApart DEF Done
  <2> QED
    BY <2>1, <1>1, <1>2 DEF Done
<1> QED
  BY <1>2 DEF Building

\* A part is done when its end is reached; nothing of the next is.
LEMMA BuildingDone ==
    ASSUME ram_end \in RAM_ENDS,
           NEW m, NEW f, NEW rt, NEW k \in 1 .. Len(Regions), k + 1 \in 1 .. Len(Regions),
           Building(Regions, m, f, rt, k, Regions[k].end)
    PROVE  Building(Regions, m, f, rt, k + 1, Regions[k + 1].start)
<1>1. ASSUME NEW v \in VirtualPages, NEW j \in 1 .. Len(Regions)
      PROVE  Done(Regions, j, v, k + 1, Regions[k + 1].start) <=> Done(Regions, j, v, k, Regions[k].end)
  <2>1. v \in Nat
    BY FanoutAssumption DEF VirtualPages
  <2>2. /\ Regions[k].start \in Nat /\ Regions[k].end \in Nat
        /\ Regions[k + 1].start \in Nat /\ Regions[k + 1].end \in Nat
    BY RegionFacts
  <2>3. Len(Regions) \in Nat
    BY RegionsAre
  <2>4. j \in Nat /\ k \in Nat
    BY <2>3
  <2>5. CASE j = k
    BY <2>1, <2>2, <2>4, <2>5 DEF Done, In
  <2>6. CASE j = k + 1
    BY <2>1, <2>2, <2>4, <2>6 DEF Done, In
  <2>7. CASE j # k /\ j # k + 1
    BY <2>4, <2>7 DEF Done
  <2> QED
    BY <2>5, <2>6, <2>7
<1> QED
  BY <1>1 DEF Building

\* A new root maps nothing.
LEMMA BuildingStart ==
    ASSUME ram_end \in RAM_ENDS, NEW m, NEW f, NEW rt,
           \A v \in VirtualPages : Lookup(m, rt, v) = Invalid
    PROVE  Building(Regions, m, f, rt, 1, Regions[1].start)
<1>1. 1 \in 1 .. Len(Regions)
  BY RegionsAre
<1>2. Regions[1].start \in Nat /\ Regions[1].end \in Nat
  BY <1>1, RegionFacts
<1>3. ASSUME NEW v \in VirtualPages, NEW j \in 1 .. Len(Regions)
      PROVE  ~Done(Regions, j, v, 1, Regions[1].start)
  <2>1. Len(Regions) \in Nat /\ v \in Nat
    BY RegionsAre, FanoutAssumption DEF VirtualPages
  <2> QED
    BY <1>2, <2>1 DEF Done, In
<1> QED
  BY <1>3 DEF Building

\* After the last part everything but the stack is mapped.
LEMMA BuildingAll ==
    ASSUME ram_end \in RAM_ENDS,
           NEW m, NEW f, NEW rt, Building(Regions, m, f, rt, Len(Regions), Regions[Len(Regions)].end)
    PROVE  \A v \in VirtualPages :
              /\ \A k \in 1 .. Len(Regions) :
                    In(Regions[k], v) => Maps(Regions[k], v, Lookup(m, rt, v), f)
              /\ (\A k \in 1 .. Len(Regions) : ~In(Regions[k], v)) => Lookup(m, rt, v) = Invalid
<1>1. Len(Regions) \in Nat \ {0}
  BY RegionsAre
<1>2. ASSUME NEW v \in VirtualPages, NEW j \in 1 .. Len(Regions)
      PROVE  Done(Regions, j, v, Len(Regions), Regions[Len(Regions)].end) <=> In(Regions[j], v)
  <2>1. v \in Nat
    BY FanoutAssumption DEF VirtualPages
  <2>2. Regions[j].start \in Nat /\ Regions[j].end \in Nat
    BY RegionFacts
  <2> QED
    BY <1>1, <2>1, <2>2 DEF Done, In
<1> QED
  BY <1>2 DEF Building

-----------------------------------------------------------------------------
(* The invariant holds in every state. *)

LEMMA LayoutStays ==
    ASSUME build' = build, ram_end' = ram_end
    PROVE  Regions' = Regions /\ Ram' = Ram /\ Pids' = Pids
<1>1. map_kernel' = map_kernel
  BY DEF map_kernel
<1>2. Regions' = Regions
  BY <1>1 DEF Regions
<1> QED
  BY <1>2 DEF Ram, Pids

LEMMA PagesNatural == VirtualPages \subseteq Nat /\ 0 \in VirtualPages
<1> DEFINE N == FANOUT * FANOUT * FANOUT
<1>1. N \in Nat /\ N > 0
  <2>1. FANOUT * FANOUT \in Nat /\ FANOUT * FANOUT > 0
    BY FanoutAssumption
  <2> QED
    BY <2>1, FanoutAssumption
<1> HIDE DEF N
<1>2. 0 .. N - 1 \subseteq Nat /\ 0 \in 0 .. N - 1
  BY <1>1
<1> QED
  BY <1>2 DEF VirtualPages, N

LEMMA InitInv == Init => IInv
<1> SUFFICES ASSUME Init PROVE IInv
  OBVIOUS
<1>1. /\ build \in {"shell", "cpu", "memory"} /\ ram_end \in RAM_ENDS
      /\ mem = [free_list |-> <<>>, free_page_count |-> 0, tables |-> << >>]
      /\ total_page_count = 0 /\ filled = << >> /\ pc = "pmm_init" /\ pid = 1 /\ root = 0
      /\ region = 1 /\ at = KERNEL_END /\ processes = [p \in Pids |-> NoProcess]
  BY DEF Init
<1>2. Pids \subseteq {1, 2} /\ 1 \in Pids
  BY DEF Pids
<1>3. CreatedPids = {}
  <2>1. \A p \in Pids : ~(p < 1)
    BY <1>2
  <2> QED
    BY <2>1, <1>1 DEF CreatedPids
<1>4. Types
  <2>1. region \in 1 .. Len(Regions)
    BY <1>1, RegionsAre
  <2>2. at \in VirtualPages
    BY <1>1, LayoutAssumption
  <2>3. NoProcess \in ProcessRecord
    BY DEF NoProcess, ProcessRecord
  <2>4. processes \in [Pids -> ProcessRecord]
    BY <1>1, <2>3
  <2>5. filled \in [DOMAIN filled -> VirtualPages]
    BY <1>1
  <2> QED
    BY <2>1, <2>2, <2>4, <2>5, <1>1, <1>2 DEF Types
<1>5. Roots = {}
  BY <1>1, <1>2 DEF Roots, NoProcess
<1>6. KERNEL_END \in Nat
  BY <1>1, Layout
<1>7. KERNEL_END .. at - 1 = {}
  BY <1>1, <1>6
<1>8. DOMAIN filled = {} /\ DOMAIN mem.tables = {} /\ mem.free_list = <<>> /\ mem.free_page_count = 0
  BY <1>1
<1>9. Sound(mem, {}, {}, {})
  <2>1. mem \in Memory
    <3> DEFINE g == << >>
    <3>1. DOMAIN g = {} /\ g \in [DOMAIN g -> [Indices -> PTE]]
      OBVIOUS
    <3>2. mem = [free_list |-> <<>>, free_page_count |-> 0, tables |-> g]
      BY <1>1
    <3> HIDE DEF g
    <3>3. [free_list |-> <<>>, free_page_count |-> 0, tables |-> g] \in Memory
      <4>1. <<>> \in Seq(Nat) /\ 0 \in Nat /\ DOMAIN g \subseteq Nat
        BY <3>1
      <4> QED
        BY <4>1, <3>1, MemoryOf
    <3> QED
      BY <3>2, <3>3
  <2>2. PagesOf(mem, {}, {})
    BY <1>8 DEF PagesOf
  <2> DEFINE lv == [t \in DOMAIN mem.tables |-> 0]
  <2>3. Levelled(mem, {}, lv)
    BY <1>8 DEF Levelled
  <2> QED
    BY <2>1, <2>2, <2>3 DEF Sound
<1>10. LeavesOwn(mem, {}, KernelStacks)
  BY <1>8 DEF LeavesOwn, UserLeaf
<1>11. MemoryInv
  BY <1>1, <1>5, <1>7, <1>8, <1>9, <1>10 DEF MemoryInv
<1>12. BuildInv
  <2>1. at \in KERNEL_END .. ram_end /\ 0 = at - KERNEL_END
    BY <1>1, Layout
  <2> QED
    BY <2>1, <1>1, <1>8 DEF BuildInv
<1>13. ProcessInv
  BY <1>1, <1>3 DEF ProcessInv
<1> QED
  BY <1>4, <1>11, <1>12, <1>13 DEF IInv

\* A page of memory is freed, or all of it is.
LEMMA PmmInitInv ==
    ASSUME IInv, PmmInit
    PROVE  IInv'
<1> USE DEF IInv
<1>1. /\ pc = "pmm_init" /\ build' = build /\ ram_end' = ram_end /\ filled' = filled
      /\ pid' = pid /\ root' = root /\ region' = region /\ processes' = processes
      /\ pc' \in {"pmm_init", "vm_create"}
  BY DEF PmmInit
<1>2. Regions' = Regions /\ Ram' = Ram /\ Pids' = Pids
  BY <1>1, LayoutStays
<1>3. /\ at \in KERNEL_END .. ram_end /\ mem.free_page_count = at - KERNEL_END
      /\ DOMAIN filled = {} /\ root = 0 /\ pid = 1
  BY <1>1 DEF BuildInv
<1>4. CreatedPids = {} /\ CreatedPids' = {}
  BY <1>1, <1>2, <1>3 DEF CreatedPids, Pids
<1>5. ProcessInv'
  BY <1>1, <1>2, <1>4 DEF ProcessInv
<1>6. Roots' = Roots /\ KernelStacks' = KernelStacks
  BY <1>1, <1>2 DEF Roots, KernelStacks
<1>7. /\ Sound(mem, Roots, DOMAIN filled, KERNEL_END .. at - 1)
      /\ LeavesOwn(mem, DOMAIN filled, KernelStacks)
  BY <1>1 DEF MemoryInv
<1>8. ram_end \in RAM_ENDS
  BY DEF Types
<1>9. KERNEL_END \in Nat /\ ram_end \in Nat /\ at \in Nat
  BY <1>3, <1>8, Layout
<1>10. CASE at < ram_end
  <2>1. mem' = page_free(mem, at) /\ at' = at + 1 /\ total_page_count' = total_page_count /\ pc' = pc
    BY <1>10 DEF PmmInit
  <2>2. at \notin KERNEL_END .. at - 1 /\ (KERNEL_END .. at - 1) \cup {at} = KERNEL_END .. at' - 1
    BY <2>1, <1>9, <1>3
  <2>3. /\ Sound(mem', Roots, DOMAIN filled, KERNEL_END .. at' - 1)
        /\ mem'.tables = mem.tables /\ mem'.free_page_count = mem.free_page_count + 1
    <3>1. /\ Sound(page_free(mem, at), Roots, DOMAIN filled, (KERNEL_END .. at - 1) \cup {at})
          /\ page_free(mem, at).tables = mem.tables
          /\ page_free(mem, at).free_page_count = mem.free_page_count + 1
      BY <2>2, <1>7, <1>9, FreeFacts
    <3> QED
      BY <3>1, <2>1, <2>2
  <2>4. LeavesOwn(mem', DOMAIN filled, KernelStacks)
    BY <2>3, <1>7 DEF LeavesOwn, UserLeaf
  <2>5. at' \in VirtualPages /\ at' \in KERNEL_END .. ram_end
        /\ mem'.free_page_count = at' - KERNEL_END
    BY <2>1, <2>3, <1>3, <1>8, <1>9, <1>10, BelowRamEnd
  <2>6. Types'
    BY <2>1, <2>5, <1>1, <1>2 DEF Types
  <2>7. MemoryInv'
    BY <2>1, <2>3, <2>4, <1>1, <1>6 DEF MemoryInv
  <2>8. BuildInv'
    BY <2>1, <2>5, <1>1, <1>3 DEF BuildInv
  <2> QED
    BY <2>6, <2>7, <2>8, <1>5
<1>11. CASE at >= ram_end
  <2>1. /\ total_page_count' = mem.free_page_count /\ pc' = "vm_create"
        /\ mem' = mem /\ at' = at
    BY <1>9, <1>11 DEF PmmInit
  <2>2. at = ram_end
    BY <1>3, <1>9, <1>11
  <2>3. total_page_count' = ram_end' - KERNEL_END /\ total_page_count' \in Nat
    BY <2>1, <2>2, <1>1, <1>3, <1>9
  <2>4. Sound(mem', Roots', DOMAIN filled', Ram')
    BY <2>1, <2>2, <1>1, <1>2, <1>6, <1>7 DEF Ram
  <2>5. Types'
    BY <2>1, <2>3, <1>1, <1>2 DEF Types
  <2>6. MemoryInv'
    BY <2>1, <2>3, <2>4, <1>1, <1>6, <1>7 DEF MemoryInv
  <2>7. BuildInv'
    BY <2>1, <1>1, <1>3 DEF BuildInv
  <2> QED
    BY <2>5, <2>6, <2>7, <1>5
<1> QED
  BY <1>9, <1>10, <1>11

\* A step that fails, before the process pid is finished, has used up all of memory.
LEMMA FailedInv ==
    ASSUME IInv, pc \in {"vm_create", "map", "stacks"}, Failed,
           build' = build, ram_end' = ram_end, total_page_count' = total_page_count,
           Extends(filled, filled'), filled' \in [DOMAIN filled' -> VirtualPages],
           Sound(mem', Roots, DOMAIN filled', Ram), Full(mem'),
           LeavesOwn(mem', DOMAIN filled', KernelStacks),
           \A p \in CreatedPids, v \in VirtualPages :
              Lookup(mem', processes[p].pagetable, v) = Lookup(mem, processes[p].pagetable, v)
    PROVE  IInv'
<1> USE DEF IInv
<1>1. /\ pc' = "failed" /\ root' = root /\ region' = region /\ at' = at
      /\ processes' = processes /\ pid' = pid
  BY DEF Failed
<1>2. Regions' = Regions /\ Ram' = Ram /\ Pids' = Pids
  BY LayoutStays
<1>3. CreatedPids' = CreatedPids /\ Roots' = Roots /\ KernelStacks' = KernelStacks
  BY <1>1, <1>2 DEF CreatedPids, Roots, KernelStacks
<1>4. Types'
  BY <1>1, <1>2 DEF Types
<1>5. MemoryInv'
  BY <1>1, <1>2, <1>3 DEF MemoryInv
<1>6. BuildInv'
  BY <1>1 DEF BuildInv
<1>7. \A p \in CreatedPids : Finished(Regions, mem', filled', processes[p])
  BY FinishedKept DEF ProcessInv, Types
<1>8. ProcessInv'
  BY <1>1, <1>2, <1>3, <1>7 DEF ProcessInv
<1> QED
  BY <1>4, <1>5, <1>6, <1>8

LEMMA ExtendsSame == \A f : Extends(f, f)
  BY DEF Extends

\* A root is made, or there is no page for it.
LEMMA VmCreateInv ==
    ASSUME IInv, VmCreate
    PROVE  IInv' /\ SpacesStay
<1> USE DEF IInv
<1>1. /\ pc = "vm_create" /\ build' = build /\ ram_end' = ram_end
      /\ total_page_count' = total_page_count /\ filled' = filled
  BY DEF VmCreate
<1>2. Regions' = Regions /\ Ram' = Ram /\ Pids' = Pids
  BY <1>1, LayoutStays
<1>3. /\ Sound(mem, Roots, DOMAIN filled, Ram)
      /\ LeavesOwn(mem, DOMAIN filled, KernelStacks)
  BY <1>1 DEF MemoryInv
<1>4. ram_end \in RAM_ENDS
  BY DEF Types
<1>5. CASE Full(mem)
  <2>1. Failed /\ mem' = mem
    BY <1>5 DEF VmCreate
  <2>2. Extends(filled, filled') /\ filled' \in [DOMAIN filled' -> VirtualPages]
    BY <1>1, ExtendsSame DEF Types
  <2>3. SpacesStay
    BY <2>1 DEF SpacesStay, Failed
  <2> QED
    BY <2>1, <2>2, <2>3, <1>1, <1>3, <1>5, FailedInv
<1>6. CASE ~Full(mem)
  <2> DEFINE p == Head(mem.free_list)
  <2>1. /\ mem' = [page_alloc(mem) EXCEPT !.tables =
                     [q \in DOMAIN @ \cup {p} |-> IF q = p THEN ZeroTable ELSE mem.tables[q]]]
        /\ root' = p /\ pc' = "map" /\ region' = 1 /\ at' = Regions[1].start
        /\ pid' = pid /\ processes' = processes
    BY <1>6 DEF VmCreate
  <2>2. mem' = WithRoot(mem)
    <3>1. mem \in Memory /\ mem.free_page_count = Len(mem.free_list)
      BY <1>3 DEF Sound, PagesOf
    <3>2. page_alloc(mem).tables = mem.tables
      BY <3>1, <1>6, AllocFacts
    <3> QED
      BY <2>1, <3>2 DEF WithRoot, WithTable
  <2> HIDE DEF p
  <2>3. /\ p \in Ram /\ p \notin DOMAIN mem.tables /\ p \notin Roots /\ p \notin DOMAIN filled
        /\ Sound(mem', Roots \cup {p}, DOMAIN filled, Ram)
        /\ LeavesKept(mem, mem')
        /\ \A v \in VirtualPages :
              /\ Lookup(mem', p, v) = Invalid
              /\ \A s \in Roots : Lookup(mem', s, v) = Lookup(mem, s, v)
    BY <2>2, <1>3, <1>6, RootFacts DEF p
  <2>4. p # 0
    BY <2>3, <1>4, Layout DEF Ram
  <2>5. CreatedPids' = CreatedPids /\ KernelStacks' = KernelStacks
    BY <2>1, <1>1, <1>2 DEF CreatedPids, KernelStacks
  <2>6. \A q \in CreatedPids : q \in Pids /\ processes[q].pagetable \in Roots
    BY DEF CreatedPids, ProcessInv, Finished, Roots
  <2>7. Roots' = Roots \cup {p}
    <3>1. root = 0 \/ \E q \in Pids : root = processes[q].pagetable
      BY <1>1 DEF BuildInv, CreatedPids
    <3> QED
      BY <3>1, <2>1, <2>4, <1>2 DEF Roots
  <2>8. 1 \in 1 .. Len(Regions) /\ Regions[1].start \in VirtualPages
    BY <1>4, RegionsAre, RegionFacts
  <2>9. Types'
    BY <2>1, <2>8, <1>1, <1>2 DEF Types
  <2>10. MemoryInv'
    <3>1. LeavesOwn(mem', DOMAIN filled, KernelStacks)
      BY <2>3, <1>3, LeavesOwnKept
    <3> QED
      BY <3>1, <2>1, <2>3, <2>5, <2>7, <1>1, <1>2 DEF MemoryInv
  <2>11. BuildInv'
    <3>1. Building(Regions, mem', filled, p, 1, Regions[1].start)
      BY <2>3, <1>4, BuildingStart
    <3>2. \A q \in CreatedPids : processes[q].pagetable # p
      BY <2>3, <2>6
    <3>3. Regions[1].start \in Regions[1].start .. Regions[1].end
      BY <2>8, <1>4, RegionFacts
    <3> QED
      BY <3>1, <3>2, <3>3, <2>1, <2>4, <2>5, <1>1, <1>2 DEF BuildInv
  <2>12. ProcessInv'
    <3>1. \A q \in CreatedPids : Finished(Regions, mem', filled, processes[q])
      BY <2>3, <2>6, ExtendsSame, FinishedKept DEF ProcessInv
    <3> QED
      BY <3>1, <2>1, <2>5, <1>1, <1>2 DEF ProcessInv
  <2>13. SpacesStay
    BY <2>1, <2>3, <2>6 DEF SpacesStay
  <2> QED
    BY <2>9, <2>10, <2>11, <2>12, <2>13
<1> QED
  BY <1>5, <1>6

\* The next part is begun, or the stacks.
LEMMA RegionDoneInv ==
    ASSUME IInv, RegionDone
    PROVE  IInv'
<1> USE DEF IInv
<1>1. /\ pc = "map" /\ at >= Regions[region].end /\ build' = build /\ ram_end' = ram_end
      /\ mem' = mem /\ total_page_count' = total_page_count /\ filled' = filled
      /\ pid' = pid /\ root' = root /\ processes' = processes /\ pc' \in {"map", "stacks"}
  BY DEF RegionDone
<1>2. Regions' = Regions /\ Ram' = Ram /\ Pids' = Pids
  BY <1>1, LayoutStays
<1>3. CreatedPids' = CreatedPids /\ Roots' = Roots /\ KernelStacks' = KernelStacks
  BY <1>1, <1>2 DEF CreatedPids, Roots, KernelStacks
<1>4. MemoryInv'
  BY <1>1, <1>2, <1>3 DEF MemoryInv
<1>5. ProcessInv'
  BY <1>1, <1>2, <1>3 DEF ProcessInv
<1>6. /\ ram_end \in RAM_ENDS /\ region \in 1 .. Len(Regions) /\ Len(Regions) \in Nat
  BY RegionsAre DEF Types
<1>7. /\ root # 0 /\ \A p \in CreatedPids : processes[p].pagetable # root
      /\ at \in Regions[region].start .. Regions[region].end
      /\ Building(Regions, mem, filled, root, region, at)
  BY <1>1 DEF BuildInv
<1>8. at = Regions[region].end
  BY <1>1, <1>6, <1>7, RegionFacts
<1>9. CASE region < Len(Regions)
  <2>1. region' = region + 1 /\ at' = Regions[region + 1].start /\ pc' = pc
    BY <1>9 DEF RegionDone
  <2>2. region + 1 \in 1 .. Len(Regions)
    BY <1>6, <1>9
  <2>3. /\ Regions[region + 1].start \in VirtualPages
        /\ Regions[region + 1].start \in Regions[region + 1].start .. Regions[region + 1].end
    BY <2>2, <1>6, RegionFacts
  <2>4. Building(Regions, mem, filled, root, region + 1, Regions[region + 1].start)
    BY <2>2, <1>6, <1>7, <1>8, BuildingDone
  <2>5. Types'
    BY <2>1, <2>2, <2>3, <1>1, <1>2 DEF Types
  <2>6. BuildInv'
    BY <2>1, <2>3, <2>4, <1>1, <1>2, <1>3, <1>7 DEF BuildInv
  <2> QED
    BY <2>5, <2>6, <1>4, <1>5
<1>10. CASE ~(region < Len(Regions))
  <2>1. pc' = "stacks" /\ region' = region /\ at' = at
    BY <1>10 DEF RegionDone
  <2>2. region = Len(Regions)
    BY <1>6, <1>10
  <2>3. Types'
    BY <2>1, <1>1, <1>2 DEF Types
  <2>4. BuildInv'
    BY <2>1, <2>2, <1>1, <1>2, <1>3, <1>7, <1>8 DEF BuildInv
  <2> QED
    BY <2>3, <2>4, <1>4, <1>5
<1> QED
  BY <1>9, <1>10

LEMMA PagesBelow ==
    ASSUME NEW u \in VirtualPages, NEW v \in Nat, v <= u
    PROVE  v \in VirtualPages
<1> DEFINE N == FANOUT * FANOUT * FANOUT
<1>1. N \in Nat
  BY FanoutAssumption
<1>2. u \in 0 .. N - 1
  BY DEF VirtualPages
<1> HIDE DEF N
<1>3. v \in 0 .. N - 1
  BY <1>1, <1>2
<1> QED
  BY <1>3 DEF VirtualPages, N

\* Only the tables matter to a walk and to the leaves.
LEMMA SameTables ==
    ASSUME NEW m, NEW n, n.tables = m.tables
    PROVE  /\ \A r, v : Lookup(n, r, v) = Lookup(m, r, v)
           /\ \A w : LeavesKept(n, w) => LeavesKept(m, w)
           /\ \A w, t, i, e : LeafAdded(n, w, t, i, e) => LeafAdded(m, w, t, i, e)
           /\ \A F, K : LeavesOwn(m, F, K) => LeavesOwn(n, F, K)
  BY DEF Lookup, LeavesKept, LeafAdded, LeavesOwn, UserLeaf

\* The kernel stacks are filled pages.
LEMMA StacksFilled ==
    ASSUME IInv
    PROVE  \A k \in KernelStacks : k = 0 \/ k \in DOMAIN filled
<1>1. \A p \in Pids : processes[p].kernel_stack = 0 \/ processes[p].kernel_stack \in DOMAIN filled
  <2> SUFFICES ASSUME NEW p \in Pids
               PROVE  processes[p].kernel_stack = 0 \/ processes[p].kernel_stack \in DOMAIN filled
    OBVIOUS
  <2>1. CASE p \in CreatedPids
    <3>1. Finished(Regions, mem, filled, processes[p])
      BY <2>1 DEF IInv, ProcessInv
    <3> QED
      BY <3>1 DEF Finished
  <2>2. CASE p \notin CreatedPids
    <3>1. processes[p] = NoProcess
      BY <2>2 DEF IInv, ProcessInv
    <3> QED
      BY <3>1 DEF NoProcess
  <2> QED
    BY <2>1, <2>2
<1> QED
  BY <1>1 DEF KernelStacks

LEMMA RamPositive ==
    ASSUME ram_end \in RAM_ENDS
    PROVE  \A p \in Ram : p \in Nat /\ p # 0 /\ p >= KERNEL_END
  BY Layout DEF Ram

LEMMA CreatedRoots ==
    ASSUME IInv
    PROVE  \A q \in CreatedPids : q \in Pids /\ processes[q].pagetable \in Roots
  BY DEF IInv, CreatedPids, ProcessInv, Finished, Roots

\* The next page of a part is mapped, and filled if it is a copy or zeroed, or memory
\* is full.
LEMMA MapPageInv ==
    ASSUME IInv, MapPage
    PROVE  IInv' /\ SpacesStay
<1> USE DEF IInv
<1> DEFINE r == Regions[region]
           own == r.how # "identity"
           p == IF own THEN Head(mem.free_list) ELSE at
           n == IF own THEN page_alloc(mem) ELSE mem
           mapped == vm_map_page(n, root, at, p, r.flags)
           e == [pa |-> p, flags |-> r.flags \cup {"V"}]
<1>1. /\ pc = "map" /\ at < r.end /\ build' = build /\ ram_end' = ram_end
      /\ total_page_count' = total_page_count
  BY DEF MapPage
<1>2. Regions' = Regions /\ Ram' = Ram /\ Pids' = Pids
  BY <1>1, LayoutStays
<1>3. /\ Sound(mem, Roots, DOMAIN filled, Ram)
      /\ LeavesOwn(mem, DOMAIN filled, KernelStacks)
  BY <1>1 DEF MemoryInv
<1>4. /\ ram_end \in RAM_ENDS /\ region \in 1 .. Len(Regions) /\ at \in VirtualPages
      /\ filled \in [DOMAIN filled -> VirtualPages]
  BY DEF Types
<1>5. /\ root # 0 /\ \A q \in CreatedPids : processes[q].pagetable # root
      /\ at \in r.start .. r.end
      /\ Building(Regions, mem, filled, root, region, at)
  BY <1>1 DEF BuildInv
<1>6. root \in Roots
  BY <1>5 DEF Roots
<1>7. \A q \in CreatedPids : processes[q].pagetable \in Roots
  BY CreatedRoots
<1>8. CASE own /\ Full(mem)
  <2>1. Failed /\ mem' = mem /\ filled' = filled
    BY <1>8 DEF MapPage
  <2>2. Extends(filled, filled') /\ filled' \in [DOMAIN filled' -> VirtualPages]
    BY <2>1, <1>4, ExtendsSame
  <2>3. SpacesStay
    BY <2>1 DEF SpacesStay, Failed
  <2> QED
    BY <2>1, <2>2, <2>3, <1>1, <1>3, <1>8, FailedInv
<1>9. CASE ~(own /\ Full(mem))
  <2>1. /\ mem' = mapped.mem
        /\ filled' = IF own THEN [q \in DOMAIN filled \cup {p} |->
                                    IF q # p THEN filled[q] ELSE IF r.how = "copied" THEN at ELSE 0]
                     ELSE filled
        /\ mapped.ok => /\ at' = at + 1 /\ pc' = pc /\ root' = root /\ region' = region
                        /\ processes' = processes /\ pid' = pid
        /\ ~mapped.ok => Failed
    BY <1>9 DEF MapPage
  <2>2. /\ Sound(n, Roots, DOMAIN filled', Ram) /\ n.tables = mem.tables
        /\ Extends(filled, filled') /\ filled' \in [DOMAIN filled' -> VirtualPages]
        /\ p \in Nat
        /\ own => p \in DOMAIN filled' /\ p \notin DOMAIN filled /\ p \in Ram
                  /\ filled'[p] = IF r.how = "copied" THEN at ELSE 0
    <3>1. CASE own
      <4>1. /\ p \in Ram /\ p \notin DOMAIN filled /\ p \in Nat
            /\ Sound(n, Roots, DOMAIN filled \cup {p}, Ram) /\ n.tables = mem.tables
        BY <3>1, <1>3, <1>9, FillFacts
      <4> HIDE DEF p
      <4>2. filled' = [q \in DOMAIN filled \cup {p} |->
                         IF q # p THEN filled[q] ELSE IF r.how = "copied" THEN at ELSE 0]
        BY <3>1, <2>1
      <4>3. DOMAIN filled' = DOMAIN filled \cup {p} /\ filled' \in [DOMAIN filled' -> VirtualPages]
        BY <4>2, <1>4, PagesNatural
      <4> QED
        BY <4>1, <4>2, <4>3 DEF Extends
    <3>2. CASE ~own
      <4>1. n = mem /\ p = at /\ filled' = filled
        BY <3>2, <2>1
      <4> QED
        BY <4>1, <3>2, <1>3, <1>4, ExtendsSame, PagesNatural
    <3> QED
      BY <3>1, <3>2
  <2>3. In(r, at)
    BY <1>1, <1>4, <1>5, RegionFacts DEF In
  <2>4. /\ r.flags \in SUBSET Flags /\ r.flags \cap {"R", "W", "X"} # {}
        /\ "U" \in r.flags <=> own
        /\ own => ~({"W", "X"} \subseteq r.flags)
    BY <1>4, RegionFacts
  <2>5. Lookup(mem, root, at) = Invalid
    BY <2>3, <1>4, <1>5, BuildingNext
  <2>6. Maps(r, at, e, filled')
    BY <2>2 DEF Maps
  <2>7. own => ~({"W", "X"} \subseteq e.flags)
    BY <2>4
  <2>8. "U" \in e.flags <=> own
    BY <2>4
  <2>9. e.pa = p
    OBVIOUS
  <2>10. p \notin KernelStacks \/ ~own
    BY <2>2, <1>4, StacksFilled, RamPositive
  <2>11. e = [pa |-> p, flags |-> r.flags \cup {"V"}]
    OBVIOUS
  <2> HIDE DEF p, n, own, e
  <2>12. Lookup(n, root, at) = Invalid
    BY <2>2, <2>5, SameTables
  <2>13. /\ mapped.ok \in BOOLEAN /\ Sound(mem', Roots, DOMAIN filled', Ram)
         /\ ~mapped.ok => /\ Full(mem') /\ LeavesKept(n, mem')
                          /\ \A s \in Roots, u \in VirtualPages : Lookup(mem', s, u) = Lookup(n, s, u)
         /\ mapped.ok => /\ \E t, i : LeafAdded(n, mem', t, i, e)
                         /\ \A s \in Roots, u \in VirtualPages :
                               Lookup(mem', s, u) = IF s = root /\ u = at THEN e ELSE Lookup(n, s, u)
    BY <2>1, <2>2, <2>4, <2>11, <2>12, <1>4, <1>6, MapFacts
  <2> HIDE DEF mapped, r
  <2>14. \A q \in CreatedPids, v \in VirtualPages :
            Lookup(mem', processes[q].pagetable, v) = Lookup(mem, processes[q].pagetable, v)
    BY <2>2, <2>13, <1>5, <1>7, SameTables
  <2>15. DOMAIN filled \subseteq DOMAIN filled'
    BY <2>2 DEF Extends
  <2>16. CASE ~mapped.ok
    <3>1. LeavesOwn(mem', DOMAIN filled', KernelStacks)
      <4>1. LeavesKept(mem, mem')
        BY <2>2, <2>13, <2>16, SameTables
      <4> QED
        BY <4>1, <2>15, <1>3, LeavesOwnKept
    <3>2. SpacesStay
      BY <2>1, <2>14, <2>16 DEF SpacesStay, Failed
    <3> QED
      BY <3>1, <3>2, <2>1, <2>2, <2>13, <2>14, <2>16, <1>1, FailedInv
  <2>17. CASE mapped.ok
    <3>1. /\ at' = at + 1 /\ pc' = pc /\ root' = root /\ region' = region
          /\ processes' = processes /\ pid' = pid
      BY <2>1, <2>17
    <3>2. CreatedPids' = CreatedPids /\ Roots' = Roots /\ KernelStacks' = KernelStacks
      BY <3>1, <1>2 DEF CreatedPids, Roots, KernelStacks
    <3>3. LeavesOwn(mem', DOMAIN filled', KernelStacks)
      <4>1. PICK t, i : LeafAdded(mem, mem', t, i, e)
        BY <2>2, <2>13, <2>17, SameTables
      <4> QED
        BY <4>1, <2>2, <2>7, <2>8, <2>9, <2>10, <2>15, <1>3, LeavesOwnAdded
    <3>4. at \in Nat /\ r.start \in Nat /\ r.end \in Nat /\ r.end \in VirtualPages
      BY <1>4, RegionFacts, PagesNatural DEF r
    <3>5. at' \in VirtualPages /\ at' \in r.start .. r.end
      BY <3>1, <3>4, <1>1, <1>5, PagesBelow
    <3>6. Types'
      BY <3>1, <3>5, <2>2, <1>1, <1>2 DEF Types
    <3>7. MemoryInv'
      BY <3>1, <3>2, <3>3, <2>13, <1>1, <1>2 DEF MemoryInv
    <3>8. Building(Regions, mem', filled', root, region, at + 1)
      <4>1. \A u \in VirtualPages : Lookup(mem', root, u) = IF u = at THEN e ELSE Lookup(mem, root, u)
        BY <2>2, <2>13, <2>17, <1>6, SameTables
      <4> QED
        BY <4>1, <2>2, <2>3, <2>6, <1>4, <1>5, BuildingStep DEF r
    <3>9. BuildInv'
      BY <3>1, <3>2, <3>5, <3>8, <1>1, <1>2, <1>5 DEF BuildInv, r
    <3>10. ProcessInv'
      <4>1. \A q \in CreatedPids : Finished(Regions, mem', filled', processes[q])
        BY <2>2, <2>14, FinishedKept DEF ProcessInv
      <4> QED
        BY <4>1, <3>1, <3>2, <1>2 DEF ProcessInv
    <3>11. SpacesStay
      BY <3>1, <2>14 DEF SpacesStay
    <3> QED
      BY <3>6, <3>7, <3>9, <3>10, <3>11
  <2> QED
    BY <2>13, <2>16, <2>17
<1> QED
  BY <1>8, <1>9

\* The stacks are filled, the program's is mapped and the process is finished, or memory
\* is full.
LEMMA StacksInv ==
    ASSUME IInv, Stacks
    PROVE  IInv' /\ SpacesStay
<1> USE DEF IInv
<1>1. /\ pc = "stacks" /\ build' = build /\ ram_end' = ram_end
      /\ total_page_count' = total_page_count
  BY DEF Stacks
<1>2. Regions' = Regions /\ Ram' = Ram /\ Pids' = Pids
  BY <1>1, LayoutStays
<1>3. /\ Sound(mem, Roots, DOMAIN filled, Ram)
      /\ LeavesOwn(mem, DOMAIN filled, KernelStacks)
  BY <1>1 DEF MemoryInv
<1>4. /\ ram_end \in RAM_ENDS /\ region \in 1 .. Len(Regions) /\ at \in VirtualPages
      /\ pid \in Pids
      /\ filled \in [DOMAIN filled -> VirtualPages] /\ processes \in [Pids -> ProcessRecord]
  BY DEF Types
<1>5. /\ root # 0 /\ \A q \in CreatedPids : processes[q].pagetable # root
      /\ Building(Regions, mem, filled, root, Len(Regions), Regions[Len(Regions)].end)
  BY <1>1 DEF BuildInv
<1>6. root \in Roots
  BY <1>5 DEF Roots
<1>7. \A q \in CreatedPids : processes[q].pagetable \in Roots
  BY CreatedRoots
<1>8. mem.free_list \in Seq(Nat)
  BY <1>3, MemoryParts DEF Sound
<1>9. CASE Full(mem)
  <2>1. Len(mem.free_list) < 2
    BY <1>9 DEF Full
  <2>2. Failed /\ mem' = mem /\ filled' = filled
    BY <2>1, <1>9 DEF Stacks
  <2>3. Extends(filled, filled') /\ filled' \in [DOMAIN filled' -> VirtualPages]
    BY <2>2, <1>4, ExtendsSame
  <2>4. SpacesStay
    BY <2>2 DEF SpacesStay, Failed
  <2> QED
    BY <2>2, <2>3, <2>4, <1>1, <1>3, <1>9, FailedInv
<1>10. CASE ~Full(mem) /\ Len(mem.free_list) < 2
  <2> DEFINE u == Head(mem.free_list)
             m1 == page_alloc(mem)
  <2>1. /\ Failed /\ mem' = m1
        /\ filled' = [q \in DOMAIN filled \cup {u} |-> IF q \in DOMAIN filled THEN filled[q] ELSE 0]
    BY <1>10 DEF Stacks
  <2>20. ~Full(mem) /\ Sound(mem, Roots, DOMAIN filled, Ram)
    BY <1>3, <1>10
  <2>2. /\ Sound(m1, Roots, DOMAIN filled \cup {u}, Ram) /\ m1.tables = mem.tables
        /\ m1.free_list = Tail(mem.free_list)
    BY <2>20, FillFacts
  <2>3. Full(m1)
    BY <2>2, <1>8, <1>10 DEF Full
  <2> HIDE DEF u, m1
  <2>4. /\ Extends(filled, filled') /\ DOMAIN filled' = DOMAIN filled \cup {u}
        /\ filled' \in [DOMAIN filled' -> VirtualPages]
    BY <2>1, <1>4, PagesNatural DEF Extends
  <2>5. LeavesOwn(mem', DOMAIN filled', KernelStacks)
    <3>1. LeavesKept(mem, mem')
      BY <2>1, <2>2 DEF LeavesKept
    <3> QED
      BY <3>1, <2>4, <1>3, LeavesOwnKept
  <2>6. \A q \in CreatedPids, v \in VirtualPages :
           Lookup(mem', processes[q].pagetable, v) = Lookup(mem, processes[q].pagetable, v)
    BY <2>1, <2>2, SameTables
  <2>7. SpacesStay
    BY <2>1, <2>6 DEF SpacesStay, Failed
  <2> QED
    BY <2>1, <2>2, <2>3, <2>4, <2>5, <2>6, <2>7, <1>1, FailedInv
<1>11. CASE ~(Len(mem.free_list) < 2)
  <2> DEFINE u == Head(mem.free_list)
             m1 == page_alloc(mem)
             k == Head(m1.free_list)
             m2 == page_alloc(m1)
             F2 == (DOMAIN filled \cup {u}) \cup {k}
             flags == {"R", "W", "U"}
             mapped == vm_map_page(m2, root, USER_STACK_BASE, u, flags)
             e == [pa |-> u, flags |-> flags \cup {"V"}]
             new == [pagetable |-> root, kernel_stack |-> k, user_stack |-> u,
                     sp |-> USER_STACK_BASE + 1, sepc |-> USER_ENTRY]
  <2>1. /\ mem' = mapped.mem
        /\ filled' = [q \in DOMAIN filled \cup {u, k} |-> IF q \in {u, k} THEN 0 ELSE filled[q]]
        /\ ~mapped.ok => Failed
        /\ mapped.ok => /\ processes' = [processes EXCEPT ![pid] = new]
                        /\ pc' = "created" /\ root' = root /\ region' = region /\ at' = at
                        /\ pid' = pid
    BY <1>11 DEF Stacks
  <2>2. ~Full(mem) /\ Tail(mem.free_list) # <<>>
    <3> DEFINE f == mem.free_list
    <3>1. f \in Seq(Nat) /\ ~(Len(f) < 2)
      BY <1>8, <1>11
    <3> HIDE DEF f
    <3>2. f # <<>> /\ Len(Tail(f)) = Len(f) - 1 /\ Len(f) \in Nat
      BY <3>1
    <3> DEFINE g == Tail(f)
    <3>3. Len(g) = Len(f) - 1
      BY <3>2
    <3> HIDE DEF g
    <3>4. g # <<>>
      BY <3>1, <3>2, <3>3
    <3> QED
      BY <3>2, <3>4 DEF Full, f, g
  <2> HIDE DEF k, m2, F2, mapped, e, new, flags
  <2>20. ~Full(mem)
    BY <2>2
  <2>3. /\ u \in Ram /\ u \notin DOMAIN filled /\ u \in Nat
        /\ Sound(m1, Roots, DOMAIN filled \cup {u}, Ram)
        /\ m1.tables = mem.tables /\ m1.free_list = Tail(mem.free_list)
    BY <2>20, <1>3, FillFacts
  <2>4. ~Full(m1)
    BY <2>2, <2>3 DEF Full
  <2> HIDE DEF u, m1
  <2> USE DEF k, m2, F2
  <2>21. Sound(m1, Roots, DOMAIN filled \cup {u}, Ram)
    BY <2>3
  <2>22. /\ k \in Ram /\ k \notin DOMAIN filled \cup {u} /\ k \in Nat
         /\ Sound(m2, Roots, F2, Ram) /\ m2.tables = m1.tables
    BY <2>4, <2>21, FillFacts
  <2> HIDE DEF k, m2
  <2>5. /\ k \in Ram /\ k \notin DOMAIN filled /\ k # u /\ k \in Nat
        /\ Sound(m2, Roots, F2, Ram) /\ m2.tables = mem.tables
    BY <2>3, <2>22
  <2>6. /\ Extends(filled, filled') /\ DOMAIN filled' = F2 /\ filled'[u] = 0
        /\ filled' \in [DOMAIN filled' -> VirtualPages]
    <3>1. DOMAIN filled' = DOMAIN filled \cup {u, k}
      BY <2>1
    <3>2. DOMAIN filled' = F2
      BY <3>1
    <3>3. Extends(filled, filled') /\ filled'[u] = 0
      BY <2>1, <2>3, <2>5 DEF Extends
    <3>4. filled' \in [DOMAIN filled' -> VirtualPages]
      BY <2>1, <3>1, <1>4, PagesNatural
    <3> QED
      BY <3>2, <3>3, <3>4
  <2> HIDE DEF F2
  <2> USE DEF flags, e
  <2>7. USER_STACK_BASE \in VirtualPages
    <3>1. USER_STACK_BASE \in Nat /\ USER_STACK_BASE <= ram_end
      BY <1>4, Layout
    <3> QED
      BY <3>1, <1>4, BelowRamEnd
  <2>8. \A j \in 1 .. Len(Regions) : ~In(Regions[j], USER_STACK_BASE)
    BY <1>4, RegionsApart
  <2>9. \A v \in VirtualPages :
           /\ \A j \in 1 .. Len(Regions) :
                 In(Regions[j], v) => Maps(Regions[j], v, Lookup(mem, root, v), filled)
           /\ (\A j \in 1 .. Len(Regions) : ~In(Regions[j], v)) => Lookup(mem, root, v) = Invalid
    BY <1>4, <1>5, BuildingAll
  <2>10. Lookup(m2, root, USER_STACK_BASE) = Invalid
    BY <2>5, <2>7, <2>8, <2>9, SameTables
  <2>11. flags \in SUBSET Flags /\ flags \cap {"R", "W", "X"} # {}
    BY DEF Flags
  <2>12. e = [pa |-> u, flags |-> flags \cup {"V"}] /\ e.pa = u /\ ~({"W", "X"} \subseteq e.flags)
    OBVIOUS
  <2>13. e = [pa |-> u, flags |-> {"R", "W", "U", "V"}]
    OBVIOUS
  <2> HIDE DEF flags, e
  <2>14. /\ mapped.ok \in BOOLEAN /\ Sound(mem', Roots, DOMAIN filled', Ram)
         /\ ~mapped.ok => /\ Full(mem') /\ LeavesKept(m2, mem')
                          /\ \A s \in Roots, v \in VirtualPages : Lookup(mem', s, v) = Lookup(m2, s, v)
         /\ mapped.ok => /\ \E t, i : LeafAdded(m2, mem', t, i, e)
                         /\ \A s \in Roots, v \in VirtualPages :
                               Lookup(mem', s, v) = IF s = root /\ v = USER_STACK_BASE THEN e
                                                    ELSE Lookup(m2, s, v)
    <3>1. Sound(m2, Roots, DOMAIN filled', Ram) /\ u \in Nat
      BY <2>3, <2>5, <2>6
    <3>2. e = [pa |-> u, flags |-> flags \cup {"V"}]
      BY <2>12
    <3>3. mem' = mapped.mem
      BY <2>1
    <3> QED
      BY <3>1, <3>2, <3>3, <2>7, <2>10, <2>11, <1>6, MapFacts DEF mapped
  <2> HIDE DEF mapped
  <2>15. \A q \in CreatedPids, v \in VirtualPages :
            Lookup(mem', processes[q].pagetable, v) = Lookup(mem, processes[q].pagetable, v)
    BY <2>5, <2>14, <1>5, <1>7, SameTables
  <2>16. DOMAIN filled \subseteq DOMAIN filled'
    BY <2>6 DEF Extends
  <2>17. CASE ~mapped.ok
    <3>1. LeavesOwn(mem', DOMAIN filled', KernelStacks)
      <4>1. LeavesKept(mem, mem')
        BY <2>5, <2>14, <2>17, SameTables
      <4> QED
        BY <4>1, <2>16, <1>3, LeavesOwnKept
    <3>2. SpacesStay
      BY <2>1, <2>15, <2>17 DEF SpacesStay, Failed
    <3> QED
      BY <3>1, <3>2, <2>1, <2>6, <2>14, <2>15, <2>17, <1>1, FailedInv
  <2>18. CASE mapped.ok
    <3> HIDE DEF new
    <3>1. /\ processes' = [processes EXCEPT ![pid] = new]
          /\ pc' = "created" /\ root' = root /\ region' = region /\ at' = at /\ pid' = pid
      BY <2>1, <2>18
    <3>2. /\ new \in ProcessRecord /\ new.pagetable = root /\ new.kernel_stack = k
          /\ new.user_stack = u /\ new.sp = USER_STACK_BASE + 1 /\ new.sepc = USER_ENTRY
      <4>1. USER_STACK_BASE \in Nat /\ USER_ENTRY \in Nat
        BY <1>4, Layout, LayoutAssumption
      <4>2. root \in Nat
        <5>1. root \in DOMAIN mem.tables /\ DOMAIN mem.tables \subseteq Nat
          BY <1>3, <1>6, MemoryParts DEF Sound, Levelled
        <5> QED
          BY <5>1
      <4> QED
        BY <4>1, <4>2, <2>3, <2>5 DEF ProcessRecord, new
    <3>3. /\ processes'[pid] = new /\ processes' \in [Pids -> ProcessRecord]
          /\ \A q \in Pids : q # pid => processes'[q] = processes[q]
      BY <3>1, <3>2, <1>4
    <3>4. pid \notin CreatedPids /\ processes[pid] = NoProcess
      <4>1. pid \notin CreatedPids
        BY <1>1, <1>4 DEF CreatedPids, Pids
      <4> QED
        BY <4>1, <1>4 DEF ProcessInv
    <3>5. CreatedPids' = CreatedPids \cup {pid}
      BY <3>1, <1>1, <1>2, <1>4 DEF CreatedPids
    <3>6. Roots' = Roots
      <4>1. {processes'[q].pagetable : q \in Pids} \cup {root}
              = {processes[q].pagetable : q \in Pids \ {pid}} \cup {root}
        BY <3>2, <3>3, <1>4
      <4>2. {processes[q].pagetable : q \in Pids} \ {0}
              = {processes[q].pagetable : q \in Pids \ {pid}} \ {0}
        BY <3>4 DEF NoProcess
      <4> QED
        BY <4>1, <4>2, <3>1, <1>2 DEF Roots
    <3>7. /\ k \notin KernelStacks /\ u \notin KernelStacks
      BY <2>3, <2>5, <1>4, StacksFilled, RamPositive
    <3>8. KernelStacks' \subseteq KernelStacks \cup {k}
      BY <3>2, <3>3, <1>2 DEF KernelStacks
    <3>9. LeavesOwn(mem', DOMAIN filled', KernelStacks')
      <4>1. PICK t, i : LeafAdded(mem, mem', t, i, e)
        BY <2>5, <2>14, <2>18, SameTables
      <4>2. KernelStacks' \cap DOMAIN filled \subseteq KernelStacks
        BY <3>8, <2>5
      <4>3. e.pa \in DOMAIN filled' /\ e.pa \notin DOMAIN filled /\ e.pa \notin KernelStacks'
        BY <3>7, <3>8, <2>3, <2>5, <2>6, <2>12 DEF F2
      <4> QED
        BY <4>1, <4>2, <4>3, <2>12, <2>16, <1>3, LeavesOwnAdded
    <3>10. Types'
      BY <3>1, <3>3, <2>6, <1>1, <1>2, <1>4 DEF Types
    <3>11. MemoryInv'
      BY <3>1, <3>6, <3>9, <2>14, <1>1, <1>2 DEF MemoryInv
    <3>12. BuildInv'
      BY <3>1, <3>2, <3>3 DEF BuildInv
    <3>13. Finished(Regions, mem', filled', new)
      <4>1. \A v \in VirtualPages :
               Lookup(mem', root, v) = IF v = USER_STACK_BASE THEN e ELSE Lookup(mem, root, v)
        BY <2>5, <2>14, <2>18, <1>6, SameTables
      <4>2. ASSUME NEW v \in VirtualPages, NEW j \in 1 .. Len(Regions), In(Regions[j], v)
            PROVE  Maps(Regions[j], v, Lookup(mem', root, v), filled')
        <5>1. v # USER_STACK_BASE
          BY <4>2, <2>8
        <5>2. Maps(Regions[j], v, Lookup(mem, root, v), filled)
          BY <4>2, <2>9
        <5> QED
          BY <5>1, <5>2, <4>1, <2>6, MapsKept
      <4>3. new.kernel_stack \in DOMAIN filled' /\ new.user_stack \in DOMAIN filled'
            /\ filled'[new.user_stack] = 0
        BY <3>2, <2>6 DEF F2
      <4>4. Lookup(mem', root, USER_STACK_BASE)
              = [pa |-> new.user_stack, flags |-> {"R", "W", "U", "V"}]
        BY <4>1, <3>2, <2>7, <2>13
      <4>5. \A v \in VirtualPages :
               v # USER_STACK_BASE /\ (\A j \in 1 .. Len(Regions) : ~In(Regions[j], v)) =>
                  Lookup(mem', root, v) = Invalid
        BY <4>1, <2>9
      <4> QED
        BY <4>2, <4>3, <4>4, <4>5, <3>2, <1>5 DEF Finished
    <3>14. \A q \in CreatedPids : Finished(Regions, mem', filled', processes[q])
      BY <2>6, <2>15, FinishedKept DEF ProcessInv
    <3>15. \A q \in CreatedPids : q \in Pids /\ q # pid /\ processes'[q] = processes[q]
      BY <3>3, <3>4 DEF CreatedPids
    <3>16. ProcessInv'
      <4>1. \A q \in Pids : q \notin CreatedPids' => processes'[q] = NoProcess
        BY <3>3, <3>5 DEF ProcessInv
      <4>2. \A q \in CreatedPids' : Finished(Regions, mem', filled', processes'[q])
        BY <3>3, <3>5, <3>13, <3>14, <3>15
      <4>3. \A p, q \in CreatedPids' : processes'[p].pagetable = processes'[q].pagetable => p = q
        BY <3>2, <3>3, <3>5, <3>15, <1>5 DEF ProcessInv
      <4> QED
        BY <4>1, <4>2, <4>3, <1>2 DEF ProcessInv
    <3>17. SpacesStay
      BY <3>15, <2>15 DEF SpacesStay
    <3> QED
      BY <3>10, <3>11, <3>12, <3>16, <3>17
  <2> QED
    BY <2>14, <2>17, <2>18
<1> QED
  BY <1>9, <1>10, <1>11

-----------------------------------------------------------------------------
(* What the programs of finished processes reach. *)

\* The pages of an address space that are the program's.
Own(v) ==
    \/ v = USER_STACK_BASE
    \/ \E k \in 1 .. Len(Regions) : Regions[k].how # "identity" /\ In(Regions[k], v)

LEMMA OwnLeaf ==
    ASSUME ram_end \in RAM_ENDS, NEW m, NEW f, NEW p, Finished(Regions, m, f, p),
           NEW v \in VirtualPages, Own(v)
    PROVE  LET e == Lookup(m, p.pagetable, v)
           IN  Valid(e) /\ Leaf(e) /\ "U" \in e.flags /\ e.pa \in DOMAIN f
<1> DEFINE e == Lookup(m, p.pagetable, v)
<1>1. CASE v = USER_STACK_BASE
  <2>1. e = [pa |-> p.user_stack, flags |-> {"R", "W", "U", "V"}] /\ p.user_stack \in DOMAIN f
    BY <1>1 DEF Finished
  <2> HIDE DEF e
  <2>2. e.flags = {"R", "W", "U", "V"} /\ e.pa \in DOMAIN f
    BY <2>1
  <2>3. Valid(e) /\ Leaf(e) /\ "U" \in e.flags
    BY <2>2 DEF Valid, Leaf
  <2> QED
    BY <2>2, <2>3 DEF e
<1>2. CASE \E k \in 1 .. Len(Regions) : Regions[k].how # "identity" /\ In(Regions[k], v)
  <2>1. PICK k \in 1 .. Len(Regions) : Regions[k].how # "identity" /\ In(Regions[k], v)
    BY <1>2
  <2>2. Maps(Regions[k], v, e, f)
    BY <2>1 DEF Finished
  <2>3. /\ Regions[k].flags \cap {"R", "W", "X"} # {} /\ "U" \in Regions[k].flags
    BY <2>1, RegionFacts
  <2> HIDE DEF e
  <2>4. e.flags = Regions[k].flags \cup {"V"} /\ e.pa \in DOMAIN f
    BY <2>1, <2>2 DEF Maps
  <2>5. Valid(e) /\ Leaf(e) /\ "U" \in e.flags
    BY <2>3, <2>4 DEF Valid, Leaf
  <2> QED
    BY <2>4, <2>5 DEF e
<1> QED
  BY <1>1, <1>2 DEF Own

\* A leaf that a walk finds is an entry of the table where the walk ends.
LEMMA LookupLeaf ==
    ASSUME NEW m \in Memory, NEW R, NEW lv, Levelled(m, R, lv),
           NEW r \in R, NEW v \in VirtualPages, NEW e, e = Lookup(m, r, v),
           Leaf(e), "U" \in e.flags
    PROVE  \E t : /\ Reaches(m, r, v, t) /\ UserLeaf(m, t, VPN_INDEX(v, 0))
                  /\ m.tables[t][VPN_INDEX(v, 0)] = e
<1>1. PICK t : Reaches(m, r, v, t)
  BY NotReached, InvalidFlags
<1>2. t \in DOMAIN m.tables /\ e = m.tables[t][VPN_INDEX(v, 0)]
  BY <1>1, ReachesFacts
<1>3. VPN_INDEX(v, 0) \in Indices
  BY VpnType
<1> QED
  BY <1>1, <1>2, <1>3 DEF UserLeaf

\* Two processes find different pages.
LEMMA OwnApart ==
    ASSUME NEW m, NEW R, NEW F, NEW ram, Sound(m, R, F, ram), NEW K, LeavesOwn(m, F, K),
           NEW r \in R, NEW v \in VirtualPages, NEW s \in R, NEW u \in VirtualPages, r # s,
           NEW e, e = Lookup(m, r, v), Leaf(e), "U" \in e.flags,
           NEW d, d = Lookup(m, s, u), Leaf(d), "U" \in d.flags
    PROVE  e.pa # d.pa
<1>1. PICK lv : m \in Memory /\ Levelled(m, R, lv)
  BY DEF Sound
<1>2. PICK t : /\ Reaches(m, r, v, t) /\ UserLeaf(m, t, VPN_INDEX(v, 0))
               /\ m.tables[t][VPN_INDEX(v, 0)] = e
  BY <1>1, LookupLeaf
<1>3. PICK w : /\ Reaches(m, s, u, w) /\ UserLeaf(m, w, VPN_INDEX(u, 0))
               /\ m.tables[w][VPN_INDEX(u, 0)] = d
  BY <1>1, LookupLeaf
<1>4. t # w
  BY <1>1, <1>2, <1>3, ReachesOnce
<1> QED
  BY <1>2, <1>3, <1>4 DEF LeavesOwn

\* What vm_translate finds for the pages of finished processes.
LEMMA Translated ==
    ASSUME IInv, pc # "pmm_init", NEW p \in CreatedPids, NEW v \in VirtualPages, Own(v)
    PROVE  /\ vm_translate(processes[p].pagetable, v) \in Ram
           /\ vm_translate(processes[p].pagetable, v) # 0
           /\ \A q \in CreatedPids, u \in VirtualPages : p # q /\ Own(u) =>
                 vm_translate(processes[p].pagetable, v) # vm_translate(processes[q].pagetable, u)
<1>1. ram_end \in RAM_ENDS
  BY DEF IInv, Types
<1>2. /\ Sound(mem, Roots, DOMAIN filled, Ram) /\ LeavesOwn(mem, DOMAIN filled, KernelStacks)
  BY DEF IInv, MemoryInv
<1>3. DOMAIN filled \subseteq Ram
  BY <1>2 DEF Sound, PagesOf
<1>4. ASSUME NEW q \in CreatedPids, NEW u \in VirtualPages, Own(u)
      PROVE  LET e == Lookup(mem, processes[q].pagetable, u)
             IN  /\ Valid(e) /\ Leaf(e) /\ "U" \in e.flags /\ e.pa \in DOMAIN filled
                 /\ vm_translate(processes[q].pagetable, u) = e.pa
                 /\ processes[q].pagetable \in Roots
  <2> DEFINE e == Lookup(mem, processes[q].pagetable, u)
  <2>1. Finished(Regions, mem, filled, processes[q])
    BY DEF IInv, ProcessInv
  <2>2. Valid(e) /\ Leaf(e) /\ "U" \in e.flags /\ e.pa \in DOMAIN filled
    BY <2>1, <1>1, <1>4, OwnLeaf
  <2>3. Entry(processes[q].pagetable, u) = e
    BY EntryLookup
  <2> HIDE DEF e
  <2>4. vm_translate(processes[q].pagetable, u) = e.pa
    BY <2>2, <2>3 DEF vm_translate
  <2>5. processes[q].pagetable \in Roots
    BY CreatedRoots
  <2> QED
    BY <2>2, <2>4, <2>5 DEF e
<1>5. ASSUME NEW q \in CreatedPids, NEW u \in VirtualPages, p # q, Own(u)
      PROVE  vm_translate(processes[p].pagetable, v) # vm_translate(processes[q].pagetable, u)
  <2>1. processes[p].pagetable # processes[q].pagetable
    BY <1>5 DEF IInv, ProcessInv
  <2> DEFINE e == Lookup(mem, processes[p].pagetable, v)
             d == Lookup(mem, processes[q].pagetable, u)
  <2>2. /\ Leaf(e) /\ "U" \in e.flags /\ vm_translate(processes[p].pagetable, v) = e.pa
        /\ processes[p].pagetable \in Roots
    BY <1>4
  <2>3. /\ Leaf(d) /\ "U" \in d.flags /\ vm_translate(processes[q].pagetable, u) = d.pa
        /\ processes[q].pagetable \in Roots
    BY <1>4, <1>5
  <2>4. e = Lookup(mem, processes[p].pagetable, v) /\ d = Lookup(mem, processes[q].pagetable, u)
    OBVIOUS
  <2> HIDE DEF e, d
  <2>5. e.pa # d.pa
    BY <2>1, <2>2, <2>3, <2>4, <1>2, OwnApart
  <2> QED
    BY <2>2, <2>3, <2>5
<1>6. vm_translate(processes[p].pagetable, v) \in DOMAIN filled
  BY <1>4
<1>7. vm_translate(processes[p].pagetable, v) \in Ram
  BY <1>3, <1>6
<1>8. vm_translate(processes[p].pagetable, v) # 0
  BY <1>1, <1>7, RamPositive
<1> QED
  BY <1>5, <1>7, <1>8

\* The pages that the tests of the kernel look at are the program's.
LEMMA TestedOwn ==
    ASSUME ram_end \in RAM_ENDS
    PROVE  /\ USER_TEXT.start \in VirtualPages /\ Own(USER_TEXT.start)
           /\ USER_STACK_BASE \in VirtualPages /\ Own(USER_STACK_BASE)
           /\ USER_ENTRY \in VirtualPages
           /\ build = "memory" => /\ BENCHMARK_WORKING_SET_BASE \in VirtualPages
                                  /\ Own(BENCHMARK_WORKING_SET_BASE)
<1>1. /\ USER_TEXT.start \in VirtualPages /\ In(Regions[6], USER_TEXT.start)
      /\ Regions[6].how # "identity" /\ 6 \in 1 .. Len(Regions)
  <2>1. 6 \in 1 .. Len(Regions)
    BY RegionsAre
  <2>2. Regions[6].start = USER_TEXT.start /\ Regions[6].end = USER_TEXT.end /\ Regions[6].how = "copied"
    BY RegionsAre DEF Copied
  <2>3. USER_TEXT.start \in VirtualPages
    BY <2>1, <2>2, RegionFacts
  <2> QED
    BY <2>1, <2>2, <2>3, Layout DEF In
<1>2. USER_STACK_BASE \in VirtualPages
  BY Layout, BelowRamEnd
<1>3. USER_ENTRY \in VirtualPages
  <2>1. USER_ENTRY \in USER_TEXT.start .. USER_TEXT.end - 1
    BY LayoutAssumption
  <2>2. USER_TEXT.start \in Nat /\ USER_TEXT.end \in Nat /\ USER_TEXT.end <= ram_end
        /\ ram_end \in Nat
    BY Layout
  <2> QED
    BY <2>1, <2>2, BelowRamEnd
<1>4. ASSUME build = "memory"
      PROVE  /\ BENCHMARK_WORKING_SET_BASE \in VirtualPages
             /\ In(Regions[8], BENCHMARK_WORKING_SET_BASE)
             /\ Regions[8].how # "identity" /\ 8 \in 1 .. Len(Regions)
  <2>1. 8 \in 1 .. Len(Regions)
    BY <1>4, RegionsAre
  <2>2. /\ Regions[8].start = WorkingSet.start /\ Regions[8].end = WorkingSet.end
        /\ Regions[8].how = "zeroed"
    BY <1>4, RegionsAre DEF Zeroed
  <2>3. WorkingSet.start = BENCHMARK_WORKING_SET_BASE
    BY DEF WorkingSet
  <2>4. WorkingSet.start \in VirtualPages
    BY <2>1, <2>2, RegionFacts
  <2>5. WorkingSet.start \in Nat /\ WorkingSet.end \in Nat /\ WorkingSet.start < WorkingSet.end
    BY Layout
  <2>6. In(Regions[8], BENCHMARK_WORKING_SET_BASE)
    BY <2>2, <2>3, <2>5 DEF In
  <2> QED
    BY <2>1, <2>2, <2>3, <2>4, <2>6
<1> QED
  BY <1>1, <1>2, <1>3, <1>4 DEF Own

\* The next process follows, or the kernel has booted: the working sets differ.
LEMMA CreatedInv ==
    ASSUME IInv, Created
    PROVE  IInv'
<1> USE DEF IInv
<1>1. /\ pc = "created" /\ build' = build /\ ram_end' = ram_end /\ mem' = mem
      /\ total_page_count' = total_page_count /\ filled' = filled /\ root' = root
      /\ region' = region /\ at' = at /\ processes' = processes
  BY DEF Created
<1>2. Regions' = Regions /\ Ram' = Ram /\ Pids' = Pids
  BY <1>1, LayoutStays
<1>3. Roots' = Roots /\ KernelStacks' = KernelStacks
  BY <1>1, <1>2 DEF Roots, KernelStacks
<1>4. pid \in Pids /\ Pids \subseteq {1, 2} /\ root = processes[pid].pagetable
      /\ pid \in CreatedPids /\ ram_end \in RAM_ENDS
  BY <1>1 DEF Types, BuildInv, Pids, CreatedPids
<1>5. CASE pid + 1 \in Pids
  <2>1. pid' = pid + 1 /\ pc' = "vm_create"
    BY <1>5 DEF Created
  <2>2. CreatedPids' = CreatedPids
    <3>1. \A p \in Pids : p < pid + 1 <=> p < pid \/ p = pid
      BY <1>4
    <3> QED
      BY <3>1, <2>1, <1>1, <1>2 DEF CreatedPids
  <2>3. Types'
    BY <2>1, <1>1, <1>2, <1>5 DEF Types
  <2>4. MemoryInv'
    BY <2>1, <1>1, <1>2, <1>3 DEF MemoryInv
  <2>5. BuildInv'
    BY <2>1, <2>2, <1>1, <1>4 DEF BuildInv
  <2>6. ProcessInv'
    BY <2>2, <1>1, <1>2 DEF ProcessInv
  <2> QED
    BY <2>3, <2>4, <2>5, <2>6
<1>6. CASE pid + 1 \notin Pids
  <2>1. pid' = pid /\ pc' = "booted"
    <3>1. CASE build # "memory"
      BY <3>1, <1>6 DEF Created
    <3>2. CASE build = "memory"
      <4> DEFINE set(p) == vm_translate(processes[p].pagetable, BENCHMARK_WORKING_SET_BASE)
      <4>1. Pids = {1, 2} /\ pid = 2
        BY <3>2, <1>4, <1>6 DEF Pids
      <4>2. 1 \in CreatedPids /\ 2 \in CreatedPids
        BY <4>1, <1>1 DEF CreatedPids
      <4>3. set(1) # 0 /\ set(2) # 0 /\ set(1) # set(2)
        BY <4>2, <3>2, <1>1, <1>4, Translated, TestedOwn
      <4>4. pid' = pid /\ pc' = IF set(1) = 0 \/ set(2) = 0 \/ set(1) = set(2) THEN "not isolated"
                                ELSE "booted"
        BY <3>2, <1>6 DEF Created
      <4> QED
        BY <4>3, <4>4
    <3> QED
      BY <3>1, <3>2
  <2>2. CreatedPids' = CreatedPids
    BY <2>1, <1>1, <1>2 DEF CreatedPids
  <2>3. Types'
    BY <2>1, <1>1, <1>2 DEF Types
  <2>4. MemoryInv'
    BY <2>1, <1>1, <1>2, <1>3 DEF MemoryInv
  <2>5. BuildInv'
    BY <2>1, <1>1, <1>2, <1>4, <1>6 DEF BuildInv
  <2>6. ProcessInv'
    BY <2>2, <1>1, <1>2 DEF ProcessInv
  <2> QED
    BY <2>3, <2>4, <2>5, <2>6
<1> QED
  BY <1>5, <1>6

\* A step that changes nothing.
LEMMA StutterInv ==
    ASSUME IInv, UNCHANGED vars
    PROVE  IInv'
<1>1. /\ build' = build /\ ram_end' = ram_end /\ mem' = mem
      /\ total_page_count' = total_page_count /\ filled' = filled /\ pc' = pc /\ pid' = pid
      /\ root' = root /\ region' = region /\ at' = at /\ processes' = processes
  BY DEF vars
<1>2. Regions' = Regions /\ Ram' = Ram /\ Pids' = Pids
  BY <1>1, LayoutStays
<1>3. CreatedPids' = CreatedPids /\ Roots' = Roots /\ KernelStacks' = KernelStacks
  BY <1>1, <1>2 DEF CreatedPids, Roots, KernelStacks
<1> QED
  BY <1>1, <1>2, <1>3 DEF IInv, Types, MemoryInv, BuildInv, ProcessInv

\* Every reachable state satisfies IInv.
THEOREM Invariance == Spec => []IInv
<1>1. IInv /\ [Next]_vars => IInv'
  BY PmmInitInv, VmCreateInv, RegionDoneInv, MapPageInv, StacksInv, CreatedInv, StutterInv
     DEF Next, Stopped
<1> QED
  BY InitInv, <1>1, PTL DEF Spec

-----------------------------------------------------------------------------
(* The theorems. *)

\* Types, as far as TypeOK does not follow from the parts of IInv by name.
LEMMA TypesHold == IInv => TypeOK
<1> SUFFICES ASSUME IInv
             PROVE  TypeOK
  OBVIOUS
<1>1. /\ build \in {"shell", "cpu", "memory"} /\ ram_end \in RAM_ENDS
      /\ pc \in {"pmm_init", "vm_create", "map", "stacks", "created", "booted", "failed"}
      /\ pid \in Pids /\ region \in 1 .. Len(Regions) /\ at \in VirtualPages
      /\ total_page_count \in Nat /\ filled \in [DOMAIN filled -> VirtualPages]
  BY DEF IInv, Types
<1> DEFINE S == IF pc = "pmm_init" THEN KERNEL_END .. at - 1 ELSE Ram
<1>2. mem \in Memory /\ PagesOf(mem, DOMAIN filled, S)
  BY DEF IInv, MemoryInv, Sound
<1>3. S \subseteq Ram
  <2>1. CASE pc = "pmm_init"
    <3>1. at \in KERNEL_END .. ram_end
      BY <2>1 DEF IInv, BuildInv
    <3>2. KERNEL_END \in Nat /\ ram_end \in Nat
      BY <1>1, Layout
    <3> QED
      BY <2>1, <3>1, <3>2 DEF Ram
  <2>2. CASE pc # "pmm_init"
    BY <2>2
  <2> QED
    BY <2>1, <2>2
<1> HIDE DEF S
<1>4. /\ mem.free_list \in Seq(Nat) /\ mem.free_page_count \in Nat
      /\ \A t \in DOMAIN mem.tables : mem.tables[t] \in [Indices -> PTE]
  BY <1>2, MemoryParts
<1>5. /\ DOMAIN mem.tables \subseteq Ram /\ DOMAIN filled \subseteq Ram
      /\ \A k \in 1 .. Len(mem.free_list) : mem.free_list[k] \in Ram
  BY <1>2, <1>3 DEF PagesOf
<1>6. mem.free_list \in Seq(Ram)
  <2> DEFINE f == mem.free_list
  <2>1. f \in Seq(Nat) /\ \A k \in 1 .. Len(f) : f[k] \in Ram
    BY <1>4, <1>5
  <2> HIDE DEF f
  <2> QED
    BY <2>1 DEF f
<1>7. \A q \in DOMAIN filled : filled[q] \in VirtualPages
  BY <1>1
<1> QED
  BY <1>1, <1>4, <1>5, <1>6, <1>7 DEF TypeOK

\* The variables keep their types.
THEOREM TypeCorrect == Spec => []TypeOK
  BY Invariance, TypesHold, PTL

\* Creation fails only when memory is full, and the isolation check of kernel_main passes.
THEOREM FailureMeansFull == Spec => []FailsOnlyWhenFull
<1>1. IInv => FailsOnlyWhenFull
  BY DEF IInv, Types, MemoryInv, FailsOnlyWhenFull
<1> QED
  BY Invariance, <1>1, PTL

\* Every page of memory has one use, in failed creations too, and the counters are exact.
THEOREM PagesAccounted == Spec => []EveryPageOneUse
<1>1. IInv => EveryPageOneUse
  <2> SUFFICES ASSUME IInv
               PROVE  EveryPageOneUse
    OBVIOUS
  <2> DEFINE S == IF pc = "pmm_init" THEN KERNEL_END .. at - 1 ELSE Ram
  <2>1. PICK lv : mem \in Memory /\ PagesOf(mem, DOMAIN filled, S) /\ Levelled(mem, Roots, lv)
    BY DEF IInv, MemoryInv, Sound
  <2>2. pc # "pmm_init" => total_page_count = ram_end - KERNEL_END /\ S = Ram
    BY DEF IInv, MemoryInv
  <2> HIDE DEF S
  <2>3. /\ \A j, k \in 1 .. Len(mem.free_list) : mem.free_list[j] = mem.free_list[k] => j = k
        /\ FreePages \cap TablePages = {} /\ FreePages \cap DOMAIN filled = {}
        /\ TablePages \cap DOMAIN filled = {}
        /\ S = FreePages \cup TablePages \cup DOMAIN filled
        /\ mem.free_page_count = Len(mem.free_list)
    BY <2>1 DEF PagesOf, FreePages, TablePages
  <2>4. /\ lv \in [DOMAIN mem.tables -> {0, 1, 2}]
        /\ Roots = {t \in DOMAIN mem.tables : lv[t] = 2}
    BY <2>1 DEF Levelled
  <2>5. ASSUME NEW a \in Links
        PROVE  /\ a[1] \in DOMAIN mem.tables /\ a[2] \in Indices /\ a = <<a[1], a[2]>>
               /\ lv[a[1]] # 0 /\ Valid(mem.tables[a[1]][a[2]])
               /\ Pte(a).pa \in DOMAIN mem.tables /\ lv[Pte(a).pa] = lv[a[1]] - 1
    <3>1. /\ a[1] \in DOMAIN mem.tables /\ a[2] \in Indices /\ a = <<a[1], a[2]>>
          /\ Valid(mem.tables[a[1]][a[2]]) /\ ~Leaf(mem.tables[a[1]][a[2]])
      BY DEF Links, Entries, TablePages, Pte
    <3> QED
      BY <3>1, <2>1 DEF Levelled, Pte
  <2>6. \A a, b \in Links : Pte(a).pa = Pte(b).pa => a = b
    <3> SUFFICES ASSUME NEW a \in Links, NEW b \in Links, Pte(a).pa = Pte(b).pa
                 PROVE  a = b
      OBVIOUS
    <3> DEFINE t == a[1]  i == a[2]  u == b[1]  j == b[2]
    <3>1. \A x, y \in DOMAIN mem.tables, k, l \in Indices :
             /\ lv[x] # 0 /\ Valid(mem.tables[x][k])
             /\ lv[y] # 0 /\ Valid(mem.tables[y][l])
             /\ mem.tables[x][k].pa = mem.tables[y][l].pa
             => x = y /\ k = l
      BY <2>1 DEF Levelled
    <3>2. /\ t \in DOMAIN mem.tables /\ i \in Indices /\ lv[t] # 0 /\ Valid(mem.tables[t][i])
          /\ u \in DOMAIN mem.tables /\ j \in Indices /\ lv[u] # 0 /\ Valid(mem.tables[u][j])
      BY <2>5
    <3>3. mem.tables[t][i].pa = mem.tables[u][j].pa
      BY DEF Pte
    <3> HIDE DEF t, i, u, j
    <3>4. t = u /\ i = j
      BY <3>1, <3>2, <3>3
    <3> QED
      BY <3>4, <2>5 DEF t, i, u, j
  <2>7. {Pte(a).pa : a \in Links} \cap Roots = {}
    <3> SUFFICES ASSUME NEW a \in Links
                 PROVE  Pte(a).pa \notin Roots
      OBVIOUS
    <3>1. lv[Pte(a).pa] = lv[a[1]] - 1 /\ lv[a[1]] \in {0, 1, 2}
      BY <2>4, <2>5
    <3> QED
      BY <3>1, <2>4
  <2>8. {Pte(a).pa : a \in Links} \cup Roots = TablePages
    <3>1. ASSUME NEW t \in DOMAIN mem.tables, t \notin Roots
          PROVE  \E a \in Links : Pte(a).pa = t
      <4>1. PICK w \in DOMAIN mem.tables, j \in Indices :
                lv[w] # 0 /\ Valid(mem.tables[w][j]) /\ mem.tables[w][j].pa = t
        BY <3>1, <2>1, <2>4 DEF Levelled
      <4>2. ~Leaf(mem.tables[w][j])
        BY <4>1, <2>1 DEF Levelled
      <4>3. <<w, j>> \in Links /\ Pte(<<w, j>>).pa = t
        BY <4>1, <4>2 DEF Links, Entries, TablePages, Pte
      <4> QED
        BY <4>3
    <3> QED
      BY <3>1, <2>4, <2>5 DEF TablePages
  <2> QED
    BY <2>2, <2>3, <2>6, <2>7, <2>8 DEF EveryPageOneUse
<1> QED
  BY Invariance, <1>1, PTL

\* A finished process has the address space that MapsExactly describes.
LEMMA FinishedMaps ==
    ASSUME ram_end \in RAM_ENDS, NEW p, Finished(Regions, mem, filled, processes[p])
    PROVE  MapsExactly(p)
<1> DEFINE r == processes[p].pagetable
           Inside(s, v) == v \in s.start .. s.end - 1
           Is(v, pa, flags) == Entry(r, v) = [pa |-> pa, flags |-> flags \cup {"V"}]
           Holds(v, what, flags) ==
               /\ Entry(r, v).flags = flags \cup {"V"}
               /\ Entry(r, v).pa \in DOMAIN filled /\ filled[Entry(r, v).pa] = what
<1>1. ASSUME NEW v \in VirtualPages
      PROVE  /\ Inside(TEXT, v) => Is(v, v, {"R", "X"})
             /\ Inside(RODATA, v) => Is(v, v, {"R"})
             /\ Inside(DATA, v) \/ v \in Ram \/ v = UART0 => Is(v, v, {"R", "W"})
             /\ Inside(USER_TEXT, v) => Holds(v, v, {"R", "X", "U"})
             /\ Inside(USER_RODATA, v) => Holds(v, v, {"R", "U"})
             /\ v = USER_STACK_BASE => /\ Is(v, processes[p].user_stack, {"R", "W", "U"})
                                       /\ Holds(v, 0, {"R", "W", "U"})
             /\ build = "memory" /\ Inside(WorkingSet, v) => Holds(v, 0, {"R", "W", "U"})
             /\ ~(\/ Inside(TEXT, v) \/ Inside(RODATA, v)
                  \/ Inside(DATA, v) \/ v \in Ram \/ v = UART0
                  \/ Inside(USER_TEXT, v) \/ Inside(USER_RODATA, v) \/ v = USER_STACK_BASE
                  \/ build = "memory" /\ Inside(WorkingSet, v)) => Entry(r, v) = Invalid
  <2> DEFINE e == Lookup(mem, r, v)
  <2>1. Entry(r, v) = e
    BY EntryLookup
  <2>2. /\ \A k \in 1 .. Len(Regions) : In(Regions[k], v) => Maps(Regions[k], v, e, filled)
        /\ v = USER_STACK_BASE =>
              /\ e = [pa |-> processes[p].user_stack, flags |-> {"R", "W", "U", "V"}]
              /\ processes[p].user_stack \in DOMAIN filled /\ filled[processes[p].user_stack] = 0
        /\ v # USER_STACK_BASE /\ (\A k \in 1 .. Len(Regions) : ~In(Regions[k], v)) => e = Invalid
    BY DEF Finished
  <2>3. v \in Nat /\ UART0 \in Nat
    BY PagesNatural, Layout
  <2> HIDE DEF e
  <2>4. /\ In(Regions[1], v) <=> Inside(TEXT, v)
        /\ In(Regions[2], v) <=> Inside(RODATA, v)
        /\ In(Regions[3], v) <=> Inside(DATA, v)
        /\ In(Regions[4], v) <=> v \in Ram
        /\ In(Regions[5], v) <=> v = UART0
        /\ In(Regions[6], v) <=> Inside(USER_TEXT, v)
        /\ In(Regions[7], v) <=> Inside(USER_RODATA, v)
        /\ build = "memory" => (In(Regions[8], v) <=> Inside(WorkingSet, v))
    BY <2>3, RegionsAre DEF In, Identity, Copied, Zeroed, Ram
  <2>5. /\ Inside(TEXT, v) => Maps(Regions[1], v, e, filled)
        /\ Inside(RODATA, v) => Maps(Regions[2], v, e, filled)
        /\ Inside(DATA, v) => Maps(Regions[3], v, e, filled)
        /\ v \in Ram => Maps(Regions[4], v, e, filled)
        /\ v = UART0 => Maps(Regions[5], v, e, filled)
        /\ Inside(USER_TEXT, v) => Maps(Regions[6], v, e, filled)
        /\ Inside(USER_RODATA, v) => Maps(Regions[7], v, e, filled)
        /\ build = "memory" /\ Inside(WorkingSet, v) => Maps(Regions[8], v, e, filled)
    BY <2>2, <2>4, RegionsAre
  <2> HIDE DEF r, Inside
  <2>6. /\ Inside(TEXT, v) => Is(v, v, {"R", "X"})
        /\ Inside(RODATA, v) => Is(v, v, {"R"})
        /\ Inside(DATA, v) \/ v \in Ram \/ v = UART0 => Is(v, v, {"R", "W"})
    BY <2>1, <2>5, RegionsAre DEF Maps, Identity
  <2>7. /\ Inside(USER_TEXT, v) => Holds(v, v, {"R", "X", "U"})
        /\ Inside(USER_RODATA, v) => Holds(v, v, {"R", "U"})
        /\ build = "memory" /\ Inside(WorkingSet, v) => Holds(v, 0, {"R", "W", "U"})
    BY <2>1, <2>5, RegionsAre DEF Maps, Copied, Zeroed
  <2>8. v = USER_STACK_BASE => /\ Is(v, processes[p].user_stack, {"R", "W", "U"})
                               /\ Holds(v, 0, {"R", "W", "U"})
    BY <2>1, <2>2
  <2>9. ASSUME ~(\/ Inside(TEXT, v) \/ Inside(RODATA, v)
                 \/ Inside(DATA, v) \/ v \in Ram \/ v = UART0
                 \/ Inside(USER_TEXT, v) \/ Inside(USER_RODATA, v) \/ v = USER_STACK_BASE
                 \/ build = "memory" /\ Inside(WorkingSet, v))
        PROVE  Entry(r, v) = Invalid
    <3>1. ASSUME NEW k \in 1 .. Len(Regions)
          PROVE  ~In(Regions[k], v)
      <4>1. \/ k = 1 \/ k = 2 \/ k = 3 \/ k = 4 \/ k = 5 \/ k = 6 \/ k = 7
            \/ k = 8 /\ build = "memory"
        BY RegionsAre
      <4> QED
        BY <4>1, <2>4, <2>9
    <3> QED
      BY <3>1, <2>1, <2>2, <2>9
  <2> QED
    BY <2>6, <2>7, <2>8, <2>9
<1> QED
  BY <1>1 DEF MapsExactly

\* What process_create leaves: the kernel's part of an address space where it is without
\* paging, the program's own pages as they have to be filled, nothing else, and a frame
\* that starts the program.
THEOREM SpaceComplete == Spec => []AddressSpaceComplete
<1>1. IInv => AddressSpaceComplete
  <2> SUFFICES ASSUME IInv, pc \in {"created", "booted"}
               PROVE  /\ MapsExactly(pid)
                      /\ {"X", "U"} \subseteq Entry(processes[pid].pagetable, processes[pid].sepc).flags
                      /\ Entry(processes[pid].pagetable, processes[pid].sp - 1).pa
                           = processes[pid].user_stack
    BY DEF AddressSpaceComplete
  <2>1. ram_end \in RAM_ENDS /\ pid \in Pids
    BY DEF IInv, Types
  <2>2. Finished(Regions, mem, filled, processes[pid])
    BY <2>1 DEF IInv, ProcessInv, CreatedPids
  <2>3. MapsExactly(pid)
    BY <2>1, <2>2, FinishedMaps
  <2>4. processes[pid].sp = USER_STACK_BASE + 1 /\ processes[pid].sepc = USER_ENTRY
    BY <2>2 DEF Finished
  <2>5. /\ USER_STACK_BASE \in VirtualPages /\ USER_ENTRY \in VirtualPages
        /\ USER_STACK_BASE \in Nat
    BY <2>1, TestedOwn, Layout
  <2> DEFINE e == Lookup(mem, processes[pid].pagetable, USER_ENTRY)
             d == Lookup(mem, processes[pid].pagetable, USER_STACK_BASE)
  <2>6. e.flags = {"R", "X", "U"} \cup {"V"}
    <3>1. 6 \in 1 .. Len(Regions) /\ Regions[6] = Copied(USER_TEXT, {"R", "X", "U"})
      BY RegionsAre
    <3>2. In(Regions[6], USER_ENTRY)
      BY <3>1, LayoutAssumption DEF In, Copied
    <3>3. Maps(Regions[6], USER_ENTRY, e, filled)
      BY <2>2, <2>5, <3>1, <3>2 DEF Finished
    <3> QED
      BY <3>1, <3>3 DEF Maps, Copied
  <2>7. d.pa = processes[pid].user_stack
    BY <2>2, <2>5 DEF Finished
  <2>8. processes[pid].sp - 1 = USER_STACK_BASE
    BY <2>4, <2>5
  <2>9. /\ Entry(processes[pid].pagetable, processes[pid].sepc) = e
        /\ Entry(processes[pid].pagetable, processes[pid].sp - 1) = d
    BY <2>4, <2>8, EntryLookup
  <2> QED
    BY <2>3, <2>6, <2>7, <2>9
<1> QED
  BY Invariance, <1>1, PTL

\* What a program reaches is its own page, filled for it, and never both writable and
\* executable; the tests of process.c hold of the finished processes.
THEOREM PrivatePages == Spec => []UserPagesPrivate
<1>1. ASSUME IInv
      PROVE  UserPagesPrivate
  <2>1. LeavesOwn(mem, DOMAIN filled, KernelStacks)
    BY <1>1 DEF IInv, MemoryInv
  <2>2. ASSUME NEW l \in UserLeaves
        PROVE  /\ UserLeaf(mem, l[1], l[2]) /\ l = <<l[1], l[2]>>
               /\ Pte(l).pa = mem.tables[l[1]][l[2]].pa
               /\ Pte(l).flags = mem.tables[l[1]][l[2]].flags
    BY DEF UserLeaves, Entries, TablePages, Pte, UserLeaf
  <2>3. ASSUME NEW l \in UserLeaves
        PROVE  /\ Pte(l).pa \in DOMAIN filled
               /\ \A p \in Pids : processes[p].kernel_stack # Pte(l).pa
               /\ ~({"W", "X"} \subseteq Pte(l).flags)
    BY <2>1, <2>2 DEF LeavesOwn, KernelStacks
  <2>4. ASSUME NEW l \in UserLeaves, NEW m \in UserLeaves, Pte(l).pa = Pte(m).pa
        PROVE  l = m
    <3>1. l[1] = m[1] /\ l[2] = m[2]
      BY <2>1, <2>2, <2>4 DEF LeavesOwn
    <3> QED
      BY <3>1, <2>2
  <2>5. ASSUME pc = "booted", NEW p \in Pids, NEW q \in Pids
        PROVE  /\ process_has_private_user_memory(p)
               /\ p # q => process_address_spaces_distinct(p, q)
    <3> DEFINE text(x) == vm_translate(processes[x].pagetable, USER_TEXT.start)
               stack(x) == vm_translate(processes[x].pagetable, USER_STACK_BASE)
    <3>1. ram_end \in RAM_ENDS /\ pid \in Pids /\ pid + 1 \notin Pids
      BY <1>1, <2>5 DEF IInv, Types, BuildInv
    <3>2. p \in CreatedPids /\ q \in CreatedPids
      BY <2>5, <3>1 DEF CreatedPids, Pids
    <3>3. /\ USER_TEXT.start \in VirtualPages /\ Own(USER_TEXT.start)
          /\ USER_STACK_BASE \in VirtualPages /\ Own(USER_STACK_BASE)
      BY <3>1, TestedOwn
    <3>4. /\ text(p) \in Ram /\ text(p) # 0 /\ text(q) # 0
          /\ stack(p) # 0 /\ stack(q) # 0
          /\ p # q => text(p) # text(q) /\ stack(p) # stack(q)
      BY <1>1, <2>5, <3>2, <3>3, Translated
    <3>5. text(p) # USER_TEXT.start
      <4>1. /\ USER_TEXT.start \in Nat /\ USER_TEXT.start < KERNEL_END
        BY <3>1, Layout
      <4> QED
        BY <4>1, <3>1, <3>4, RamPositive, Layout
    <3>6. p # q => processes[p].pagetable # processes[q].pagetable
      BY <1>1, <3>2 DEF IInv, ProcessInv
    <3> QED
      BY <3>4, <3>5, <3>6 DEF process_has_private_user_memory, process_address_spaces_distinct
  <2> QED
    BY <2>3, <2>4, <2>5 DEF UserPagesPrivate
<1> QED
  BY Invariance, <1>1, PTL

\* The address space of a finished process stays as it is, whatever follows.
THEOREM SpacesKept == Spec => CreatedSpacesStay
<1> DEFINE Stays == \A p \in Pids : processes[p].pagetable # 0 =>
                       /\ processes'[p] = processes[p]
                       /\ \A v \in VirtualPages :
                             Entry(processes[p].pagetable, v)' = Entry(processes[p].pagetable, v)
<1>1. ASSUME IInv, [Next]_vars
      PROVE  SpacesStay
  <2>1. CASE PmmInit
    <3>1. CreatedPids = {}
      BY <1>1, <2>1 DEF IInv, BuildInv, CreatedPids, PmmInit, Pids
    <3> QED
      BY <3>1 DEF SpacesStay
  <2>2. CASE RegionDone \/ Created \/ UNCHANGED vars
    BY <2>2 DEF SpacesStay, RegionDone, Created, vars
  <2> QED
    BY <1>1, <2>1, <2>2, VmCreateInv, MapPageInv, StacksInv DEF Next, Stopped
<1>2. ASSUME IInv, SpacesStay
      PROVE  Stays
  <2> SUFFICES ASSUME NEW p \in Pids, processes[p].pagetable # 0
               PROVE  /\ processes'[p] = processes[p]
                      /\ \A v \in VirtualPages :
                            Entry(processes[p].pagetable, v)' = Entry(processes[p].pagetable, v)
    OBVIOUS
  <2>1. p \in CreatedPids
    BY <1>2 DEF IInv, ProcessInv, NoProcess
  <2>2. /\ processes'[p] = processes[p]
        /\ \A v \in VirtualPages :
              Lookup(mem', processes[p].pagetable, v) = Lookup(mem, processes[p].pagetable, v)
    BY <1>2, <2>1 DEF SpacesStay
  <2>3. ASSUME NEW v \in VirtualPages
        PROVE  /\ Entry(processes[p].pagetable, v) = Lookup(mem, processes[p].pagetable, v)
               /\ Entry(processes[p].pagetable, v)' = Lookup(mem', processes'[p].pagetable, v)
    BY DEF Entry, Lookup
  <2> QED
    BY <2>2, <2>3
<1>3. IInv /\ [Next]_vars => Stays
  BY <1>1, <1>2
<1>4. IInv /\ [Next]_vars => [Stays]_vars
  BY <1>3
<1> QED
  BY Invariance, <1>4, PTL DEF Spec, CreatedSpacesStay

=============================================================================
