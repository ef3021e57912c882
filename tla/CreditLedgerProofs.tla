------------------------- MODULE CreditLedgerProofs -------------------------
(***************************************************************************)
(* The accounting of CreditLedger, proved for every number of batches,     *)
(* buckets and open transactions.  Every action that settles credits is an *)
(* instance of one relation, Settle; what Settle does to the totals is     *)
(* proved once.  The second half adds the ledger (every key is written     *)
(* once, so the rows replay to the balances) and the refinement of         *)
(* CreditAccount.                                                          *)
(***************************************************************************)
EXTENDS CreditLedger, FunctionTheorems, FiniteSetTheorems, TLAPS

-----------------------------------------------------------------------------
\* Facts about Total, proved by counting units: no induction is needed.

\* The units of one entry are as many as its value.
LEMMA UnitsOfCount ==
  ASSUME NEW f, NEW x, f[x] \in Nat
  PROVE  IsFiniteSet(UnitsOf(f, x)) /\ Cardinality(UnitsOf(f, x)) = f[x]
<1>1. IsFiniteSet({x}) /\ Cardinality({x}) = 1
  BY FS_Singleton
<1>2. IsFiniteSet(1 .. f[x]) /\ Cardinality(1 .. f[x]) = f[x]
  BY SMTT(40), FS_Interval
<1>3. /\ IsFiniteSet({x} \X (1 .. f[x]))
      /\ Cardinality({x} \X (1 .. f[x])) = Cardinality({x}) * Cardinality(1 .. f[x])
  BY <1>1, <1>2, FS_Product, Zenon
<1>4. QED
  BY <1>1, <1>2, <1>3 DEF UnitsOf

\* The units of two disjoint sets add up.
LEMMA DisjointCount ==
  ASSUME NEW A, IsFiniteSet(A), NEW B, IsFiniteSet(B), A \cap B = {}
  PROVE  Cardinality(A \cup B) = Cardinality(A) + Cardinality(B)
<1>1. Cardinality(A \cup B) = Cardinality(A) + Cardinality(B) - Cardinality(A \cap B)
  BY FS_Union, Zenon
<1>2. Cardinality(A \cap B) = 0
  BY FS_EmptySet
<1>3. Cardinality(A) \in Nat /\ Cardinality(B) \in Nat
  BY FS_CardinalityType
<1>4. QED
  BY <1>1, <1>2, <1>3

\* A function over a finite set has finitely many units, so its total is a
\* natural number.
LEMMA TotalType ==
  ASSUME NEW S, IsFiniteSet(S), NEW f \in [S -> Nat]
  PROVE  IsFiniteSet(Units(f)) /\ Total(f) \in Nat
<1> DEFINE All == {UnitsOf(f, x) : x \in S}
           Of == [x \in S |-> UnitsOf(f, x)]
<1>1. IsFiniteSet(All)
  <2>1. Of \in Surjection(S, All)
    BY DEF Surjection
  <2>2. QED
    BY <2>1, FS_Surjection
<1>2. \A U \in All : IsFiniteSet(U)
  BY UnitsOfCount
<1>3. Units(f) = UNION All
  BY DEF Units
<1> HIDE DEF All
<1>4. IsFiniteSet(Units(f))
  BY <1>1, <1>2, <1>3, FS_UNION
<1>5. QED
  BY <1>4, FS_CardinalityType DEF Total

\* Changing one entry changes the total by the difference.
LEMMA TotalUpdate ==
  ASSUME NEW S, IsFiniteSet(S), NEW f \in [S -> Nat], NEW g \in [S -> Nat], NEW x \in S,
         \A y \in S \ {x} : g[y] = f[y]
  PROVE  Total(g) = Total(f) - f[x] + g[x]
<1> DEFINE Rest == UNION {UnitsOf(f, y) : y \in S \ {x}}
<1>1. Units(f) = Rest \cup UnitsOf(f, x)
  BY DEF Units
<1>2. Units(g) = Rest \cup UnitsOf(g, x)
  <2>1. \A y \in S \ {x} : UnitsOf(g, y) = UnitsOf(f, y)
    BY DEF UnitsOf
  <2>2. QED
    BY <2>1 DEF Units
<1>3. Rest \cap UnitsOf(f, x) = {} /\ Rest \cap UnitsOf(g, x) = {}
  BY DEF UnitsOf
<1>4. IsFiniteSet(Rest)
  <2>1. Rest \subseteq Units(f)
    BY <1>1
  <2>2. QED
    BY <2>1, TotalType, FS_Subset
<1>5. /\ IsFiniteSet(UnitsOf(f, x)) /\ Cardinality(UnitsOf(f, x)) = f[x]
      /\ IsFiniteSet(UnitsOf(g, x)) /\ Cardinality(UnitsOf(g, x)) = g[x]
  BY UnitsOfCount
<1> HIDE DEF Rest
<1>6. Total(f) = Cardinality(Rest) + f[x]
  BY <1>1, <1>3, <1>4, <1>5, DisjointCount DEF Total
<1>7. Total(g) = Cardinality(Rest) + g[x]
  BY <1>2, <1>3, <1>4, <1>5, DisjointCount DEF Total
<1>8. QED
  BY <1>4, <1>6, <1>7, FS_CardinalityType

\* The total of zeros is zero, and only theirs.
LEMMA TotalZero ==
  ASSUME NEW S, IsFiniteSet(S), NEW f \in [S -> Nat]
  PROVE  Total(f) = 0 <=> \A x \in S : f[x] = 0
<1>1. Total(f) = 0 <=> Units(f) = {}
  BY TotalType, FS_EmptySet DEF Total
<1>2. \A x \in S : f[x] # 0 => <<x, 1>> \in UnitsOf(f, x)
  BY DEF UnitsOf
<1>3. \A x \in S : f[x] = 0 => UnitsOf(f, x) = {}
  BY DEF UnitsOf
<1>4. Units(f) = UNION {UnitsOf(f, x) : x \in S}
  BY DEF Units
<1>5. Units(f) = {} <=> \A x \in S : f[x] = 0
  BY <1>2, <1>3, <1>4
<1>6. QED
  BY <1>1, <1>5

\* The total of a pointwise sum is the sum of the totals: the units of g are
\* counted on from those of f.
LEMMA TotalSum ==
  ASSUME NEW S, IsFiniteSet(S), NEW f \in [S -> Nat], NEW g \in [S -> Nat], NEW h \in [S -> Nat],
         \A x \in S : h[x] = f[x] + g[x]
  PROVE  Total(h) = Total(f) + Total(g)
<1> DEFINE Shift == [u \in Units(g) |-> <<u[1], f[u[1]] + u[2]>>]
           Upper == {u \in S \X Nat : f[u[1]] < u[2] /\ u[2] <= h[u[1]]}
<1>1. Units(f) \cap Upper = {}
  BY DEF Units, UnitsOf
<1>2. Units(h) = Units(f) \cup Upper
  <2>1. \A x \in S, i \in Nat : i \in 1 .. h[x] <=> i \in 1 .. f[x] \/ (f[x] < i /\ i <= h[x])
    OBVIOUS
  <2>2. \A u : u \in Units(h) <=> \E x \in S, i \in Nat : u = <<x, i>> /\ i \in 1 .. h[x]
    BY DEF Units, UnitsOf
  <2>3. \A u : u \in Units(f) <=> \E x \in S, i \in Nat : u = <<x, i>> /\ i \in 1 .. f[x]
    BY DEF Units, UnitsOf
  <2>4. \A u : u \in Upper <=> \E x \in S, i \in Nat : u = <<x, i>> /\ f[x] < i /\ i <= h[x]
    OBVIOUS
  <2>5. QED
    BY <2>1, <2>2, <2>3, <2>4
<1>3. Shift \in Bijection(Units(g), Upper)
  <2>1. \A u : u \in Units(g) <=> \E x \in S, i \in Nat : u = <<x, i>> /\ i \in 1 .. g[x]
    BY DEF Units, UnitsOf
  <2>2. Shift \in [Units(g) -> Upper]
    <3>1. SUFFICES ASSUME NEW u \in Units(g)
                   PROVE  <<u[1], f[u[1]] + u[2]>> \in Upper
      OBVIOUS
    <3>2. PICK x \in S, i \in Nat : u = <<x, i>> /\ i \in 1 .. g[x]
      BY <2>1
    <3>3. QED
      BY <3>2
  <2>3. ASSUME NEW u \in Units(g), NEW v \in Units(g), Shift[u] = Shift[v]
        PROVE  u = v
    <3>1. PICK x \in S, i \in Nat : u = <<x, i>> /\ i \in 1 .. g[x]
      BY <2>1
    <3>2. PICK y \in S, j \in Nat : v = <<y, j>> /\ j \in 1 .. g[y]
      BY <2>1
    <3>3. <<x, f[x] + i>> = <<y, f[y] + j>>
      BY <2>3, <3>1, <3>2
    <3>4. QED
      BY <3>1, <3>2, <3>3
  <2>4. ASSUME NEW w \in Upper
        PROVE  \E u \in Units(g) : Shift[u] = w
    <3>1. PICK x \in S, i \in Nat : w = <<x, i>> /\ f[x] < i /\ i <= h[x]
      OBVIOUS
    <3>2. i - f[x] \in 1 .. g[x] /\ i - f[x] \in Nat
      BY <3>1
    <3>3. <<x, i - f[x]>> \in Units(g)
      BY <2>1, <3>2
    <3>4. Shift[<<x, i - f[x]>>] = w
      BY <3>1, <3>3
    <3>5. QED
      BY <3>3, <3>4
  <2> HIDE DEF Shift, Upper
  <2>5. QED
    BY <2>2, <2>3, <2>4, Fun_IsBij DEF ExistsBijection
<1>4. IsFiniteSet(Upper) /\ Cardinality(Upper) = Total(g)
  <2>1. ExistsBijection(Units(g), Upper)
    BY <1>3 DEF ExistsBijection
  <2>2. QED
    BY <2>1, TotalType, FS_Bijection DEF Total
<1> HIDE DEF Upper
<1>5. QED
  BY <1>1, <1>2, <1>4, TotalType, DisjointCount DEF Total

\* A total over one more element is the old one and that element's value.
LEMMA TotalExtend ==
  ASSUME NEW S, IsFiniteSet(S), NEW x, x \notin S,
         NEW f \in [S -> Nat], NEW g \in [S \cup {x} -> Nat], \A y \in S : g[y] = f[y]
  PROVE  Total(g) = Total(f) + g[x]
<1>1. Units(g) = Units(f) \cup UnitsOf(g, x)
  <2>1. \A y \in S : UnitsOf(g, y) = UnitsOf(f, y)
    BY DEF UnitsOf
  <2>2. QED
    BY <2>1 DEF Units
<1>2. Units(f) \cap UnitsOf(g, x) = {}
  BY DEF Units, UnitsOf
<1>3. IsFiniteSet(UnitsOf(g, x)) /\ Cardinality(UnitsOf(g, x)) = g[x]
  BY UnitsOfCount
<1>4. QED
  BY <1>1, <1>2, <1>3, TotalType, DisjointCount DEF Total

-----------------------------------------------------------------------------
LineTable == [Batches -> [Buckets -> LineRows]]

\* The part of the state the books are about
RowsOK == /\ bucket \in [Buckets -> BucketRows]
          /\ reservation \in [Batches -> Account!Reservations]
          /\ line \in LineTable

-----------------------------------------------------------------------------
\* When the lines of one batch change, a bucket's totals change by the
\* difference of that batch's line.
LEMMA BucketTotals ==
  ASSUME NEW L \in LineTable, NEW M \in LineTable, NEW b \in Batches, NEW k \in Buckets,
         \A x \in Batches : Outstanding(L[x][k]) >= 0 /\ Outstanding(M[x][k]) >= 0,
         \A x \in Batches \ {b} : M[x] = L[x]
  PROVE  /\ Total([x \in Batches |-> Outstanding(M[x][k])]) =
              Total([x \in Batches |-> Outstanding(L[x][k])])
                - Outstanding(L[b][k]) + Outstanding(M[b][k])
         /\ Total([x \in Batches |-> M[x][k].consumed]) =
              Total([x \in Batches |-> L[x][k].consumed]) - L[b][k].consumed + M[b][k].consumed
<1> DEFINE f == [x \in Batches |-> Outstanding(L[x][k])]
           g == [x \in Batches |-> Outstanding(M[x][k])]
           u == [x \in Batches |-> L[x][k].consumed]
           v == [x \in Batches |-> M[x][k].consumed]
<1>1. f \in [Batches -> Nat] /\ g \in [Batches -> Nat]
  BY DEF LineTable, LineRows, Outstanding
<1>2. u \in [Batches -> Nat] /\ v \in [Batches -> Nat]
  BY DEF LineTable, LineRows
<1>3. \A x \in Batches \ {b} : g[x] = f[x] /\ v[x] = u[x]
  OBVIOUS
<1>4. IsFiniteSet(Batches)
  BY LedgerAssumption
<1>5. Total(g) = Total(f) - f[b] + g[b]
  <2> HIDE DEF f, g, u, v
  <2> QED BY <1>1, <1>3, <1>4, TotalUpdate
<1>6. Total(v) = Total(u) - u[b] + v[b]
  <2> HIDE DEF f, g, u, v
  <2> QED BY <1>2, <1>3, <1>4, TotalUpdate
<1>7. QED
  BY <1>5, <1>6

\* One credit on bucket k: the total of a function that is n at k and 0
\* elsewhere is n.
LEMMA TotalSingle ==
  ASSUME NEW S, IsFiniteSet(S), NEW k \in S, NEW n \in Nat
  PROVE  Total([x \in S |-> IF x = k THEN n ELSE 0]) = n
<1> DEFINE f == [x \in S |-> 0]
           g == [x \in S |-> IF x = k THEN n ELSE 0]
<1>1. f \in [S -> Nat] /\ g \in [S -> Nat]
  OBVIOUS
<1>2. (\A y \in S \ {k} : g[y] = f[y]) /\ f[k] = 0 /\ g[k] = n /\ \A y \in S : f[y] = 0
  OBVIOUS
<1> HIDE DEF f, g
<1>3. Total(g) = Total(f) - f[k] + g[k]
  BY <1>1, <1>2, TotalUpdate
<1>4. Total(f) = 0
  BY <1>1, <1>2, TotalZero
<1>5. Total(g) = n
  BY <1>2, <1>3, <1>4
<1>6. QED
  BY <1>5 DEF g

\* Settling no more than a line holds leaves a line, and a bucket a bucket.
LEMMA SettledLineFacts ==
  ASSUME NEW l \in LineRows, NEW c \in Nat, NEW d \in Nat, c + d <= Outstanding(l)
  PROVE  /\ SettledLine(l, c, d) \in LineRows
         /\ SettledLine(l, c, d).reserved = l.reserved
         /\ SettledLine(l, c, d).consumed = l.consumed + c
         /\ SettledLine(l, c, d).released = l.released + d
         /\ Outstanding(l) \in Int
         /\ Outstanding(SettledLine(l, c, d)) = Outstanding(l) - (c + d)
         /\ Outstanding(SettledLine(l, c, d)) >= 0
<1>0. PICK m : m = SettledLine(l, c, d)
  OBVIOUS
<1>1. l.reserved \in Nat /\ l.consumed \in Nat /\ l.released \in Nat
  BY DEF LineRows
<1>2. m = [reserved |-> l.reserved, consumed |-> l.consumed + c, released |-> l.released + d]
  BY <1>0 DEF LineRows, SettledLine
<1>3. m \in LineRows
  BY <1>1, <1>2 DEF LineRows
<1>4. m.reserved = l.reserved /\ m.consumed = l.consumed + c /\ m.released = l.released + d
  BY <1>2
<1>5. QED
  BY <1>0, <1>1, <1>3, <1>4 DEF Outstanding

\* The fields of a bucket row after c of its credits were consumed and d given
\* back: the granted amount and the identity of the row stay.
LEMMA DrawnBucketFacts ==
  ASSUME NEW l \in BucketRows, NEW c \in Nat, NEW d \in Nat
  PROVE  /\ DrawnBucket(l, c, d) \in BucketRows
         /\ DrawnBucket(l, c, d).granted = l.granted
         /\ DrawnBucket(l, c, d).remaining = l.remaining + d
         /\ DrawnBucket(l, c, d).reserved = l.reserved - (c + d)
         /\ DrawnBucket(l, c, d).consumed = l.consumed + c
<1>0. PICK m : m = DrawnBucket(l, c, d)
  OBVIOUS
<1>1. /\ l.remaining \in Nat /\ l.reserved \in Int /\ l.consumed \in Nat /\ l.granted \in Nat
      /\ l.type \in BucketTypes /\ l.effectiveAt \in Nat /\ l.expiresAt \in Nat
  BY DEF BucketRows
<1>2. m = [type |-> l.type, granted |-> l.granted, remaining |-> l.remaining + d,
           reserved |-> l.reserved - (c + d), consumed |-> l.consumed + c,
           effectiveAt |-> l.effectiveAt, expiresAt |-> l.expiresAt]
  BY <1>0 DEF BucketRows, DrawnBucket
<1>3. m \in BucketRows
  BY <1>1, <1>2 DEF BucketRows
<1>4. QED
  BY <1>0, <1>2, <1>3

\* Settling within what the lines hold keeps the books, provided the
\* reservation row counts the same credits.
LEMMA SettleKeepsBooks ==
  ASSUME RowsOK, Books,
         NEW b \in Batches, NEW c \in [Buckets -> Nat], NEW d \in [Buckets -> Nat],
         \A k \in Buckets : c[k] + d[k] <= Outstanding(line[b][k]),
         Settle(b, c, d),
         NEW r \in Account!Reservations,
         r.reserved = reservation[b].reserved,
         r.consumed = reservation[b].consumed + Total(c),
         r.released = reservation[b].released + Total(d),
         reservation' = [reservation EXCEPT ![b] = r]
  PROVE  RowsOK' /\ Books'
<1>0. /\ bucket \in [Buckets -> BucketRows]
      /\ line \in LineTable
      /\ reservation \in [Batches -> Account!Reservations]
  BY DEF RowsOK
<1> DEFINE row == [k \in Buckets |-> SettledLine(line[b][k], c[k], d[k])]
<1>a. line' = [line EXCEPT ![b] = row]
  BY DEF Settle
<1>b. \A k \in Buckets :
        row[k] = SettledLine(line[b][k], c[k], d[k])
  OBVIOUS
<1>c. row = [k \in Buckets |-> row[k]]
  OBVIOUS
<1> HIDE DEF row
<1>d. \A k \in Buckets : line[b][k] \in LineRows
  BY <1>0 DEF LineTable
<1>e. line'[b] = row
  BY <1>0, <1>a DEF LineTable
<1>1. \A k \in Buckets :
        /\ line'[b][k] \in LineRows
        /\ line'[b][k].reserved = line[b][k].reserved
        /\ line'[b][k].consumed = line[b][k].consumed + c[k]
        /\ line'[b][k].released = line[b][k].released + d[k]
        /\ Outstanding(line[b][k]) \in Int
        /\ Outstanding(line'[b][k]) = Outstanding(line[b][k]) - (c[k] + d[k])
        /\ Outstanding(line'[b][k]) >= 0
  <2>1. SUFFICES ASSUME NEW k \in Buckets
                 PROVE  /\ row[k] \in LineRows
                        /\ row[k].reserved = line[b][k].reserved
                        /\ row[k].consumed = line[b][k].consumed + c[k]
                        /\ row[k].released = line[b][k].released + d[k]
                        /\ Outstanding(line[b][k]) \in Int
                        /\ Outstanding(row[k]) = Outstanding(line[b][k]) - (c[k] + d[k])
                        /\ Outstanding(row[k]) >= 0
    BY <1>e
  <2>2. line[b][k] \in LineRows /\ c[k] \in Nat /\ d[k] \in Nat
    BY <1>d
  <2>3. c[k] + d[k] <= Outstanding(line[b][k])
    OBVIOUS
  <2>4. row[k] = SettledLine(line[b][k], c[k], d[k])
    BY <1>b
  <2>5. QED
    BY <2>2, <2>3, <2>4, SettledLineFacts
<1>2. line' \in LineTable /\ \A x \in Batches \ {b} : line'[x] = line[x]
  <2>1. row \in [Buckets -> LineRows]
    BY <1>1, <1>c, <1>e
  <2>2. QED
    BY <1>0, <1>a, <2>1 DEF LineTable
<1>3. LinesWithinReserved'
  <2>1. \A x \in Batches, k \in Buckets : Outstanding(line[x][k]) >= 0
    BY DEF LinesWithinReserved, Books
  <2>2. \A x \in Batches, k \in Buckets : Outstanding(line'[x][k]) >= 0
    BY <1>1, <1>2, <2>1
  <2>3. QED
    BY <2>2 DEF LinesWithinReserved
<1>4. \A k \in Buckets :
        /\ bucket'[k] \in BucketRows
        /\ bucket'[k].granted = bucket[k].granted
        /\ bucket'[k].remaining = bucket[k].remaining + d[k]
        /\ bucket'[k].reserved = bucket[k].reserved - (c[k] + d[k])
        /\ bucket'[k].consumed = bucket[k].consumed + c[k]
  <2>1. \A k \in Buckets :
          bucket'[k] = DrawnBucket(bucket[k], c[k], d[k])
    BY DEF Settle
  <2>2. SUFFICES ASSUME NEW k \in Buckets
                 PROVE  /\ bucket'[k] \in BucketRows
                        /\ bucket'[k].granted = bucket[k].granted
                        /\ bucket'[k].remaining = bucket[k].remaining + d[k]
                        /\ bucket'[k].reserved = bucket[k].reserved - (c[k] + d[k])
                        /\ bucket'[k].consumed = bucket[k].consumed + c[k]
    OBVIOUS
  <2>3. bucket[k] \in BucketRows /\ c[k] \in Nat /\ d[k] \in Nat
    BY <1>0
  <2>4. bucket'[k] = DrawnBucket(bucket[k], c[k], d[k])
    BY <2>1
  <2>5. QED
    <3> DEFINE l == bucket[k]  cc == c[k]  dd == d[k]
    <3>1. l \in BucketRows /\ cc \in Nat /\ dd \in Nat /\ bucket'[k] = DrawnBucket(l, cc, dd)
      BY <2>3, <2>4
    <3> HIDE DEF l, cc, dd
    <3>2. /\ DrawnBucket(l, cc, dd) \in BucketRows
          /\ DrawnBucket(l, cc, dd).granted = l.granted
          /\ DrawnBucket(l, cc, dd).remaining = l.remaining + dd
          /\ DrawnBucket(l, cc, dd).reserved = l.reserved - (cc + dd)
          /\ DrawnBucket(l, cc, dd).consumed = l.consumed + cc
      BY <3>1, DrawnBucketFacts, Zenon
    <3>3. QED
      BY <3>1, <3>2 DEF l, cc, dd
<1>5. RowsOK'
  <2>1. bucket' \in [Buckets -> BucketRows]
    BY <1>4 DEF Settle
  <2>2. reservation' \in [Batches -> Account!Reservations]
    BY <1>0
  <2>3. QED
    BY <1>2, <2>1, <2>2 DEF RowsOK
<1>6. BucketConservation'
  <2>1. SUFFICES ASSUME NEW k \in Buckets
                 PROVE  bucket'[k].granted = bucket'[k].remaining + bucket'[k].reserved + bucket'[k].consumed
    BY DEF BucketConservation
  <2>2. bucket[k].granted = bucket[k].remaining + bucket[k].reserved + bucket[k].consumed
    BY DEF BucketConservation, Books
  <2>3. /\ bucket[k].remaining \in Int /\ bucket[k].reserved \in Int /\ bucket[k].consumed \in Int
    BY <1>0 DEF BucketRows
  <2>4. QED
    BY <1>4, <2>2, <2>3
<1>7. BucketsMatchLines'
  <2>1. SUFFICES ASSUME NEW k \in Buckets
                 PROVE  /\ bucket'[k].reserved = Total([x \in Batches |-> Outstanding(line'[x][k])])
                        /\ bucket'[k].consumed = Total([x \in Batches |-> line'[x][k].consumed])
    BY DEF BucketsMatchLines
  <2>2. \A x \in Batches : Outstanding(line[x][k]) >= 0 /\ Outstanding(line'[x][k]) >= 0
    BY <1>3 DEF LinesWithinReserved, Books
  <2>3. /\ bucket[k].reserved = Total([x \in Batches |-> Outstanding(line[x][k])])
        /\ bucket[k].consumed = Total([x \in Batches |-> line[x][k].consumed])
    BY DEF BucketsMatchLines, Books
  <2>. /\ line \in LineTable /\ line' \in LineTable
    BY <1>0, <1>2
  <2>4. /\ Total([x \in Batches |-> Outstanding(line'[x][k])]) =
             bucket[k].reserved - Outstanding(line[b][k]) + Outstanding(line'[b][k])
        /\ Total([x \in Batches |-> line'[x][k].consumed]) =
             bucket[k].consumed - line[b][k].consumed + line'[b][k].consumed
    <3>1. /\ Total([x \in Batches |-> Outstanding(line'[x][k])]) =
               Total([x \in Batches |-> Outstanding(line[x][k])])
                 - Outstanding(line[b][k]) + Outstanding(line'[b][k])
          /\ Total([x \in Batches |-> line'[x][k].consumed]) =
               Total([x \in Batches |-> line[x][k].consumed]) - line[b][k].consumed + line'[b][k].consumed
      BY <1>2, <2>2, BucketTotals, Zenon
    <3>2. QED
      BY <2>3, <3>1
  <2>5. /\ bucket[k].reserved \in Int /\ bucket[k].consumed \in Nat
        /\ line[b][k].consumed \in Nat
    BY <1>0, <1>d DEF BucketRows, LineRows
  <2>6. QED
    BY <1>1, <1>4, <2>4, <2>5
<1>8. ReservationMatchesLines'
  <2>1. SUFFICES ASSUME NEW x \in Batches
                 PROVE  /\ reservation'[x].reserved = Total([k \in Buckets |-> line'[x][k].reserved])
                        /\ reservation'[x].consumed = Total([k \in Buckets |-> line'[x][k].consumed])
                        /\ reservation'[x].released = Total([k \in Buckets |-> line'[x][k].released])
    BY DEF ReservationMatchesLines
  <2>2. /\ reservation[x].reserved = Total([k \in Buckets |-> line[x][k].reserved])
        /\ reservation[x].consumed = Total([k \in Buckets |-> line[x][k].consumed])
        /\ reservation[x].released = Total([k \in Buckets |-> line[x][k].released])
    BY DEF ReservationMatchesLines, Books
  <2>3. CASE x # b
    <3>1. line'[x] = line[x] /\ reservation'[x] = reservation[x]
      BY <1>0, <1>2, <2>3
    <3>2. QED
      BY <2>2, <3>1
  <2>4. CASE x = b
    <3> DEFINE cons == [k \in Buckets |-> line[b][k].consumed]
               rel == [k \in Buckets |-> line[b][k].released]
               cons2 == [k \in Buckets |-> line'[b][k].consumed]
               rel2 == [k \in Buckets |-> line'[b][k].released]
    <3>1. /\ cons \in [Buckets -> Nat] /\ rel \in [Buckets -> Nat]
          /\ cons2 \in [Buckets -> Nat] /\ rel2 \in [Buckets -> Nat]
          /\ \A k \in Buckets : cons2[k] = cons[k] + c[k] /\ rel2[k] = rel[k] + d[k]
      BY <1>1, <1>d DEF LineRows
    <3>2. IsFiniteSet(Buckets)
      BY LedgerAssumption
    <3>3. Total(cons2) = Total(cons) + Total(c) /\ Total(rel2) = Total(rel) + Total(d)
      <4> HIDE DEF cons, rel, cons2, rel2
      <4> QED BY <3>1, <3>2, TotalSum
    <3>4. [k \in Buckets |-> line'[b][k].reserved] = [k \in Buckets |-> line[b][k].reserved]
      BY <1>1
    <3>5. reservation'[b] = r
      BY <1>0
    <3>6. QED
      BY <2>2, <2>4, <3>3, <3>4, <3>5
  <2>5. QED
    BY <2>3, <2>4
<1>9. QED
  BY <1>3, <1>5, <1>6, <1>7, <1>8 DEF Books

\* Reserving for a batch without lines keeps the books.
LEMMA ReserveKeepsBooks ==
  ASSUME RowsOK, Books,
         NEW b \in Batches, NEW n \in Nat, NEW take \in [Buckets -> Nat],
         Total(take) = n,
         \A k \in Buckets : take[k] <= bucket[k].remaining,
         \A k \in Buckets : line[b][k] = NoLine,
         Draw(b, take),
         reservation' = [reservation EXCEPT ![b] = Account!NewReservation(n)]
  PROVE  RowsOK' /\ Books'
<1>0. /\ bucket \in [Buckets -> BucketRows]
      /\ line \in LineTable
      /\ reservation \in [Batches -> Account!Reservations]
  BY DEF RowsOK
<1>1. \A k \in Buckets : line'[b][k] = [reserved |-> take[k], consumed |-> 0, released |-> 0]
  BY <1>0 DEF LineTable, NewLine, Draw
<1>2. \A k \in Buckets :
        /\ line'[b][k] \in LineRows
        /\ line'[b][k].reserved = take[k] /\ line'[b][k].consumed = 0 /\ line'[b][k].released = 0
        /\ Outstanding(line'[b][k]) = take[k] /\ Outstanding(line[b][k]) = 0
        /\ line[b][k].consumed = 0
  <2>1. SUFFICES ASSUME NEW k \in Buckets
                 PROVE  /\ line'[b][k] \in LineRows
                        /\ line'[b][k].reserved = take[k] /\ line'[b][k].consumed = 0
                        /\ line'[b][k].released = 0
                        /\ Outstanding(line'[b][k]) = take[k] /\ Outstanding(line[b][k]) = 0
                        /\ line[b][k].consumed = 0
    OBVIOUS
  <2>2. line'[b][k] = [reserved |-> take[k], consumed |-> 0, released |-> 0] /\ take[k] \in Nat
    BY <1>1
  <2>3. line[b][k] = [reserved |-> 0, consumed |-> 0, released |-> 0]
    BY DEF NoLine, NewLine
  <2>4. QED
    BY <2>2, <2>3 DEF LineRows, Outstanding
<1>3. line' \in LineTable /\ \A x \in Batches \ {b} : line'[x] = line[x]
  <2>1. [k \in Buckets |-> NewLine(take[k])] \in [Buckets -> LineRows]
    BY DEF NoLine, NewLine, LineRows
  <2>2. QED
    BY <1>0, <2>1 DEF LineTable, Draw
<1>4. LinesWithinReserved'
  <2>1. \A x \in Batches, k \in Buckets : Outstanding(line[x][k]) >= 0
    BY DEF LinesWithinReserved, Books
  <2>2. \A x \in Batches, k \in Buckets : Outstanding(line'[x][k]) >= 0
    BY <1>2, <1>3, <2>1
  <2>3. QED
    BY <2>2 DEF LinesWithinReserved
<1>5. \A k \in Buckets :
        /\ bucket'[k] \in BucketRows
        /\ bucket'[k].granted = bucket[k].granted
        /\ bucket'[k].remaining = bucket[k].remaining - take[k]
        /\ bucket'[k].reserved = bucket[k].reserved + take[k]
        /\ bucket'[k].consumed = bucket[k].consumed
  <2>1. SUFFICES ASSUME NEW k \in Buckets
                 PROVE  /\ bucket'[k] \in BucketRows
                        /\ bucket'[k].granted = bucket[k].granted
                        /\ bucket'[k].remaining = bucket[k].remaining - take[k]
                        /\ bucket'[k].reserved = bucket[k].reserved + take[k]
                        /\ bucket'[k].consumed = bucket[k].consumed
    OBVIOUS
  <2>2. PICK l \in BucketRows : l = bucket[k]
    BY <1>0
  <2>3. bucket'[k] = [type |-> l.type, granted |-> l.granted, remaining |-> l.remaining - take[k],
                      reserved |-> l.reserved + take[k], consumed |-> l.consumed,
                      effectiveAt |-> l.effectiveAt, expiresAt |-> l.expiresAt]
    BY <2>2 DEF BucketRows, Draw
  <2>4. l.remaining - take[k] \in Nat /\ l.reserved + take[k] \in Int
    BY <2>2 DEF BucketRows
  <2>5. bucket'[k] \in BucketRows
    BY <2>2, <2>3, <2>4 DEF BucketRows
  <2>6. QED
    BY <2>2, <2>3, <2>5
<1>6. RowsOK'
  <2>1. bucket' \in [Buckets -> BucketRows]
    BY <1>5 DEF Draw
  <2>2. reservation' \in [Batches -> Account!Reservations]
    BY <1>0 DEF Account!NewReservation, Account!Reservations, Account!ReservationStatuses
  <2>3. QED
    BY <1>3, <2>1, <2>2 DEF RowsOK
<1>7. BucketConservation'
  <2>1. SUFFICES ASSUME NEW k \in Buckets
                 PROVE  bucket'[k].granted = bucket'[k].remaining + bucket'[k].reserved + bucket'[k].consumed
    BY DEF BucketConservation
  <2>2. bucket[k].granted = bucket[k].remaining + bucket[k].reserved + bucket[k].consumed
    BY DEF BucketConservation, Books
  <2>3. bucket[k].remaining \in Int /\ bucket[k].reserved \in Int /\ bucket[k].consumed \in Int
    BY <1>0 DEF BucketRows
  <2>4. QED
    BY <1>5, <2>2, <2>3
<1>8. BucketsMatchLines'
  <2>1. SUFFICES ASSUME NEW k \in Buckets
                 PROVE  /\ bucket'[k].reserved = Total([x \in Batches |-> Outstanding(line'[x][k])])
                        /\ bucket'[k].consumed = Total([x \in Batches |-> line'[x][k].consumed])
    BY DEF BucketsMatchLines
  <2>2. \A x \in Batches : Outstanding(line[x][k]) >= 0 /\ Outstanding(line'[x][k]) >= 0
    BY <1>4 DEF LinesWithinReserved, Books
  <2>3. /\ bucket[k].reserved = Total([x \in Batches |-> Outstanding(line[x][k])])
        /\ bucket[k].consumed = Total([x \in Batches |-> line[x][k].consumed])
    BY DEF BucketsMatchLines, Books
  <2>4. /\ Total([x \in Batches |-> Outstanding(line'[x][k])]) =
             Total([x \in Batches |-> Outstanding(line[x][k])])
               - Outstanding(line[b][k]) + Outstanding(line'[b][k])
        /\ Total([x \in Batches |-> line'[x][k].consumed]) =
             Total([x \in Batches |-> line[x][k].consumed]) - line[b][k].consumed + line'[b][k].consumed
    BY <1>0, <1>3, <2>2, BucketTotals, Zenon
  <2>5. bucket[k].reserved \in Int /\ bucket[k].consumed \in Nat
    BY <1>0 DEF BucketRows
  <2>6. QED
    BY <1>2, <1>5, <2>3, <2>4, <2>5
<1>9. ReservationMatchesLines'
  <2>1. SUFFICES ASSUME NEW x \in Batches
                 PROVE  /\ reservation'[x].reserved = Total([k \in Buckets |-> line'[x][k].reserved])
                        /\ reservation'[x].consumed = Total([k \in Buckets |-> line'[x][k].consumed])
                        /\ reservation'[x].released = Total([k \in Buckets |-> line'[x][k].released])
    BY DEF ReservationMatchesLines
  <2>2. /\ reservation[x].reserved = Total([k \in Buckets |-> line[x][k].reserved])
        /\ reservation[x].consumed = Total([k \in Buckets |-> line[x][k].consumed])
        /\ reservation[x].released = Total([k \in Buckets |-> line[x][k].released])
    BY DEF ReservationMatchesLines, Books
  <2>3. CASE x # b
    <3>1. line'[x] = line[x] /\ reservation'[x] = reservation[x]
      BY <1>0, <1>3, <2>3
    <3>2. QED
      BY <2>2, <3>1
  <2>4. CASE x = b
    <3>1. [k \in Buckets |-> line'[b][k].reserved] = take
      BY <1>2
    <3>2. /\ [k \in Buckets |-> line'[b][k].consumed] = [k \in Buckets |-> 0]
          /\ [k \in Buckets |-> line'[b][k].released] = [k \in Buckets |-> 0]
      BY <1>2
    <3>3. Total([k \in Buckets |-> 0]) = 0
      <4> DEFINE z == [k \in Buckets |-> 0]
      <4>1. z \in [Buckets -> Nat] /\ \A k \in Buckets : z[k] = 0
        OBVIOUS
      <4> HIDE DEF z
      <4>2. Total(z) = 0
        BY <4>1, TotalZero, LedgerAssumption
      <4>3. QED
        BY <4>2 DEF z
    <3>4. reservation'[b] = Account!NewReservation(n)
      BY <1>0
    <3>5. QED
      BY <2>4, <3>1, <3>2, <3>3, <3>4 DEF Account!NewReservation
  <2>5. QED
    BY <2>3, <2>4
<1>10. QED
  BY <1>4, <1>6, <1>7, <1>8, <1>9 DEF Books

\* What a reservation row holds is what its lines hold.
LEMMA HeldIsOutstanding ==
  ASSUME RowsOK, Books, NEW b \in Batches
  PROVE  Total([k \in Buckets |-> Outstanding(line[b][k])]) = Account!Held(reservation[b])
<1> DEFINE out == [k \in Buckets |-> Outstanding(line[b][k])]
           cons == [k \in Buckets |-> line[b][k].consumed]
           rel == [k \in Buckets |-> line[b][k].released]
           settled == [k \in Buckets |-> line[b][k].consumed + line[b][k].released]
           res == [k \in Buckets |-> line[b][k].reserved]
<1>1. \A k \in Buckets : /\ line[b][k] \in LineRows
                         /\ Outstanding(line[b][k]) >= 0
  BY DEF RowsOK, LineTable, Books, LinesWithinReserved
<1>2. /\ out \in [Buckets -> Nat] /\ cons \in [Buckets -> Nat] /\ rel \in [Buckets -> Nat]
      /\ settled \in [Buckets -> Nat] /\ res \in [Buckets -> Nat]
      /\ \A k \in Buckets : settled[k] = cons[k] + rel[k] /\ res[k] = out[k] + settled[k]
  BY <1>1 DEF LineRows, Outstanding
<1>3. /\ reservation[b].reserved = Total(res) /\ reservation[b].consumed = Total(cons)
      /\ reservation[b].released = Total(rel)
  BY DEF Books, ReservationMatchesLines
<1> HIDE DEF out, cons, rel, settled, res
<1>4. Total(settled) = Total(cons) + Total(rel) /\ Total(res) = Total(out) + Total(settled)
  BY <1>2, TotalSum, LedgerAssumption
<1>5. Total(out) \in Nat /\ Total(cons) \in Nat /\ Total(rel) \in Nat
  BY <1>2, TotalType, LedgerAssumption
<1>6. Total(out) = Account!Held(reservation[b])
  BY <1>3, <1>4, <1>5 DEF Account!Held
<1>7. QED
  BY <1>6 DEF out

\* A reservation after some of it was settled: its amounts, and what its new
\* status says of them.
LEMMA SettledReservation ==
  ASSUME NEW r \in Account!Reservations, NEW c \in Nat, NEW d \in Nat
  PROVE  /\ Account!Settled(r, c, d) \in Account!Reservations
         /\ Account!Settled(r, c, d).reserved = r.reserved
         /\ Account!Settled(r, c, d).consumed = r.consumed + c
         /\ Account!Settled(r, c, d).released = r.released + d
         /\ Account!Settled(r, c, d).status \notin {"NONE", "EXPIRED"}
         /\ Account!Settled(r, c, d).status = "ACTIVE" => r.consumed + c = 0 /\ r.released + d = 0
         /\ Account!Settled(r, c, d).status = "CONSUMED" => r.consumed + c = r.reserved
         /\ Account!Settled(r, c, d).status = "RELEASED" => r.released + d = r.reserved
<1>1. r.reserved \in Nat /\ r.consumed \in Nat /\ r.released \in Nat
  BY DEF Account!Reservations
<1>2. PICK st : st = Account!ResolvedStatus(r.reserved, r.consumed + c, r.released + d)
  OBVIOUS
<1>3. /\ st \in {"ACTIVE", "CONSUMED", "RELEASED", "PARTIALLY_CONSUMED"}
      /\ st = "ACTIVE" => r.consumed + c = 0 /\ r.released + d = 0
      /\ st = "CONSUMED" => r.consumed + c = r.reserved
      /\ st = "RELEASED" => r.released + d = r.reserved
  BY <1>1, <1>2 DEF Account!ResolvedStatus
<1>4. PICK m : m = Account!Settled(r, c, d)
  OBVIOUS
<1>5. m = [status |-> st, reserved |-> r.reserved,
                                  consumed |-> r.consumed + c, released |-> r.released + d]
  BY <1>2, <1>4 DEF Account!Settled, Account!Reservations
<1>6. QED
  BY <1>1, <1>3, <1>4, <1>5 DEF Account!Reservations, Account!ReservationStatuses

\* The rows a transaction writes for a batch are ledger rows.
LEMMA RowsType ==
  ASSUME NEW type \in LineTypes, NEW b \in Batches, NEW S \in SUBSET Buckets,
         NEW delta \in [Buckets -> Int]
  PROVE  Rows(type, b, S, delta) \in SUBSET LedgerRows
BY DEF Rows, LedgerRows, LedgerKeys, Key

\* Settling nothing of a kind adds nothing to its total.
LEMMA NothingTotal ==
  Nothing \in [Buckets -> Nat] /\ (\A k \in Buckets : Nothing[k] = 0) /\ Total(Nothing) = 0
<1>1. Nothing \in [Buckets -> Nat] /\ \A k \in Buckets : Nothing[k] = 0
  BY DEF Nothing
<1>2. QED
  BY <1>1, TotalZero, LedgerAssumption

\* GiveBack releases what the lines on S hold.
LEMMA GiveBackSettles ==
  ASSUME RowsOK, Books, NEW b \in Batches, NEW S \in SUBSET Buckets, NEW type \in LineTypes,
         NEW out, out = [k \in Buckets |-> IF k \in S THEN Outstanding(line[b][k]) ELSE 0],
         GiveBack(b, S, type)
  PROVE  /\ out \in [Buckets -> Nat]
         /\ \A k \in Buckets : Nothing[k] + out[k] <= Outstanding(line[b][k])
         /\ Settle(b, Nothing, out)
         /\ \E rows \in SUBSET LedgerRows : ledger' = ledger \cup rows
<1>1. \A k \in Buckets : /\ line[b][k] \in LineRows /\ bucket[k] \in BucketRows
                         /\ Outstanding(line[b][k]) \in Nat
  BY DEF RowsOK, LineTable, Books, LinesWithinReserved, LineRows, Outstanding
<1>2. out \in [Buckets -> Nat] /\ \A k \in Buckets : out[k] <= Outstanding(line[b][k])
  BY <1>1
<1>3. Settle(b, Nothing, out) /\ ledger' = ledger \cup Rows(type, b, S, out)
  BY DEF GiveBack
<1>4. \A k \in Buckets : Nothing[k] + out[k] <= Outstanding(line[b][k])
  BY <1>1, <1>2, NothingTotal
<1>5. Rows(type, b, S, out) \in SUBSET LedgerRows
  BY <1>2, RowsType
<1>6. QED
  BY <1>2, <1>3, <1>4, <1>5

\* One line settled by n: nothing on the others.
LEMMA OnTotal ==
  ASSUME NEW k \in Buckets, NEW n \in Nat
  PROVE  On(k, n) \in [Buckets -> Nat] /\ On(k, n)[k] = n
         /\ (\A j \in Buckets \ {k} : On(k, n)[j] = 0) /\ Total(On(k, n)) = n
<1>1. Total(On(k, n)) = n
  BY TotalSingle, LedgerAssumption DEF On
<1>2. QED
  BY <1>1 DEF On

-----------------------------------------------------------------------------
\* The state that only TypeOK speaks of
OthersOK == /\ expiresAt \in [Batches -> Nat]
            /\ ledger \in SUBSET LedgerRows
            /\ call \in [Callers -> {Idle} \cup ReserveCalls \cup ResolveCalls]
            /\ reaping \in SUBSET Batches
            /\ clock \in Nat

\* The invariant split into the parts the step lemmas below re-establish.
LEMMA IInvParts == IInv <=> RowsOK /\ OthersOK /\ Books /\ StatusMatchesAmounts
BY DEF IInv, TypeOK, RowsOK, OthersOK, LineTable

\* If only the reservation and the lines of b change, the status clause needs
\* checking for b alone.
LEMMA StatusOfOne ==
  ASSUME RowsOK, StatusMatchesAmounts, NEW b \in Batches,
         NEW r, reservation' = [reservation EXCEPT ![b] = r],
         \A x \in Batches \ {b} : line'[x] = line[x],
         r.status # "NONE",
         r.status = "ACTIVE" => r.consumed = 0 /\ r.released = 0,
         r.status = "CONSUMED" => r.consumed = r.reserved,
         r.status \in {"RELEASED", "EXPIRED"} => r.released = r.reserved
  PROVE  StatusMatchesAmounts'
BY DEF StatusMatchesAmounts, RowsOK

\* The invariant holds of empty tables.
LEMMA InitIInv == Init => IInv
<1> SUFFICES ASSUME Init PROVE IInv
  OBVIOUS
<1>1. \A k \in Buckets : /\ bucket[k] = NoBucket(k)
                         /\ bucket[k].granted = 0 /\ bucket[k].remaining = 0
                         /\ bucket[k].reserved = 0 /\ bucket[k].consumed = 0
  BY DEF Init, NoBucket
<1>2. \A b \in Batches, k \in Buckets :
        /\ line[b][k] = NoLine /\ Outstanding(line[b][k]) = 0
        /\ line[b][k].reserved = 0 /\ line[b][k].consumed = 0 /\ line[b][k].released = 0
  BY DEF Init, NoLine, NewLine, Outstanding
<1>3. \A b \in Batches : /\ reservation[b] = Account!NoReservation
                         /\ reservation[b].status = "NONE" /\ reservation[b].reserved = 0
                         /\ reservation[b].consumed = 0 /\ reservation[b].released = 0
  BY DEF Init, Account!NoReservation
<1>4. RowsOK
  <2>1. \A k \in Buckets : NoBucket(k) \in BucketRows
    BY LedgerAssumption DEF NoBucket, BucketRows
  <2>2. bucket \in [Buckets -> BucketRows]
    BY <2>1 DEF Init
  <2>3. Account!NoReservation \in Account!Reservations
    BY DEF Account!NoReservation, Account!Reservations, Account!ReservationStatuses
  <2>4. NoLine \in LineRows
    BY DEF NoLine, NewLine, LineRows
  <2>5. QED
    BY <2>2, <2>3, <2>4 DEF Init, RowsOK, LineTable
<1>5. OthersOK
  BY DEF Init, OthersOK
<1>6. Total([b \in Batches |-> 0]) = 0 /\ Total([k \in Buckets |-> 0]) = 0
  <2> DEFINE z == [b \in Batches |-> 0]
  <2>1. z \in [Batches -> Nat] /\ \A b \in Batches : z[b] = 0
    OBVIOUS
  <2> HIDE DEF z
  <2>2. Total(z) = 0
    BY <2>1, TotalZero, LedgerAssumption
  <2>3. QED
    BY <2>2, NothingTotal DEF z, Nothing
<1>7. BucketsMatchLines
  <2>1. \A k \in Buckets :
          /\ [b \in Batches |-> Outstanding(line[b][k])] = [b \in Batches |-> 0]
          /\ [b \in Batches |-> line[b][k].consumed] = [b \in Batches |-> 0]
    BY <1>2
  <2>2. QED
    BY <1>1, <1>6, <2>1 DEF BucketsMatchLines
<1>8. ReservationMatchesLines
  <2>1. \A b \in Batches :
          /\ [k \in Buckets |-> line[b][k].reserved] = [k \in Buckets |-> 0]
          /\ [k \in Buckets |-> line[b][k].consumed] = [k \in Buckets |-> 0]
          /\ [k \in Buckets |-> line[b][k].released] = [k \in Buckets |-> 0]
    BY <1>2
  <2>2. QED
    BY <1>3, <1>6, <2>1 DEF ReservationMatchesLines
<1>9. Books
  BY <1>1, <1>2, <1>7, <1>8 DEF Books, BucketConservation, LinesWithinReserved
<1>10. StatusMatchesAmounts
  BY <1>2, <1>3 DEF StatusMatchesAmounts
<1>11. QED
  BY <1>4, <1>5, <1>9, <1>10, IInvParts

-----------------------------------------------------------------------------
\* Actions

\* A grant adds a bucket no line is drawn on, so every total is kept.
LEMMA GrantIInv ==
  ASSUME IInv, NEW k \in Buckets, NEW n \in Amounts, NEW w \in Windows, Grant(k, n, w)
  PROVE  IInv'
<1>1. RowsOK /\ OthersOK /\ Books /\ StatusMatchesAmounts
  BY IInvParts
<1>2. UNCHANGED <<reservation, expiresAt, line, call, reaping, clock>>
  BY DEF Grant
<1>3. PICK row : row = [NoBucket(k) EXCEPT !.granted = n, !.remaining = n,
                          !.effectiveAt = w.effectiveAt, !.expiresAt = w.expiresAt]
  OBVIOUS
<1>4. n \in Nat /\ w.effectiveAt \in Nat /\ w.expiresAt \in Nat /\ BucketType[k] \in BucketTypes
  BY LedgerAssumption
<1>5. row = [type |-> BucketType[k], granted |-> n, remaining |-> n, reserved |-> 0,
             consumed |-> 0, effectiveAt |-> w.effectiveAt, expiresAt |-> w.expiresAt]
  BY <1>3 DEF NoBucket
<1>6. row \in BucketRows
  BY <1>4, <1>5 DEF BucketRows
<1>7. /\ bucket \in [Buckets -> BucketRows] /\ bucket' = [bucket EXCEPT ![k] = row]
      /\ bucket[k].granted = 0
  BY <1>1, <1>3 DEF RowsOK, Grant
<1>8. bucket[k].reserved = 0 /\ bucket[k].consumed = 0
  <2>1. 0 = bucket[k].remaining + bucket[k].reserved + bucket[k].consumed
    BY <1>1, <1>7 DEF Books, BucketConservation
  <2>2. bucket[k].remaining \in Nat /\ bucket[k].consumed \in Nat /\ bucket[k].reserved \in Int
    BY <1>7 DEF BucketRows
  <2>3. bucket[k].reserved >= 0
    <3> DEFINE out == [b \in Batches |-> Outstanding(line[b][k])]
    <3>1. out \in [Batches -> Nat]
      BY <1>1 DEF RowsOK, LineTable, LineRows, Outstanding, Books, LinesWithinReserved
    <3>2. bucket[k].reserved = Total(out)
      BY <1>1 DEF Books, BucketsMatchLines
    <3> HIDE DEF out
    <3>3. QED
      BY <3>1, <3>2, TotalType, LedgerAssumption
  <2>4. QED
    BY <2>1, <2>2, <2>3
<1>9. \A j \in Buckets : /\ bucket'[j].reserved = bucket[j].reserved
                         /\ bucket'[j].consumed = bucket[j].consumed
                         /\ bucket'[j].granted = bucket'[j].remaining + bucket'[j].reserved + bucket'[j].consumed
  <2>1. SUFFICES ASSUME NEW j \in Buckets
                 PROVE  /\ bucket'[j].reserved = bucket[j].reserved
                        /\ bucket'[j].consumed = bucket[j].consumed
                        /\ bucket'[j].granted = bucket'[j].remaining + bucket'[j].reserved + bucket'[j].consumed
    OBVIOUS
  <2>2. CASE j = k
    BY <1>4, <1>5, <1>7, <1>8, <2>2
  <2>3. CASE j # k
    BY <1>1, <1>7, <2>3 DEF Books, BucketConservation
  <2>4. QED
    BY <2>2, <2>3
<1>10. RowsOK'
  BY <1>1, <1>2, <1>6, <1>7 DEF RowsOK
<1>11. Books'
  <2>1. BucketConservation'
    BY <1>9 DEF BucketConservation
  <2>2. BucketsMatchLines'
    BY <1>1, <1>2, <1>9 DEF Books, BucketsMatchLines
  <2>3. LinesWithinReserved' /\ ReservationMatchesLines'
    BY <1>1, <1>2 DEF Books, LinesWithinReserved, ReservationMatchesLines
  <2>4. QED
    BY <2>1, <2>2, <2>3 DEF Books
<1>12. StatusMatchesAmounts'
  BY <1>1, <1>2 DEF StatusMatchesAmounts
<1>13. OthersOK'
  <2>1. [key |-> Key("GRANT", k, k), bucket |-> k, delta |-> n] \in LedgerRows
    BY <1>4 DEF LedgerRows, LedgerKeys, Key
  <2>2. ledger' \in SUBSET LedgerRows
    BY <1>1, <2>1 DEF Grant, OthersOK
  <2>3. QED
    BY <1>1, <1>2, <2>2 DEF OthersOK
<1>14. QED
  BY <1>10, <1>11, <1>12, <1>13 DEF IInv, TypeOK, RowsOK, OthersOK, LineTable

\* A step that leaves the rows alone only has to keep the rest typed.
LEMMA RowsUnchanged ==
  ASSUME IInv, UNCHANGED <<bucket, reservation, line>>, OthersOK'
  PROVE  IInv'
<1>1. RowsOK /\ OthersOK /\ Books /\ StatusMatchesAmounts
  BY IInvParts
<1>2. RowsOK'
  BY <1>1 DEF RowsOK
<1>3. Books'
  BY <1>1 DEF Books, BucketConservation, LinesWithinReserved, BucketsMatchLines,
              ReservationMatchesLines
<1>4. StatusMatchesAmounts'
  BY <1>1 DEF StatusMatchesAmounts
<1>5. QED
  BY <1>2, <1>3, <1>4 DEF IInv, TypeOK, RowsOK, OthersOK, LineTable

\* Opening or abandoning a call touches no table.
LEMMA CallsIInv ==
  ASSUME IInv, NEW p \in Callers,
         \/ \E b \in Batches, n \in Amounts : BeginReserve(p, b, n)
         \/ \E b \in Batches, c \in Candidates, type \in GenTypes : BeginResolve(p, b, c, type)
         \/ AbortReserve(p)
         \/ AbortResolve(p)
  PROVE  IInv'
<1>1. OthersOK
  BY IInvParts
<1>2. UNCHANGED <<bucket, reservation, line, expiresAt, ledger, reaping, clock>>
  BY DEF BeginReserve, BeginResolve, AbortReserve, AbortResolve
<1>3. \E x \in {Idle} \cup ReserveCalls \cup ResolveCalls : call' = [call EXCEPT ![p] = x]
  <2>1. CASE \E b \in Batches, n \in Amounts : BeginReserve(p, b, n)
    <3>1. clock \in Nat
      BY <1>1 DEF OthersOK
    <3>2. QED
      BY <2>1, <3>1 DEF BeginReserve, ReserveCalls, Spendable
  <2>2. CASE \E b \in Batches, c \in Candidates, type \in GenTypes : BeginResolve(p, b, c, type)
    BY <2>2 DEF BeginResolve, ResolveCalls
  <2>3. CASE AbortReserve(p) \/ AbortResolve(p)
    BY <2>3 DEF AbortReserve, AbortResolve
  <2>4. QED
    BY <2>1, <2>2, <2>3
<1>4. call' \in [Callers -> {Idle} \cup ReserveCalls \cup ResolveCalls]
  BY <1>1, <1>3 DEF OthersOK
<1>5. OthersOK'
  BY <1>1, <1>2, <1>4 DEF OthersOK
<1>6. QED
  BY <1>2, <1>5, RowsUnchanged

\* An open transaction is one of the two kinds its op says.
LEMMA OpenCall ==
  ASSUME OthersOK, NEW p \in Callers
  PROVE  /\ call[p].op = "reserve" => call[p] \in ReserveCalls
         /\ call[p].op = "resolve" => call[p] \in ResolveCalls
BY DEF OthersOK, Idle, ReserveCalls, ResolveCalls

\* createReservation: what its lines take is what its buckets hold for it.
LEMMA CommitReserveIInv ==
  ASSUME IInv, NEW p \in Callers, CommitReserve(p)
  PROVE  IInv'
<1>1. RowsOK /\ OthersOK /\ Books /\ StatusMatchesAmounts
  BY IInvParts
<1> DEFINE b == call[p].batch  n == call[p].amount
<1>2. /\ b \in Batches /\ n \in Nat /\ reservation[b].status = "NONE"
      /\ call[p].now \in Nat
  BY <1>1, OpenCall, LedgerAssumption DEF CommitReserve, ReserveCalls
<1>3. PICK take \in Reservable(p) :
        /\ Draw(b, take)
        /\ ledger' = ledger \cup Rows("RESERVE", b, {k \in Buckets : take[k] > 0},
                                     [k \in Buckets |-> -take[k]])
        /\ reservation' = [reservation EXCEPT ![b] = Account!NewReservation(n)]
        /\ expiresAt' = [expiresAt EXCEPT ![b] = call[p].now + ReservationTtl]
  BY DEF CommitReserve
<1>4. call' = [call EXCEPT ![p] = Idle] /\ UNCHANGED <<reaping, clock>>
  BY DEF CommitReserve
<1> HIDE DEF b, n
<1>5. DOMAIN bucket = Buckets /\ \A k \in Buckets : bucket[k].remaining \in Nat
  BY <1>1 DEF RowsOK, BucketRows
<1>6. /\ take \in [Buckets -> 0 .. n] /\ Total(take) = n
      /\ \A k \in Buckets : take[k] > 0 => take[k] <= bucket[k].remaining
  BY <1>3, <1>5 DEF Reservable, Plans, n
<1>7. take \in [Buckets -> Nat] /\ \A k \in Buckets : take[k] <= bucket[k].remaining
  BY <1>2, <1>5, <1>6
<1>8. \A k \in Buckets : line[b][k] = NoLine
  BY <1>1, <1>2 DEF StatusMatchesAmounts
<1>9. RowsOK' /\ Books'
  BY <1>1, <1>2, <1>3, <1>6, <1>7, <1>8, ReserveKeepsBooks
<1>10. StatusMatchesAmounts'
  <2>1. \A x \in Batches \ {b} : line'[x] = line[x]
    BY <1>1, <1>3 DEF Draw, RowsOK, LineTable
  <2>2. /\ Account!NewReservation(n).status = "ACTIVE"
        /\ Account!NewReservation(n).consumed = 0 /\ Account!NewReservation(n).released = 0
    BY DEF Account!NewReservation
  <2>3. QED
    BY <1>1, <1>2, <1>3, <2>1, <2>2, StatusOfOne
<1>11. OthersOK'
  <2>1. [k \in Buckets |-> -take[k]] \in [Buckets -> Int]
    BY <1>7
  <2>2. Rows("RESERVE", b, {k \in Buckets : take[k] > 0}, [k \in Buckets |-> -take[k]])
          \in SUBSET LedgerRows
    BY <1>2, <2>1, RowsType DEF LineTypes
  <2>3. ledger' \in SUBSET LedgerRows
    BY <1>1, <1>3, <2>2 DEF OthersOK
  <2>4. expiresAt' \in [Batches -> Nat]
    <3>1. call[p].now + ReservationTtl \in Nat /\ expiresAt \in [Batches -> Nat]
      BY <1>1, <1>2, LedgerAssumption DEF OthersOK
    <3>2. QED
      BY <1>3, <3>1
  <2>5. call' \in [Callers -> {Idle} \cup ReserveCalls \cup ResolveCalls]
    BY <1>1, <1>4 DEF OthersOK
  <2>6. QED
    BY <1>1, <1>4, <2>3, <2>4, <2>5 DEF OthersOK
<1>12. QED
  BY <1>9, <1>10, <1>11 DEF IInv, TypeOK, RowsOK, OthersOK, LineTable

\* The same, of a row of the table.
LEMMA SettledRow ==
  ASSUME RowsOK, NEW b \in Batches, NEW c \in Nat, NEW d \in Nat
  PROVE  /\ Account!Settled(reservation[b], c, d) \in Account!Reservations
         /\ Account!Settled(reservation[b], c, d).reserved = reservation[b].reserved
         /\ Account!Settled(reservation[b], c, d).consumed = reservation[b].consumed + c
         /\ Account!Settled(reservation[b], c, d).released = reservation[b].released + d
         /\ Account!Settled(reservation[b], c, d).status \notin {"NONE", "EXPIRED"}
         /\ Account!Settled(reservation[b], c, d).status = "ACTIVE" =>
               reservation[b].consumed + c = 0 /\ reservation[b].released + d = 0
         /\ Account!Settled(reservation[b], c, d).status = "CONSUMED" =>
               reservation[b].consumed + c = reservation[b].reserved
         /\ Account!Settled(reservation[b], c, d).status = "RELEASED" =>
               reservation[b].released + d = reservation[b].reserved
<1> DEFINE r == reservation[b]
<1>1. r \in Account!Reservations
  BY DEF RowsOK
<1> HIDE DEF r
<1>2. /\ Account!Settled(r, c, d) \in Account!Reservations
      /\ Account!Settled(r, c, d).reserved = r.reserved
      /\ Account!Settled(r, c, d).consumed = r.consumed + c
      /\ Account!Settled(r, c, d).released = r.released + d
      /\ Account!Settled(r, c, d).status \notin {"NONE", "EXPIRED"}
      /\ Account!Settled(r, c, d).status = "ACTIVE" => r.consumed + c = 0 /\ r.released + d = 0
      /\ Account!Settled(r, c, d).status = "CONSUMED" => r.consumed + c = r.reserved
      /\ Account!Settled(r, c, d).status = "RELEASED" => r.released + d = r.reserved
  BY <1>1, SettledReservation, Zenon
<1>3. QED
  BY <1>2 DEF r

\* resolveOneCredit moves one credit in the bucket, the line and the row alike.
LEMMA CommitResolveIInv ==
  ASSUME IInv, NEW p \in Callers, CommitResolve(p)
  PROVE  IInv'
<1>1. RowsOK /\ OthersOK /\ Books /\ StatusMatchesAmounts
  BY IInvParts
<1> DEFINE b == call[p].batch
           c == IF call[p].type = "GEN_CONSUME" THEN 1 ELSE 0
           d == 1 - c
<1>2. /\ b \in Batches /\ call[p].candidate \in Candidates /\ call[p].type \in GenTypes
      /\ c \in Nat /\ d \in Nat /\ c + d = 1
  BY <1>1, OpenCall DEF CommitResolve, ResolveCalls
<1>3. PICK k \in Payable(b) :
        /\ Settle(b, On(k, c), On(k, d))
        /\ ledger' = ledger \cup {[key |-> Key(call[p].type, b, call[p].candidate),
                                   bucket |-> k, delta |-> d - c]}
  BY DEF CommitResolve
<1>4. /\ reservation' = [reservation EXCEPT ![b] = Account!Settled(reservation[b], c, d)]
      /\ call' = [call EXCEPT ![p] = Idle]
      /\ UNCHANGED <<expiresAt, reaping, clock>>
  BY DEF CommitResolve
<1> HIDE DEF b, c, d
<1>5. k \in Buckets /\ Outstanding(line[b][k]) > 0
  BY DEF Payable
<1>6. reservation[b] \in Account!Reservations
  BY <1>1, <1>2 DEF RowsOK
<1>s. /\ Account!Settled(reservation[b], c, d) \in Account!Reservations
      /\ Account!Settled(reservation[b], c, d).reserved = reservation[b].reserved
      /\ Account!Settled(reservation[b], c, d).consumed = reservation[b].consumed + c
      /\ Account!Settled(reservation[b], c, d).released = reservation[b].released + d
      /\ Account!Settled(reservation[b], c, d).status \notin {"NONE", "EXPIRED"}
      /\ Account!Settled(reservation[b], c, d).status = "ACTIVE" =>
            reservation[b].consumed + c = 0 /\ reservation[b].released + d = 0
      /\ Account!Settled(reservation[b], c, d).status = "CONSUMED" =>
            reservation[b].consumed + c = reservation[b].reserved
      /\ Account!Settled(reservation[b], c, d).status = "RELEASED" =>
            reservation[b].released + d = reservation[b].reserved
  BY <1>1, <1>2, SettledRow
<1>7. \A j \in Buckets : On(k, c)[j] + On(k, d)[j] <= Outstanding(line[b][j])
  <2>1. SUFFICES ASSUME NEW j \in Buckets
                 PROVE  On(k, c)[j] + On(k, d)[j] <= Outstanding(line[b][j])
    OBVIOUS
  <2>2. Outstanding(line[b][j]) \in Nat
    BY <1>1, <1>2 DEF RowsOK, LineTable, LineRows, Outstanding, Books, LinesWithinReserved
  <2>3. CASE j = k
    BY <1>2, <1>5, <2>2, <2>3, OnTotal
  <2>4. CASE j # k
    BY <1>2, <1>5, <2>2, <2>4, OnTotal
  <2>5. QED
    BY <2>3, <2>4
<1>8. RowsOK' /\ Books'
  <2>1. PICK r \in Account!Reservations : r = Account!Settled(reservation[b], c, d)
    BY <1>s
  <2>2. /\ r.reserved = reservation[b].reserved
        /\ r.consumed = reservation[b].consumed + Total(On(k, c))
        /\ r.released = reservation[b].released + Total(On(k, d))
    BY <1>2, <1>5, <1>s, <2>1, OnTotal
  <2>3. On(k, c) \in [Buckets -> Nat] /\ On(k, d) \in [Buckets -> Nat]
    BY <1>2, <1>5, OnTotal
  <2>4. reservation' = [reservation EXCEPT ![b] = r]
    BY <1>4, <2>1
  <2>5. QED
    BY <1>1, <1>2, <1>3, <1>7, <2>2, <2>3, <2>4, SettleKeepsBooks
<1>9. StatusMatchesAmounts'
  <2>1. \A x \in Batches \ {b} : line'[x] = line[x]
    BY <1>1, <1>3 DEF Settle, RowsOK, LineTable
  <2>2. PICK r : r = Account!Settled(reservation[b], c, d)
    OBVIOUS
  <2>3. /\ r.status # "NONE"
        /\ r.status = "ACTIVE" => r.consumed = 0 /\ r.released = 0
        /\ r.status = "CONSUMED" => r.consumed = r.reserved
        /\ r.status \in {"RELEASED", "EXPIRED"} => r.released = r.reserved
    BY <1>s, <2>2
  <2>4. QED
    BY <1>1, <1>2, <1>4, <2>1, <2>2, <2>3, StatusOfOne
<1>10. OthersOK'
  <2>1. [key |-> Key(call[p].type, b, call[p].candidate), bucket |-> k, delta |-> d - c] \in LedgerRows
    BY <1>2, <1>5 DEF LedgerRows, LedgerKeys, Key
  <2>2. ledger' \in SUBSET LedgerRows
    BY <1>1, <1>3, <2>1 DEF OthersOK
  <2>3. call' \in [Callers -> {Idle} \cup ReserveCalls \cup ResolveCalls]
    BY <1>1, <1>4 DEF OthersOK
  <2>4. QED
    BY <1>1, <1>4, <2>2, <2>3 DEF OthersOK
<1>11. QED
  BY <1>8, <1>9, <1>10 DEF IInv, TypeOK, RowsOK, OthersOK, LineTable

\* releaseUnusedReservation gives back, in all three tables, what is left.
LEMMA ReleaseUnusedIInv ==
  ASSUME IInv, NEW b \in Batches, ReleaseUnused(b)
  PROVE  IInv'
<1>1. RowsOK /\ OthersOK /\ Books /\ StatusMatchesAmounts
  BY IInvParts
<1> DEFINE S == {k \in Payable(b) : ~HasKey(Key("UNUSED", b, k))}
           out == [k \in Buckets |-> IF k \in S THEN Outstanding(line[b][k]) ELSE 0]
           d == Total(out)
<1>2. /\ GiveBack(b, S, "UNUSED")
      /\ reservation' = [reservation EXCEPT ![b] = Account!Settled(reservation[b], 0, d)]
      /\ UNCHANGED <<expiresAt, call, reaping, clock>>
  BY DEF ReleaseUnused
<1>3. S \in SUBSET Buckets
  BY DEF Payable
<1>4. PICK o : o = out
  OBVIOUS
<1>5. /\ o \in [Buckets -> Nat]
      /\ \A k \in Buckets : Nothing[k] + o[k] <= Outstanding(line[b][k])
      /\ Settle(b, Nothing, o)
      /\ \E rows \in SUBSET LedgerRows : ledger' = ledger \cup rows
  <2> HIDE DEF S
  <2>1. GiveBack(b, S, "UNUSED") /\ "UNUSED" \in LineTypes
        /\ o = [k \in Buckets |-> IF k \in S THEN Outstanding(line[b][k]) ELSE 0]
    BY <1>2, <1>4 DEF LineTypes
  <2>2. QED
    BY <1>1, <1>3, <2>1, GiveBackSettles
<1>6. d = Total(o) /\ d \in Nat
  <2>1. Total(o) \in Nat
    BY <1>5, TotalType, LedgerAssumption
  <2>2. QED
    BY <1>4, <2>1
<1> HIDE DEF S, out, d
<1>7. /\ Account!Settled(reservation[b], 0, d) \in Account!Reservations
      /\ Account!Settled(reservation[b], 0, d).reserved = reservation[b].reserved
      /\ Account!Settled(reservation[b], 0, d).consumed = reservation[b].consumed + 0
      /\ Account!Settled(reservation[b], 0, d).released = reservation[b].released + d
      /\ Account!Settled(reservation[b], 0, d).status \notin {"NONE", "EXPIRED"}
      /\ Account!Settled(reservation[b], 0, d).status = "ACTIVE" =>
            reservation[b].consumed + 0 = 0 /\ reservation[b].released + d = 0
      /\ Account!Settled(reservation[b], 0, d).status = "CONSUMED" =>
            reservation[b].consumed + 0 = reservation[b].reserved
      /\ Account!Settled(reservation[b], 0, d).status = "RELEASED" =>
            reservation[b].released + d = reservation[b].reserved
  BY <1>1, <1>6, SettledRow
<1>8. PICK r \in Account!Reservations : r = Account!Settled(reservation[b], 0, d)
  BY <1>7
<1>9. RowsOK' /\ Books'
  <2>1. /\ r.reserved = reservation[b].reserved
        /\ r.consumed = reservation[b].consumed + Total(Nothing)
        /\ r.released = reservation[b].released + Total(o)
    BY <1>6, <1>7, <1>8, NothingTotal
  <2>2. reservation' = [reservation EXCEPT ![b] = r]
    BY <1>2, <1>8
  <2>3. Nothing \in [Buckets -> Nat]
    BY NothingTotal
  <2>4. QED
    BY <1>1, <1>5, <2>1, <2>2, <2>3, SettleKeepsBooks
<1>10. StatusMatchesAmounts'
  <2>1. \A x \in Batches \ {b} : line'[x] = line[x]
    BY <1>1, <1>5 DEF Settle, RowsOK, LineTable
  <2>2. /\ r.status # "NONE"
        /\ r.status = "ACTIVE" => r.consumed = 0 /\ r.released = 0
        /\ r.status = "CONSUMED" => r.consumed = r.reserved
        /\ r.status \in {"RELEASED", "EXPIRED"} => r.released = r.reserved
    BY <1>7, <1>8
  <2>3. QED
    BY <1>1, <1>2, <1>8, <2>1, <2>2, StatusOfOne
<1>11. OthersOK'
  BY <1>1, <1>2, <1>5 DEF OthersOK
<1>12. QED
  BY <1>9, <1>10, <1>11 DEF IInv, TypeOK, RowsOK, OthersOK, LineTable

\* The transaction of releaseReservation, whoever calls it
LEMMA ReleaseIInv ==
  ASSUME IInv, NEW b \in Batches, NEW status \in {"RELEASED", "EXPIRED"}, Release(b, status),
         UNCHANGED <<expiresAt, call, clock>>, reaping' \in SUBSET Batches
  PROVE  IInv'
<1>1. RowsOK /\ OthersOK /\ Books /\ StatusMatchesAmounts
  BY IInvParts
<1> DEFINE held == [k \in Buckets |-> Outstanding(line[b][k])]
           out == [k \in Buckets |-> IF k \in Payable(b) THEN Outstanding(line[b][k]) ELSE 0]
<1>2. /\ GiveBack(b, Payable(b), "RELEASE")
      /\ reservation[b].status = "ACTIVE"
      /\ reservation' = [reservation EXCEPT ![b].status = status, ![b].released = @ + Total(held)]
  BY DEF Release
<1>3. PICK o : o = out
  OBVIOUS
<1>4. /\ o \in [Buckets -> Nat]
      /\ \A k \in Buckets : Nothing[k] + o[k] <= Outstanding(line[b][k])
      /\ Settle(b, Nothing, o)
      /\ \E rows \in SUBSET LedgerRows : ledger' = ledger \cup rows
  <2>1. Payable(b) \in SUBSET Buckets /\ "RELEASE" \in LineTypes
    BY DEF Payable, LineTypes
  <2>2. QED
    BY <1>1, <1>2, <1>3, <2>1, GiveBackSettles
<1>5. o = held
  <2>1. \A k \in Buckets : Outstanding(line[b][k]) \in Nat
    BY <1>1 DEF RowsOK, LineTable, LineRows, Outstanding, Books, LinesWithinReserved
  <2>2. QED
    BY <1>3, <2>1 DEF Payable
<1>6. /\ reservation[b] \in Account!Reservations
      /\ reservation[b].consumed = 0 /\ reservation[b].released = 0
      /\ reservation[b].reserved \in Nat
  BY <1>1, <1>2 DEF RowsOK, StatusMatchesAmounts, Account!Reservations
<1>7. Total(o) = reservation[b].reserved
  BY <1>1, <1>5, <1>6, HeldIsOutstanding DEF Account!Held
<1>8. PICK r : r = [reservation[b] EXCEPT !.status = status, !.released = @ + Total(o)]
  OBVIOUS
<1>9. r = [status |-> status, reserved |-> reservation[b].reserved, consumed |-> 0,
           released |-> reservation[b].reserved]
  <2>1. reservation[b].released + Total(o) = reservation[b].reserved
    BY <1>6, <1>7
  <2>2. PICK n : n = reservation[b].released + Total(o)
    OBVIOUS
  <2>3. r = [reservation[b] EXCEPT !.status = status, !.released = n]
    BY <1>8, <2>2
  <2>4. n = reservation[b].reserved
    BY <2>1, <2>2
  <2>5. QED
    BY <1>6, <2>3, <2>4 DEF Account!Reservations
<1>10. reservation' = [reservation EXCEPT ![b] = r]
  BY <1>1, <1>2, <1>5, <1>8 DEF RowsOK
<1> HIDE DEF held, out
<1>11. RowsOK' /\ Books'
  <2>1. r \in Account!Reservations
    BY <1>6, <1>9 DEF Account!Reservations, Account!ReservationStatuses
  <2>2. /\ r.reserved = reservation[b].reserved
        /\ r.consumed = reservation[b].consumed + Total(Nothing)
        /\ r.released = reservation[b].released + Total(o)
    BY <1>6, <1>7, <1>9, NothingTotal
  <2>3. Nothing \in [Buckets -> Nat]
    BY NothingTotal
  <2>4. QED
    BY <1>1, <1>4, <1>10, <2>1, <2>2, <2>3, SettleKeepsBooks
<1>12. StatusMatchesAmounts'
  <2>1. \A x \in Batches \ {b} : line'[x] = line[x]
    BY <1>1, <1>4 DEF Settle, RowsOK, LineTable
  <2>2. r.status \in {"RELEASED", "EXPIRED"} /\ r.released = r.reserved
    BY <1>9
  <2>3. QED
    BY <1>1, <1>10, <2>1, <2>2, StatusOfOne
<1>13. OthersOK'
  BY <1>1, <1>4 DEF OthersOK
<1>14. QED
  BY <1>11, <1>12, <1>13 DEF IInv, TypeOK, RowsOK, OthersOK, LineTable

\* consumeReservation consumes, in all three tables, what the lines hold.
LEMMA ConsumeReservationIInv ==
  ASSUME IInv, NEW b \in Batches, ConsumeReservation(b)
  PROVE  IInv'
<1>1. RowsOK /\ OthersOK /\ Books /\ StatusMatchesAmounts
  BY IInvParts
<1> DEFINE out == [k \in Buckets |-> Outstanding(line[b][k])]
<1>2. /\ reservation[b].status = "ACTIVE"
      /\ Settle(b, out, Nothing)
      /\ ledger' = ledger \cup Rows("CONSUME", b, Payable(b), [k \in Buckets |-> -out[k]])
      /\ reservation' = [reservation EXCEPT ![b].status = "CONSUMED",
                                            ![b].consumed = reservation[b].reserved]
      /\ UNCHANGED <<expiresAt, call, reaping, clock>>
  BY DEF ConsumeReservation
<1>3. /\ out \in [Buckets -> Nat]
      /\ \A k \in Buckets : out[k] + Nothing[k] <= Outstanding(line[b][k])
  <2>1. \A k \in Buckets : Outstanding(line[b][k]) \in Nat
    BY <1>1 DEF RowsOK, LineTable, LineRows, Outstanding, Books, LinesWithinReserved
  <2>2. QED
    BY <2>1, NothingTotal
<1>4. /\ reservation[b] \in Account!Reservations
      /\ reservation[b].consumed = 0 /\ reservation[b].released = 0
      /\ reservation[b].reserved \in Nat
  BY <1>1, <1>2 DEF RowsOK, StatusMatchesAmounts, Account!Reservations
<1>5. Total(out) = reservation[b].reserved
  BY <1>1, <1>4, HeldIsOutstanding DEF Account!Held
<1>6. PICK r : r = [reservation[b] EXCEPT !.status = "CONSUMED", !.consumed = reservation[b].reserved]
  OBVIOUS
<1>7. r = [status |-> "CONSUMED", reserved |-> reservation[b].reserved,
           consumed |-> reservation[b].reserved, released |-> 0]
  BY <1>4, <1>6 DEF Account!Reservations
<1>8. reservation' = [reservation EXCEPT ![b] = r]
  BY <1>1, <1>2, <1>6 DEF RowsOK
<1>o. PICK o : o = out
  OBVIOUS
<1>9. Rows("CONSUME", b, Payable(b), [k \in Buckets |-> -out[k]]) \in SUBSET LedgerRows
  <2>1. [k \in Buckets |-> -out[k]] \in [Buckets -> Int]
    BY <1>3
  <2>2. Payable(b) \in SUBSET Buckets /\ "CONSUME" \in LineTypes
    BY DEF Payable, LineTypes
  <2> HIDE DEF out
  <2>3. QED
    BY <2>1, <2>2, RowsType
<1>p. /\ o \in [Buckets -> Nat] /\ Settle(b, o, Nothing) /\ Total(o) = reservation[b].reserved
      /\ \A k \in Buckets : o[k] + Nothing[k] <= Outstanding(line[b][k])
  BY <1>2, <1>3, <1>5, <1>o
<1> HIDE DEF out
<1>10. RowsOK' /\ Books'
  <2>1. r \in Account!Reservations
    BY <1>4, <1>7 DEF Account!Reservations, Account!ReservationStatuses
  <2>2. /\ r.reserved = reservation[b].reserved
        /\ r.consumed = reservation[b].consumed + Total(o)
        /\ r.released = reservation[b].released + Total(Nothing)
    BY <1>4, <1>7, <1>p, NothingTotal
  <2>3. Nothing \in [Buckets -> Nat]
    BY NothingTotal
  <2>4. QED
    BY <1>1, <1>8, <1>p, <2>1, <2>2, <2>3, SettleKeepsBooks
<1>11. StatusMatchesAmounts'
  <2>1. \A x \in Batches \ {b} : line'[x] = line[x]
    BY <1>1, <1>2 DEF Settle, RowsOK, LineTable
  <2>2. r.status = "CONSUMED" /\ r.consumed = r.reserved
    BY <1>7
  <2>3. QED
    BY <1>1, <1>8, <2>1, <2>2, StatusOfOne
<1>12. OthersOK'
  BY <1>1, <1>2, <1>9 DEF OthersOK
<1>13. QED
  BY <1>10, <1>11, <1>12 DEF IInv, TypeOK, RowsOK, OthersOK, LineTable

\* The reaper: its selection touches no table, its release is releaseReservation.
LEMMA ReaperIInv ==
  ASSUME IInv, ReaperSelect \/ \E b \in Batches : ReaperRelease(b)
  PROVE  IInv'
<1>1. OthersOK
  BY IInvParts
<1>2. CASE ReaperSelect
  <2>1. OthersOK'
    BY <1>1, <1>2 DEF ReaperSelect, OthersOK
  <2>2. UNCHANGED <<bucket, reservation, line>>
    BY <1>2 DEF ReaperSelect
  <2>3. QED
    BY <2>1, <2>2, RowsUnchanged
<1>3. ASSUME NEW b \in Batches, ReaperRelease(b)
      PROVE  IInv'
  <2>1. reaping' \in SUBSET Batches /\ UNCHANGED <<expiresAt, call, clock>>
    BY <1>1, <1>3 DEF ReaperRelease, OthersOK
  <2>2. CASE Release(b, "RELEASED")
    BY <2>1, <2>2, ReleaseIInv
  <2>3. CASE UNCHANGED <<bucket, reservation, line, ledger>>
    <3>1. OthersOK'
      BY <1>1, <2>1, <2>3 DEF OthersOK
    <3>2. QED
      BY <2>3, <3>1, RowsUnchanged
  <2>4. QED
    BY <1>3, <2>2, <2>3 DEF ReaperRelease
<1>4. QED
  BY <1>2, <1>3

\* Every step keeps the invariant.
LEMMA NextIInv ==
  ASSUME IInv, [Next]_vars
  PROVE  IInv'
<1>1. ASSUME NEW k \in Buckets, NEW n \in Amounts, NEW w \in Windows, Grant(k, n, w)
      PROVE  IInv'
  BY <1>1, GrantIInv
<1>2. ASSUME NEW p \in Callers,
             \/ \E b \in Batches, n \in Amounts : BeginReserve(p, b, n)
             \/ \E b \in Batches, c \in Candidates, type \in GenTypes : BeginResolve(p, b, c, type)
             \/ AbortReserve(p)
             \/ AbortResolve(p)
      PROVE  IInv'
  BY <1>2, CallsIInv
<1>3. ASSUME NEW p \in Callers, CommitReserve(p) \/ CommitResolve(p)
      PROVE  IInv'
  BY <1>3, CommitReserveIInv, CommitResolveIInv
<1>4. ASSUME NEW b \in Batches, ReleaseUnused(b) \/ ConsumeReservation(b)
      PROVE  IInv'
  BY <1>4, ReleaseUnusedIInv, ConsumeReservationIInv
<1>5. ASSUME NEW b \in Batches, NEW status \in {"RELEASED", "EXPIRED"}, ReleaseReservation(b, status)
      PROVE  IInv'
  <2>1. Release(b, status) /\ UNCHANGED <<expiresAt, call, clock>> /\ reaping' \in SUBSET Batches
    BY <1>5, IInvParts DEF ReleaseReservation, OthersOK
  <2>2. QED
    BY <2>1, ReleaseIInv
<1>6. CASE ReaperSelect \/ \E b \in Batches : ReaperRelease(b)
  BY <1>6, ReaperIInv
<1>7. CASE Tick \/ UNCHANGED vars
  <2>1. OthersOK' /\ UNCHANGED <<bucket, reservation, line>>
    BY <1>7, IInvParts DEF Tick, vars, OthersOK
  <2>2. QED
    BY <2>1, RowsUnchanged
<1>8. QED
  BY <1>1, <1>2, <1>3, <1>4, <1>5, <1>6, <1>7 DEF Next

-----------------------------------------------------------------------------
\* Theorems

\* The inductive invariant holds in every reachable state.
THEOREM Invariant == Spec => []IInv
<1>1. Init => IInv
  BY InitIInv
<1>2. IInv /\ [Next]_vars => IInv'
  BY NextIInv
<1>3. QED
  BY <1>1, <1>2, PTL DEF Spec

\* Rows keep their types: no amount that the tables store as a balance of
\* credits to spend, consumed or released ever goes below zero, whichever
\* transactions race.
THEOREM TypeCorrect == Spec => []TypeOK
<1>1. IInv => TypeOK
  BY DEF IInv
<1>2. QED
  BY <1>1, Invariant, PTL

\* Credits are neither created nor lost.
THEOREM Conservation == Spec => []BucketConservation
<1>1. IInv => BucketConservation
  BY DEF IInv, Books
<1>2. QED
  BY <1>1, Invariant, PTL

\* The bucket table and the line table agree, and so do the reservation rows
\* and their lines.
THEOREM CrossChecks == Spec => [](BucketsMatchLines /\ ReservationMatchesLines)
<1>1. IInv => BucketsMatchLines /\ ReservationMatchesLines
  BY DEF IInv, Books
<1>2. QED
  BY <1>1, Invariant, PTL

\* A reservation in a final status holds no credit: what CONSUMED, RELEASED
\* and EXPIRED reservations reserved is all consumed or given back.
THEOREM NothingHeldWhenClosed == Spec => []ClosedHoldsNothing
<1>1. ASSUME IInv PROVE ClosedHoldsNothing
  <2>1. RowsOK /\ Books /\ StatusMatchesAmounts
    BY <1>1, IInvParts
  <2>2. SUFFICES ASSUME NEW b \in Batches,
                        reservation[b].status \in {"CONSUMED", "RELEASED", "EXPIRED"},
                        NEW k \in Buckets
                 PROVE  ~(Outstanding(line[b][k]) > 0)
    BY DEF ClosedHoldsNothing, Payable
  <2> DEFINE out == [j \in Buckets |-> Outstanding(line[b][j])]
  <2>3. out \in [Buckets -> Nat]
    BY <2>1 DEF RowsOK, LineTable, LineRows, Outstanding, Books, LinesWithinReserved
  <2>4. /\ reservation[b].reserved \in Nat /\ reservation[b].consumed \in Nat
        /\ reservation[b].released \in Nat
    BY <2>1 DEF RowsOK, Account!Reservations
  <2>5. \/ reservation[b].consumed = reservation[b].reserved
        \/ reservation[b].released = reservation[b].reserved
    BY <2>1, <2>2 DEF StatusMatchesAmounts
  <2>6. Total(out) = reservation[b].reserved - reservation[b].consumed - reservation[b].released
    BY <2>1, HeldIsOutstanding DEF Account!Held
  <2>7. out[k] = Outstanding(line[b][k])
    OBVIOUS
  <2> HIDE DEF out
  <2>8. Total(out) \in Nat
    BY <2>3, TotalType, LedgerAssumption
  <2>9. Total(out) = 0
    BY <2>4, <2>5, <2>6, <2>8
  <2>10. out[k] = 0
    BY <2>3, <2>9, TotalZero, LedgerAssumption
  <2>11. QED
    BY <2>7, <2>10
<1>2. QED
  BY <1>1, Invariant, PTL

\* What a reservation was closed with is final: no step changes it or its
\* lines again.
THEOREM ClosedStays == Spec => ClosedIsFinal
<1> DEFINE Closed(b) == reservation[b].status \in {"CONSUMED", "RELEASED", "EXPIRED"}
           Same(b) == reservation'[b] = reservation[b] /\ line'[b] = line[b]
<1>1. ASSUME IInv, [Next]_vars, NEW b \in Batches, Closed(b)
      PROVE  Same(b)
  <2>1. /\ reservation \in [Batches -> Account!Reservations]
        /\ line \in LineTable /\ OthersOK
    BY <1>1, IInvParts DEF RowsOK
  <2>2. CASE UNCHANGED <<reservation, line>>
    BY <2>2
  <2>3. ASSUME NEW x \in Batches, ~Closed(x), NEW r, NEW l,
               reservation' = [reservation EXCEPT ![x] = r], line' = [line EXCEPT ![x] = l]
        PROVE  Same(b)
    <3>1. x # b
      BY <1>1, <2>3
    <3>2. QED
      BY <2>1, <2>3, <3>1 DEF LineTable
  <2>4. ASSUME NEW p \in Callers, CommitReserve(p)
        PROVE  Same(b)
    <3> DEFINE x == call[p].batch
    <3>1. x \in Batches /\ ~Closed(x)
      BY <2>1, <2>4, OpenCall DEF CommitReserve, ReserveCalls
    <3>2. \E r, l : reservation' = [reservation EXCEPT ![x] = r] /\ line' = [line EXCEPT ![x] = l]
      BY <2>4 DEF CommitReserve, Draw
    <3>3. QED
      BY <2>3, <3>1, <3>2
  <2>5. ASSUME NEW p \in Callers, CommitResolve(p)
        PROVE  Same(b)
    <3> DEFINE x == call[p].batch
    <3>1. x \in Batches /\ ~Closed(x)
      BY <2>1, <2>5, OpenCall DEF CommitResolve, ResolveCalls, Resolvable, Account!Settleable
    <3>2. \E r, l : reservation' = [reservation EXCEPT ![x] = r] /\ line' = [line EXCEPT ![x] = l]
      BY <2>5 DEF CommitResolve, Settle
    <3>3. QED
      BY <2>3, <3>1, <3>2
  <2>6. ASSUME NEW x \in Batches, ReleaseUnused(x)
        PROVE  Same(b)
    <3>1. ~Closed(x)
      BY <2>6 DEF ReleaseUnused, Account!Settleable
    <3>2. \E r, l : reservation' = [reservation EXCEPT ![x] = r] /\ line' = [line EXCEPT ![x] = l]
      BY <2>6 DEF ReleaseUnused, GiveBack, Settle
    <3>3. QED
      BY <2>3, <3>1, <3>2
  <2>7. ASSUME NEW x \in Batches, NEW status, Release(x, status)
        PROVE  Same(b)
    <3>1. ~Closed(x)
      BY <2>7 DEF Release
    <3>2. \E l : line' = [line EXCEPT ![x] = l]
      BY <2>7 DEF Release, GiveBack, Settle
    <3>3. x # b
      BY <1>1, <3>1
    <3>4. reservation'[b] = reservation[b]
      BY <2>1, <2>7, <3>3 DEF Release
    <3>5. QED
      BY <2>1, <3>2, <3>3, <3>4 DEF LineTable
  <2>8. ASSUME NEW x \in Batches, ConsumeReservation(x)
        PROVE  Same(b)
    <3>1. ~Closed(x)
      BY <2>8 DEF ConsumeReservation
    <3>2. \E l : line' = [line EXCEPT ![x] = l]
      BY <2>8 DEF ConsumeReservation, Settle
    <3>3. x # b
      BY <1>1, <3>1
    <3>4. reservation'[b] = reservation[b]
      BY <2>1, <2>8, <3>3 DEF ConsumeReservation
    <3>5. QED
      BY <2>1, <3>2, <3>3, <3>4 DEF LineTable
  <2>9. \/ UNCHANGED <<reservation, line>>
        \/ \E p \in Callers : CommitReserve(p) \/ CommitResolve(p)
        \/ \E x \in Batches : \/ ReleaseUnused(x)
                             \/ ConsumeReservation(x)
                             \/ \E status \in {"RELEASED", "EXPIRED"} : Release(x, status)
    BY <1>1 DEF Next, vars, Grant, BeginReserve, AbortReserve, BeginResolve, AbortResolve,
                ReleaseReservation, ReaperSelect, ReaperRelease, Tick
  <2>10. QED
    BY <2>2, <2>4, <2>5, <2>6, <2>7, <2>8, <2>9
<1>2. IInv /\ [Next]_vars => [\A b \in Batches : Closed(b) => Same(b)]_vars
  BY <1>1
<1>3. QED
  BY <1>2, Invariant, PTL DEF Spec, ClosedIsFinal

-----------------------------------------------------------------------------
\* The ledger

\* What a row moves, and what the rows of L of the given types move of bucket k
Size(row) == IF row.delta < 0 THEN -row.delta ELSE row.delta
Moved(L, k, types) ==
  Total([row \in {r \in L : r.bucket = k /\ r.key[1] \in types} |-> Size(row)])

\* The rows of L replay to the balances rem and con of bucket k.
Replays(L, k, rem, con) ==
  /\ rem = Moved(L, k, {"GRANT"}) - Moved(L, k, {"RESERVE"})
             + Moved(L, k, {"RELEASE", "UNUSED", "GEN_RELEASE"})
  /\ con = Moved(L, k, {"CONSUME", "GEN_CONSUME"})

\* LedgerReplays, said of each bucket
LEMMA ReplaysBuckets ==
  LedgerReplays <=> \A k \in Buckets : Replays(ledger, k, bucket[k].remaining, bucket[k].consumed)
BY DEF LedgerReplays, LedgerTotal, Replays, Moved, Size

\* A row in the ledger has a size.
LEMMA SizeType == \A row \in LedgerRows : Size(row) \in Nat
BY DEF LedgerRows, Size

\* What is moved depends on the rows that are counted.
LEMMA MovedSame ==
  ASSUME NEW L, NEW M, NEW k, NEW types,
         {r \in M : r.bucket = k /\ r.key[1] \in types} = {r \in L : r.bucket = k /\ r.key[1] \in types}
  PROVE  Moved(M, k, types) = Moved(L, k, types)
BY DEF Moved

\* The totals of a finite ledger are numbers.
LEMMA MovedType ==
  ASSUME NEW L \in SUBSET LedgerRows, IsFiniteSet(L), NEW k, NEW types
  PROVE  Moved(L, k, types) \in Nat
<1> DEFINE D == {r \in L : r.bucket = k /\ r.key[1] \in types}
           f == [row \in D |-> Size(row)]
<1>1. IsFiniteSet(D)
  BY FS_Subset
<1>2. f \in [D -> Nat]
  BY SizeType
<1>3. Moved(L, k, types) = Total(f)
  BY DEF Moved
<1> HIDE DEF D, f
<1>4. QED
  BY <1>1, <1>2, <1>3, TotalType

\* One new row of bucket k adds its size to the total of its type.
LEMMA MovedMore ==
  ASSUME NEW L \in SUBSET LedgerRows, IsFiniteSet(L), NEW R \in SUBSET LedgerRows,
         NEW k, NEW types, NEW row \in R, row \notin L, row.bucket = k, row.key[1] \in types,
         \A r \in R : r.bucket = k => r = row
  PROVE  Moved(L \cup R, k, types) = Moved(L, k, types) + Size(row)
<1> DEFINE D == {r \in L : r.bucket = k /\ r.key[1] \in types}
           E == {r \in L \cup R : r.bucket = k /\ r.key[1] \in types}
           f == [r \in D |-> Size(r)]
           g == [r \in E |-> Size(r)]
<1>1. E = D \cup {row} /\ row \notin D
  OBVIOUS
<1>2. IsFiniteSet(D)
  BY FS_Subset
<1>3. f \in [D -> Nat] /\ g \in [E -> Nat] /\ (\A y \in D : g[y] = f[y]) /\ g[row] = Size(row)
  BY <1>1, SizeType
<1>4. Moved(L, k, types) = Total(f) /\ Moved(L \cup R, k, types) = Total(g)
  BY DEF Moved
<1> HIDE DEF D, E, f, g
<1>5. Total(g) = Total(f) + g[row]
  BY <1>1, <1>2, <1>3, TotalExtend
<1>6. QED
  BY <1>3, <1>4, <1>5

\* Rows of other buckets leave the replay of k as it is ...
LEMMA ReplaysSame ==
  ASSUME NEW L, NEW R, NEW k, NEW rem, NEW con, Replays(L, k, rem, con), \A r \in R : r.bucket # k
  PROVE  Replays(L \cup R, k, rem, con)
<1>1. ASSUME NEW types PROVE Moved(L \cup R, k, types) = Moved(L, k, types)
  <2>1. {r \in L \cup R : r.bucket = k /\ r.key[1] \in types} = {r \in L : r.bucket = k /\ r.key[1] \in types}
    OBVIOUS
  <2>2. QED
    BY <2>1, MovedSame
<1>2. QED
  BY <1>1 DEF Replays

ConsumeTypes == {"CONSUME", "GEN_CONSUME"}
BackTypes == {"RELEASE", "UNUSED", "GEN_RELEASE"}

\* ... and a row of k moves the balances of k as its type says.
LEMMA ReplaysMore ==
  ASSUME NEW L \in SUBSET LedgerRows, IsFiniteSet(L), NEW R \in SUBSET LedgerRows,
         NEW k, NEW rem \in Int, NEW con \in Int, Replays(L, k, rem, con),
         NEW row \in R, row \notin L, row.bucket = k, \A r \in R : r.bucket = k => r = row
  PROVE  /\ row.key[1] \in {"GRANT"} \cup BackTypes => Replays(L \cup R, k, rem + Size(row), con)
         /\ row.key[1] = "RESERVE" => Replays(L \cup R, k, rem - Size(row), con)
         /\ row.key[1] \in ConsumeTypes => Replays(L \cup R, k, rem, con + Size(row))
<1> DEFINE M(types) == Moved(L, k, types)
           N(types) == Moved(L \cup R, k, types)
           t == row.key[1]
<1>1. \A types : IF t \in types THEN N(types) = M(types) + Size(row) ELSE N(types) = M(types)
  <2>1. ASSUME NEW types, t \in types PROVE N(types) = M(types) + Size(row)
    BY <2>1, MovedMore
  <2>2. ASSUME NEW types, t \notin types PROVE N(types) = M(types)
    <3>1. {r \in L \cup R : r.bucket = k /\ r.key[1] \in types}
            = {r \in L : r.bucket = k /\ r.key[1] \in types}
      BY <2>2
    <3>2. Moved(L \cup R, k, types) = Moved(L, k, types)
      BY <3>1, MovedSame
    <3>3. QED
      BY <3>2
  <2>3. QED
    BY <2>1, <2>2
<1>2. \A types : M(types) \in Nat
  BY MovedType
<1>3. Size(row) \in Nat
  BY SizeType
<1>4. /\ rem = M({"GRANT"}) - M({"RESERVE"}) + M(BackTypes)
      /\ con = M(ConsumeTypes)
  BY DEF Replays, BackTypes, ConsumeTypes
<1>5. \A x, y : /\ x = N({"GRANT"}) - N({"RESERVE"}) + N(BackTypes)
                /\ y = N(ConsumeTypes)
                => Replays(L \cup R, k, x, y)
  BY DEF Replays, BackTypes, ConsumeTypes
<1>6. CASE t = "GRANT"
  <2>1. N({"GRANT"}) = M({"GRANT"}) + Size(row) /\ N({"RESERVE"}) = M({"RESERVE"})
        /\ N(BackTypes) = M(BackTypes) /\ N(ConsumeTypes) = M(ConsumeTypes)
    BY <1>1, <1>6 DEF BackTypes, ConsumeTypes
  <2>2. /\ rem + Size(row) = N({"GRANT"}) - N({"RESERVE"}) + N(BackTypes)
        /\ con = N(ConsumeTypes)
    <3> HIDE DEF M, N
    <3> QED BY <1>2, <1>3, <1>4, <2>1
  <2>3. Replays(L \cup R, k, rem + Size(row), con)
    BY <1>5, <2>2
  <2>4. QED
    BY <1>6, <2>3 DEF ConsumeTypes, BackTypes
<1>7. CASE t \in BackTypes
  <2>1. N({"GRANT"}) = M({"GRANT"}) /\ N({"RESERVE"}) = M({"RESERVE"})
        /\ N(BackTypes) = M(BackTypes) + Size(row) /\ N(ConsumeTypes) = M(ConsumeTypes)
    BY <1>1, <1>7 DEF BackTypes, ConsumeTypes
  <2>2. /\ rem + Size(row) = N({"GRANT"}) - N({"RESERVE"}) + N(BackTypes)
        /\ con = N(ConsumeTypes)
    <3> HIDE DEF M, N
    <3> QED BY <1>2, <1>3, <1>4, <2>1
  <2>3. Replays(L \cup R, k, rem + Size(row), con)
    BY <1>5, <2>2
  <2>4. QED
    BY <1>7, <2>3 DEF ConsumeTypes, BackTypes
<1>8. CASE t = "RESERVE"
  <2>1. N({"GRANT"}) = M({"GRANT"}) /\ N({"RESERVE"}) = M({"RESERVE"}) + Size(row)
        /\ N(BackTypes) = M(BackTypes) /\ N(ConsumeTypes) = M(ConsumeTypes)
    BY <1>1, <1>8 DEF BackTypes, ConsumeTypes
  <2>2. /\ rem - Size(row) = N({"GRANT"}) - N({"RESERVE"}) + N(BackTypes)
        /\ con = N(ConsumeTypes)
    <3> HIDE DEF M, N
    <3> QED BY <1>2, <1>3, <1>4, <2>1
  <2>3. Replays(L \cup R, k, rem - Size(row), con)
    BY <1>5, <2>2
  <2>4. QED
    BY <1>8, <2>3 DEF ConsumeTypes, BackTypes
<1>9. CASE t \in ConsumeTypes
  <2>1. N({"GRANT"}) = M({"GRANT"}) /\ N({"RESERVE"}) = M({"RESERVE"})
        /\ N(BackTypes) = M(BackTypes) /\ N(ConsumeTypes) = M(ConsumeTypes) + Size(row)
    BY <1>1, <1>9 DEF BackTypes, ConsumeTypes
  <2>2. /\ rem = N({"GRANT"}) - N({"RESERVE"}) + N(BackTypes)
        /\ con + Size(row) = N(ConsumeTypes)
    <3> HIDE DEF M, N
    <3> QED BY <1>2, <1>3, <1>4, <2>1
  <2>3. Replays(L \cup R, k, rem, con + Size(row))
    BY <1>5, <2>2
  <2>4. QED
    BY <1>9, <2>3 DEF ConsumeTypes, BackTypes
<1>10. QED
  BY <1>6, <1>7, <1>8, <1>9

\* What the rows of the ledger say of the rows they are about: no transaction
\* writes a key twice, because the state in which it would is left for good.
KeyFits(row) ==
  /\ row.key[1] = "GRANT" => bucket[row.key[2]].granted > 0
  /\ row.key[1] \in LineTypes => reservation[row.key[2]].status # "NONE"
  /\ row.key[1] \in {"CONSUME", "RELEASE"} => reservation[row.key[2]].status # "ACTIVE"
  /\ row.key[1] = "UNUSED" => Payable(row.key[2]) = {}

LedgerInv == /\ IsFiniteSet(ledger)
             /\ \A row \in ledger : KeyFits(row)
             /\ LedgerReplays

\* No step takes back what KeyFits says.
Onward ==
  /\ \A k \in Buckets : bucket[k].granted > 0 => bucket'[k].granted > 0
  /\ \A b \in Batches :
       reservation[b].status # "NONE" =>
         /\ reservation'[b].status # "NONE"
         /\ reservation[b].status # "ACTIVE" => reservation'[b].status # "ACTIVE"
         /\ Payable(b) = {} => Payable(b)' = {}

LEMMA OldRowFits ==
  ASSUME NEW row \in LedgerRows, KeyFits(row), Onward
  PROVE  KeyFits(row)'
<1>1. row.key \in LedgerKeys
  BY DEF LedgerRows
<1>2. row.key[1] = "GRANT" => row.key[2] \in Buckets
  BY <1>1 DEF LedgerKeys, LineTypes, GenTypes
<1>3. row.key[1] \in LineTypes => row.key[2] \in Batches
  BY <1>1 DEF LedgerKeys, LineTypes, GenTypes
<1>4. row.key[1] = "GRANT" => bucket'[row.key[2]].granted > 0
  BY <1>2 DEF KeyFits, Onward
<1>5. row.key[1] \in LineTypes => reservation'[row.key[2]].status # "NONE"
  BY <1>3 DEF KeyFits, Onward
<1>6. row.key[1] \in {"CONSUME", "RELEASE"} => reservation'[row.key[2]].status # "ACTIVE"
  <2>1. row.key[1] \in {"CONSUME", "RELEASE"} => row.key[1] \in LineTypes
    BY DEF LineTypes
  <2>2. QED
    BY <1>3, <2>1 DEF KeyFits, Onward
<1>7. row.key[1] = "UNUSED" => Payable(row.key[2])' = {}
  <2>1. row.key[1] = "UNUSED" => row.key[1] \in LineTypes
    BY DEF LineTypes
  <2>2. QED
    BY <1>3, <2>1 DEF KeyFits, Onward
<1>8. QED
  BY <1>4, <1>5, <1>6, <1>7 DEF KeyFits

\* The rows one transaction writes for a batch replay to what it moves.
LEMMA PostingReplays ==
  ASSUME IInv, LedgerInv, NEW type \in LineTypes, NEW b \in Batches, NEW S \in SUBSET Buckets,
         NEW delta \in [Buckets -> Int],
         \A k \in S : ~HasKey(Key(type, b, k)),
         \A k \in Buckets \ S : delta[k] = 0,
         \A k \in Buckets : IF type \in {"RESERVE", "CONSUME"} THEN delta[k] <= 0 ELSE delta[k] >= 0,
         ledger' = ledger \cup Rows(type, b, S, delta),
         \A k \in Buckets :
           /\ bucket'[k].remaining = bucket[k].remaining + (IF type = "CONSUME" THEN 0 ELSE delta[k])
           /\ bucket'[k].consumed = bucket[k].consumed - (IF type = "CONSUME" THEN delta[k] ELSE 0)
  PROVE  IsFiniteSet(ledger') /\ LedgerReplays'
<1> DEFINE R == Rows(type, b, S, delta)
<1>1. R \in SUBSET LedgerRows
  BY RowsType
<1>2. IsFiniteSet(R)
  <2>1. IsFiniteSet(S)
    BY LedgerAssumption, FS_Subset
  <2>2. IsFiniteSet({[key |-> Key(type, b, k), bucket |-> k, delta |-> delta[k]] : k \in S})
    <3> DEFINE f == [k \in S |-> [key |-> Key(type, b, k), bucket |-> k, delta |-> delta[k]]]
               T == {[key |-> Key(type, b, k), bucket |-> k, delta |-> delta[k]] : k \in S}
    <3>1. f \in Surjection(S, T)
      BY DEF Surjection
    <3> HIDE DEF f, T
    <3>2. IsFiniteSet(T)
      BY <2>1, <3>1, FS_Surjection
    <3>3. QED
      BY <3>2 DEF T
  <2>3. QED
    BY <2>2 DEF Rows
<1>3. IsFiniteSet(ledger')
  BY <1>2, FS_Union DEF LedgerInv
<1>4. ledger \in SUBSET LedgerRows /\ IsFiniteSet(ledger)
  BY DEF IInv, TypeOK, LedgerInv
<1>5. ASSUME NEW k \in Buckets
      PROVE  Replays(ledger', k, bucket'[k].remaining, bucket'[k].consumed)
  <2>1. Replays(ledger, k, bucket[k].remaining, bucket[k].consumed)
    BY ReplaysBuckets DEF LedgerInv
  <2>2. bucket[k].remaining \in Int /\ bucket[k].consumed \in Int
    BY DEF IInv, TypeOK, BucketRows
  <2>3. CASE k \notin S
    <3>1. \A r \in R : r.bucket # k
      BY <2>3 DEF Rows
    <3>2. bucket'[k].remaining = bucket[k].remaining /\ bucket'[k].consumed = bucket[k].consumed
      BY <2>2, <2>3
    <3> HIDE DEF R
    <3>3. Replays(ledger \cup R, k, bucket[k].remaining, bucket[k].consumed)
      BY <2>1, <3>1, ReplaysSame
    <3>4. QED
      BY <3>2, <3>3 DEF R
  <2>4. CASE k \in S
    <3>1. PICK row : row = [key |-> Key(type, b, k), bucket |-> k, delta |-> delta[k]]
      OBVIOUS
    <3>2. row \in R /\ row.bucket = k /\ row.key = Key(type, b, k) /\ row.delta = delta[k]
      BY <2>4, <3>1 DEF Rows
    <3>3. row \notin ledger
      BY <2>4, <3>2 DEF HasKey
    <3>4. \A r \in R : r.bucket = k => r = row
      BY <3>1 DEF Rows
    <3>5. row.key[1] = type
      BY <3>2 DEF Key
    <3>6. Size(row) = IF type \in {"RESERVE", "CONSUME"} THEN -delta[k] ELSE delta[k]
      BY <3>2 DEF Size
    <3> HIDE DEF R
    <3>7. /\ type \in {"GRANT"} \cup BackTypes =>
               Replays(ledger \cup R, k, bucket[k].remaining + Size(row), bucket[k].consumed)
          /\ type = "RESERVE" =>
               Replays(ledger \cup R, k, bucket[k].remaining - Size(row), bucket[k].consumed)
          /\ type \in ConsumeTypes =>
               Replays(ledger \cup R, k, bucket[k].remaining, bucket[k].consumed + Size(row))
      BY <1>1, <1>4, <2>1, <2>2, <3>2, <3>3, <3>4, <3>5, ReplaysMore
    <3>8. ledger' = ledger \cup R
      BY DEF R
    <3>9. CASE type \in {"RELEASE", "UNUSED"}
      <4>1. bucket'[k].remaining = bucket[k].remaining + Size(row) /\ bucket'[k].consumed = bucket[k].consumed
        BY <2>2, <3>6, <3>9
      <4>2. QED
        BY <3>7, <3>8, <3>9, <4>1 DEF BackTypes
    <3>10. CASE type = "RESERVE"
      <4>1. bucket'[k].remaining = bucket[k].remaining - Size(row) /\ bucket'[k].consumed = bucket[k].consumed
        BY <2>2, <3>6, <3>10
      <4>2. QED
        BY <3>7, <3>8, <3>10, <4>1
    <3>11. CASE type = "CONSUME"
      <4>1. bucket'[k].remaining = bucket[k].remaining /\ bucket'[k].consumed = bucket[k].consumed + Size(row)
        BY <2>2, <3>6, <3>11
      <4>2. QED
        BY <3>7, <3>8, <3>11, <4>1 DEF ConsumeTypes
    <3>12. QED
      BY <3>9, <3>10, <3>11 DEF LineTypes
  <2>5. QED
    BY <2>3, <2>4
<1>6. LedgerReplays'
  <2>1. LedgerReplays' <=> \A k \in Buckets : Replays(ledger', k, bucket'[k].remaining, bucket'[k].consumed)
    BY DEF LedgerReplays, LedgerTotal, Replays, Moved, Size
  <2>2. QED
    BY <1>5, <2>1
<1>7. QED
  BY <1>3, <1>6

\* One row for bucket k replays to what it moves.
LEMMA PostingOne ==
  ASSUME IInv, LedgerInv, NEW row \in LedgerRows, NEW k \in Buckets, row.bucket = k,
         row \notin ledger, ledger' = ledger \cup {row},
         \A j \in Buckets \ {k} : bucket'[j].remaining = bucket[j].remaining
                                  /\ bucket'[j].consumed = bucket[j].consumed,
         \/ /\ row.key[1] \in {"GRANT"} \cup BackTypes
            /\ bucket'[k].remaining = bucket[k].remaining + Size(row)
            /\ bucket'[k].consumed = bucket[k].consumed
         \/ /\ row.key[1] \in ConsumeTypes
            /\ bucket'[k].remaining = bucket[k].remaining
            /\ bucket'[k].consumed = bucket[k].consumed + Size(row)
  PROVE  IsFiniteSet(ledger') /\ LedgerReplays'
<1>1. ledger \in SUBSET LedgerRows /\ IsFiniteSet(ledger)
  BY DEF IInv, TypeOK, LedgerInv
<1>2. IsFiniteSet(ledger')
  BY <1>1, FS_AddElement
<1>3. ASSUME NEW j \in Buckets
      PROVE  Replays(ledger', j, bucket'[j].remaining, bucket'[j].consumed)
  <2>1. Replays(ledger, j, bucket[j].remaining, bucket[j].consumed)
    BY ReplaysBuckets DEF LedgerInv
  <2>2. bucket[j].remaining \in Int /\ bucket[j].consumed \in Int
    BY DEF IInv, TypeOK, BucketRows
  <2>3. PICK R : R = {row}
    OBVIOUS
  <2>4. R \in SUBSET LedgerRows /\ row \in R /\ ledger' = ledger \cup R /\ \A r \in R : r = row
    BY <2>3
  <2>5. CASE j # k
    <3>1. \A r \in R : r.bucket # j
      BY <2>4, <2>5
    <3>2. Replays(ledger \cup R, j, bucket[j].remaining, bucket[j].consumed)
      BY <2>1, <3>1, ReplaysSame
    <3>3. QED
      BY <2>4, <2>5, <3>2
  <2>6. CASE j = k
    <3>1. /\ row.key[1] \in {"GRANT"} \cup BackTypes =>
               Replays(ledger \cup R, k, bucket[k].remaining + Size(row), bucket[k].consumed)
          /\ row.key[1] \in ConsumeTypes =>
               Replays(ledger \cup R, k, bucket[k].remaining, bucket[k].consumed + Size(row))
      BY SMTT(40), <1>1, <2>1, <2>2, <2>4, <2>6, ReplaysMore
    <3>2. QED
      BY <2>4, <2>6, <3>1
  <2>7. QED
    BY <2>5, <2>6
<1>4. LedgerReplays' <=> \A j \in Buckets : Replays(ledger', j, bucket'[j].remaining, bucket'[j].consumed)
  BY DEF LedgerReplays, LedgerTotal, Replays, Moved, Size
<1>5. QED
  BY <1>2, <1>3, <1>4

-----------------------------------------------------------------------------
\* The account

\* What CreditAccount calls available
Free == Total([k \in Buckets |-> bucket[k].remaining])

\* What is given back to the buckets becomes available, what is drawn ceases to be.
LEMMA FreeMoves ==
  ASSUME RowsOK, RowsOK', NEW d \in [Buckets -> Nat]
  PROVE  /\ (\A k \in Buckets : bucket'[k].remaining = bucket[k].remaining + d[k])
              => Free' = Free + Total(d)
         /\ (\A k \in Buckets : bucket'[k].remaining = bucket[k].remaining - d[k])
              => Free' = Free - Total(d) /\ Total(d) <= Free
         /\ Free \in Nat /\ Free' \in Nat
<1> DEFINE f == [k \in Buckets |-> bucket[k].remaining]
           g == [k \in Buckets |-> bucket'[k].remaining]
<1>1. f \in [Buckets -> Nat] /\ g \in [Buckets -> Nat]
  BY DEF RowsOK, BucketRows
<1>2. Free = Total(f) /\ Free' = Total(g)
  BY DEF Free
<1>3. \A k \in Buckets : f[k] = bucket[k].remaining /\ g[k] = bucket'[k].remaining
  OBVIOUS
<1> HIDE DEF f, g
<1>4. Total(f) \in Nat /\ Total(g) \in Nat /\ Total(d) \in Nat
  BY <1>1, TotalType, LedgerAssumption
<1>5. ASSUME \A k \in Buckets : bucket'[k].remaining = bucket[k].remaining + d[k]
      PROVE  Total(g) = Total(f) + Total(d)
  <2>1. \A k \in Buckets : g[k] = f[k] + d[k]
    BY <1>3, <1>5
  <2>2. QED
    BY <1>1, <2>1, TotalSum, LedgerAssumption
<1>6. ASSUME \A k \in Buckets : bucket'[k].remaining = bucket[k].remaining - d[k]
      PROVE  Total(f) = Total(g) + Total(d)
  <2>1. \A k \in Buckets : f[k] = g[k] + d[k]
    BY <1>1, <1>3, <1>6
  <2>2. QED
    BY <1>1, <2>1, TotalSum, LedgerAssumption
<1>7. QED
  BY <1>2, <1>4, <1>5, <1>6

\* What settling does to buckets, lines and account.
LEMMA SettleMoves ==
  ASSUME IInv, IInv', NEW b \in Batches, NEW c \in [Buckets -> Nat], NEW d \in [Buckets -> Nat],
         \A k \in Buckets : c[k] + d[k] <= Outstanding(line[b][k]),
         Settle(b, c, d)
  PROVE  /\ \A k \in Buckets : /\ bucket'[k].granted = bucket[k].granted
                               /\ bucket'[k].remaining = bucket[k].remaining + d[k]
                               /\ bucket'[k].consumed = bucket[k].consumed + c[k]
         /\ \A x \in Batches : Payable(x) = {} => Payable(x)' = {}
         /\ (\A k \in Buckets : c[k] + d[k] = Outstanding(line[b][k])) => Payable(b)' = {}
         /\ Free' = Free + Total(d)
<1>1. RowsOK /\ RowsOK'
  BY DEF IInv, TypeOK, RowsOK, LineTable
<1>2. \A k \in Buckets : /\ bucket'[k].granted = bucket[k].granted
                         /\ bucket'[k].remaining = bucket[k].remaining + d[k]
                         /\ bucket'[k].consumed = bucket[k].consumed + c[k]
  <2>1. SUFFICES ASSUME NEW k \in Buckets
                 PROVE  /\ bucket'[k].granted = bucket[k].granted
                        /\ bucket'[k].remaining = bucket[k].remaining + d[k]
                        /\ bucket'[k].consumed = bucket[k].consumed + c[k]
    OBVIOUS
  <2>2. bucket'[k] = DrawnBucket(bucket[k], c[k], d[k])
    BY DEF Settle
  <2>3. PICK l \in BucketRows : l = bucket[k]
    BY <1>1 DEF RowsOK
  <2>4. PICK x \in Nat, y \in Nat : x = c[k] /\ y = d[k]
    OBVIOUS
  <2>5. /\ DrawnBucket(l, x, y).granted = l.granted
        /\ DrawnBucket(l, x, y).remaining = l.remaining + y
        /\ DrawnBucket(l, x, y).consumed = l.consumed + x
    BY DrawnBucketFacts, ZenonT(60)
  <2>6. QED
    BY <2>2, <2>3, <2>4, <2>5
<1>3. \A x \in Batches \ {b} : line'[x] = line[x]
  BY <1>1 DEF Settle, RowsOK, LineTable
<1>4. \A k \in Buckets : /\ Outstanding(line'[b][k]) = Outstanding(line[b][k]) - (c[k] + d[k])
                         /\ Outstanding(line[b][k]) \in Int
  <2>1. SUFFICES ASSUME NEW k \in Buckets
                 PROVE  /\ Outstanding(line'[b][k]) = Outstanding(line[b][k]) - (c[k] + d[k])
                        /\ Outstanding(line[b][k]) \in Int
    OBVIOUS
  <2>2. line'[b][k] = SettledLine(line[b][k], c[k], d[k])
    BY <1>1 DEF Settle, RowsOK, LineTable
  <2>3. PICK l \in LineRows : l = line[b][k]
    BY <1>1 DEF RowsOK, LineTable
  <2>4. c[k] \in Nat /\ d[k] \in Nat /\ c[k] + d[k] <= Outstanding(l)
    BY <2>3
  <2>5. /\ Outstanding(l) \in Int
        /\ Outstanding(SettledLine(l, c[k], d[k])) = Outstanding(l) - (c[k] + d[k])
    BY <2>4, SettledLineFacts
  <2>6. QED
    BY <2>2, <2>3, <2>5
<1>5. ASSUME NEW x \in Batches, Payable(x) = {} PROVE Payable(x)' = {}
  <2>1. CASE x = b
    <3>1. ASSUME NEW k \in Buckets PROVE ~(Outstanding(line'[b][k]) > 0)
      <4>1. ~(Outstanding(line[b][k]) > 0)
        BY <1>5, <2>1 DEF Payable
      <4>2. c[k] \in Nat /\ d[k] \in Nat
        OBVIOUS
      <4>3. QED
        BY <1>4, <4>1, <4>2
    <3>2. QED
      BY <2>1, <3>1 DEF Payable
  <2>2. CASE x # b
    BY <1>3, <1>5, <2>2 DEF Payable
  <2>3. QED
    BY <2>1, <2>2
<1>6. ASSUME \A k \in Buckets : c[k] + d[k] = Outstanding(line[b][k])
      PROVE  Payable(b)' = {}
  <2>1. ASSUME NEW k \in Buckets PROVE ~(Outstanding(line'[b][k]) > 0)
    BY <1>4, <1>6
  <2>2. QED
    BY <2>1 DEF Payable
<1>7. Free' = Free + Total(d)
  BY <1>1, <1>2, FreeMoves
<1>8. QED
  BY <1>2, <1>5, <1>6, <1>7

\* Each action: the ledger stays one that replays, and the step is the one of
\* the account's that it is named for.

LEMMA GrantMoves ==
  ASSUME IInv, IInv', LedgerInv, NEW k \in Buckets, NEW n \in Amounts, NEW w \in Windows,
         Grant(k, n, w)
  PROVE  LedgerInv' /\ Account!Grant(n)
<1> DEFINE row == [key |-> Key("GRANT", k, k), bucket |-> k, delta |-> n]
<1>1. RowsOK /\ RowsOK' /\ Books
  BY DEF IInv, TypeOK, RowsOK, LineTable
<1>2. /\ bucket' = [bucket EXCEPT ![k] = [NoBucket(k) EXCEPT
                      !.granted = n, !.remaining = n,
                      !.effectiveAt = w.effectiveAt, !.expiresAt = w.expiresAt]]
      /\ ledger' = ledger \cup {row}
      /\ bucket[k].granted = 0
      /\ UNCHANGED <<reservation, line>>
  BY DEF Grant
<1>3. n \in Nat /\ n > 0
  BY LedgerAssumption
<1>4. bucket'[k].granted = n /\ bucket'[k].remaining = n /\ bucket'[k].consumed = 0
  BY <1>1, <1>2 DEF NoBucket, RowsOK
<1>5. \A j \in Buckets \ {k} : bucket'[j] = bucket[j]
  BY <1>1, <1>2 DEF RowsOK
<1>6. bucket[k].remaining = 0 /\ bucket[k].consumed = 0
  <2>1. 0 = bucket[k].remaining + bucket[k].reserved + bucket[k].consumed
    BY <1>1, <1>2 DEF Books, BucketConservation
  <2>2. bucket[k].remaining \in Nat /\ bucket[k].consumed \in Nat /\ bucket[k].reserved \in Int
    BY <1>1 DEF RowsOK, BucketRows
  <2>3. bucket[k].reserved >= 0
    <3> DEFINE out == [b \in Batches |-> Outstanding(line[b][k])]
    <3>1. out \in [Batches -> Nat]
      BY <1>1 DEF RowsOK, LineTable, LineRows, Outstanding, Books, LinesWithinReserved
    <3>2. bucket[k].reserved = Total(out)
      BY <1>1 DEF Books, BucketsMatchLines
    <3> HIDE DEF out
    <3>3. QED
      BY <3>1, <3>2, TotalType, LedgerAssumption
  <2>4. QED
    BY <2>1, <2>2, <2>3
<1>7. row \in LedgerRows /\ row.bucket = k /\ row.key[1] = "GRANT" /\ row.key[2] = k /\ Size(row) = n
  BY <1>3 DEF LedgerRows, LedgerKeys, Key, Size
<1> HIDE DEF row
<1>8. row \notin ledger
  <2>1. ~KeyFits(row)
    BY <1>2, <1>7 DEF KeyFits
  <2>2. QED
    BY <2>1 DEF LedgerInv
<1>9. IsFiniteSet(ledger') /\ LedgerReplays'
  <2>1. /\ row.key[1] \in {"GRANT"} \cup BackTypes
        /\ bucket'[k].remaining = bucket[k].remaining + Size(row)
        /\ bucket'[k].consumed = bucket[k].consumed
    BY <1>3, <1>4, <1>6, <1>7
  <2>2. QED
    BY <1>2, <1>5, <1>7, <1>8, <2>1, PostingOne
<1>10. Onward
  <2>1. \A j \in Buckets : bucket[j].granted > 0 => bucket'[j].granted > 0
    BY <1>2, <1>3, <1>4, <1>5
  <2>2. QED
    BY <1>2, <2>1 DEF Onward, Payable
<1>11. \A r \in ledger' : KeyFits(r)'
  <2>1. KeyFits(row)'
    BY <1>3, <1>4, <1>7 DEF KeyFits, LineTypes
  <2>2. ASSUME NEW r \in ledger PROVE KeyFits(r)'
    BY <1>10, OldRowFits DEF LedgerInv, IInv, TypeOK
  <2>3. QED
    BY <1>2, <2>1, <2>2
<1>12. Account!Grant(n)
  <2>1. On(k, n) \in [Buckets -> Nat] /\ Total(On(k, n)) = n
    BY <1>3, OnTotal
  <2>2. \A j \in Buckets : bucket'[j].remaining = bucket[j].remaining + On(k, n)[j]
    <3>1. \A j \in Buckets : bucket[j].remaining \in Nat
      BY <1>1 DEF RowsOK, BucketRows
    <3>2. QED
      BY <1>3, <1>4, <1>5, <1>6, <3>1 DEF On
  <2>3. Free' = Free + n
    BY <1>1, <2>1, <2>2, FreeMoves
  <2>4. QED
    BY <1>2, <2>3 DEF Account!Grant, Free
<1>13. QED
  BY <1>9, <1>11, <1>12 DEF LedgerInv

LEMMA CommitReserveMoves ==
  ASSUME IInv, IInv', LedgerInv, NEW p \in Callers, CommitReserve(p)
  PROVE  LedgerInv' /\ \E b \in Batches, n \in Amounts : Account!Reserve(b, n)
<1>1. RowsOK /\ RowsOK' /\ OthersOK /\ StatusMatchesAmounts
  BY DEF IInv, TypeOK, RowsOK, OthersOK, LineTable
<1> DEFINE b == call[p].batch  n == call[p].amount
<1>2. b \in Batches /\ n \in Amounts /\ n \in Nat /\ reservation[b].status = "NONE"
  BY <1>1, OpenCall, LedgerAssumption DEF CommitReserve, ReserveCalls
<1>3. PICK take \in Reservable(p) :
        /\ Draw(b, take)
        /\ ledger' = ledger \cup Rows("RESERVE", b, {k \in Buckets : take[k] > 0},
                                     [k \in Buckets |-> -take[k]])
        /\ reservation' = [reservation EXCEPT ![b] = Account!NewReservation(n)]
  BY DEF CommitReserve
<1> HIDE DEF b, n
<1>4. DOMAIN bucket = Buckets /\ \A k \in Buckets : bucket[k] \in BucketRows
  BY <1>1 DEF RowsOK
<1>5. take \in [Buckets -> 0 .. n] /\ Total(take) = n
  BY <1>3, <1>4 DEF Reservable, Plans, n
<1>6. take \in [Buckets -> Nat]
  BY <1>2, <1>5
<1>7. \A k \in Buckets : /\ bucket'[k].granted = bucket[k].granted
                         /\ bucket'[k].remaining = bucket[k].remaining - take[k]
                         /\ bucket'[k].consumed = bucket[k].consumed
                         /\ bucket[k].remaining \in Nat /\ bucket[k].consumed \in Nat
  BY <1>3, <1>4 DEF Draw, BucketRows
<1> DEFINE S == {k \in Buckets : take[k] > 0}
           delta == [k \in Buckets |-> -take[k]]
<1>8. /\ delta \in [Buckets -> Int] /\ S \in SUBSET Buckets
      /\ \A k \in Buckets : delta[k] <= 0 /\ (k \notin S => delta[k] = 0)
      /\ \A k \in Buckets : /\ bucket'[k].remaining = bucket[k].remaining + delta[k]
                            /\ bucket'[k].consumed = bucket[k].consumed - 0
      /\ ledger' = ledger \cup Rows("RESERVE", b, S, delta)
  BY <1>3, <1>6, <1>7
<1> HIDE DEF S, delta
<1>9. \A k \in S : ~HasKey(Key("RESERVE", b, k))
  <2>1. ASSUME NEW row \in ledger, NEW k, row.key = Key("RESERVE", b, k) PROVE FALSE
    <3>1. KeyFits(row) /\ row.key[1] = "RESERVE" /\ row.key[2] = b
      BY <2>1 DEF LedgerInv, Key
    <3>2. QED
      BY <1>2, <3>1 DEF KeyFits, LineTypes
  <2>2. QED
    BY <2>1 DEF HasKey
<1>10. IsFiniteSet(ledger') /\ LedgerReplays'
  <2>1. "RESERVE" \in LineTypes
    BY DEF LineTypes
  <2>2. \A k \in Buckets :
          /\ bucket'[k].remaining = bucket[k].remaining + (IF "RESERVE" = "CONSUME" THEN 0 ELSE delta[k])
          /\ bucket'[k].consumed = bucket[k].consumed - (IF "RESERVE" = "CONSUME" THEN delta[k] ELSE 0)
    BY <1>8
  <2>3. \A k \in Buckets :
          IF "RESERVE" \in {"RESERVE", "CONSUME"} THEN delta[k] <= 0 ELSE delta[k] >= 0
    BY <1>8
  <2>4. \A k \in Buckets \ S : delta[k] = 0
    BY <1>8
  <2>5. QED
    BY ZenonT(60), <1>2, <1>8, <1>9, <2>1, <2>2, <2>3, <2>4, PostingReplays
<1>11. /\ reservation'[b] = Account!NewReservation(n)
       /\ \A x \in Batches \ {b} : reservation'[x] = reservation[x] /\ line'[x] = line[x]
  BY <1>1, <1>2, <1>3 DEF RowsOK, LineTable, Draw
<1>12. Onward
  <2>1. \A x \in Batches \ {b} : Payable(x)' = Payable(x)
    BY <1>11 DEF Payable
  <2>2. QED
    BY <1>2, <1>7, <1>11, <2>1 DEF Onward
<1>13. \A r \in ledger' : KeyFits(r)'
  <2>1. ASSUME NEW r \in Rows("RESERVE", b, S, delta) PROVE KeyFits(r)'
    <3>1. r.key[1] = "RESERVE" /\ r.key[2] = b
      BY DEF Rows, Key
    <3>2. reservation'[b].status = "ACTIVE"
      BY <1>11 DEF Account!NewReservation
    <3>3. QED
      BY <3>1, <3>2 DEF KeyFits
  <2>2. ASSUME NEW r \in ledger PROVE KeyFits(r)'
    BY <1>12, OldRowFits DEF LedgerInv, IInv, TypeOK
  <2>3. QED
    BY <1>8, <2>1, <2>2
<1>14. Account!Reserve(b, n)
  <2>1. Free' = Free - n /\ n <= Free
    BY <1>1, <1>5, <1>6, <1>7, FreeMoves
  <2>2. QED
    BY <1>2, <1>3, <2>1 DEF Account!Reserve, Free
<1>15. QED
  BY <1>2, <1>10, <1>13, <1>14 DEF LedgerInv

\* What settling some of a reservation makes of its row
LEMMA SettlesOnward ==
  ASSUME IInv, IInv', NEW b \in Batches, NEW c \in [Buckets -> Nat], NEW d \in [Buckets -> Nat],
         \A k \in Buckets : c[k] + d[k] <= Outstanding(line[b][k]),
         Settle(b, c, d),
         reservation[b].status # "NONE",
         reservation'[b].status \notin {"NONE", "ACTIVE"},
         \A x \in Batches \ {b} : reservation'[x] = reservation[x]
  PROVE  Onward
<1>1. /\ \A k \in Buckets : bucket'[k].granted = bucket[k].granted
      /\ \A x \in Batches : Payable(x) = {} => Payable(x)' = {}
  BY SettleMoves
<1>2. QED
  BY <1>1 DEF Onward

\* A line that can pay shows that the reservation holds something.
LEMMA PayableIsHeld ==
  ASSUME IInv, NEW b \in Batches, Payable(b) # {}
  PROVE  Account!Held(reservation[b]) > 0
<1> DEFINE out == [k \in Buckets |-> Outstanding(line[b][k])]
<1>1. RowsOK /\ Books
  BY IInvParts
<1>2. out \in [Buckets -> Nat]
  BY <1>1 DEF RowsOK, LineTable, LineRows, Outstanding, Books, LinesWithinReserved
<1>3. PICK k \in Buckets : out[k] > 0
  BY DEF Payable
<1>4. Total(out) = Account!Held(reservation[b])
  BY <1>1, HeldIsOutstanding
<1> HIDE DEF out
<1>5. Total(out) \in Nat /\ Total(out) # 0
  BY <1>2, <1>3, TotalType, TotalZero, LedgerAssumption
<1>6. QED
  BY <1>4, <1>5

LEMMA CommitResolveMoves ==
  ASSUME IInv, IInv', LedgerInv, NEW p \in Callers, CommitResolve(p)
  PROVE  LedgerInv' /\ \E b \in Batches : Account!ConsumeOne(b) \/ Account!ReleaseOne(b)
<1>1. RowsOK /\ RowsOK' /\ OthersOK /\ Books
  BY DEF IInv, TypeOK, RowsOK, OthersOK, LineTable
<1> DEFINE b == call[p].batch
           c == IF call[p].type = "GEN_CONSUME" THEN 1 ELSE 0
           d == 1 - c
           key == Key(call[p].type, b, call[p].candidate)
<1>2. /\ b \in Batches /\ call[p].candidate \in Candidates /\ call[p].type \in GenTypes
      /\ c \in Nat /\ d \in Nat /\ c + d = 1
  BY <1>1, OpenCall DEF CommitResolve, ResolveCalls
<1>3. /\ ~HasKey(key)
      /\ reservation[b].status \in Account!Settleable
      /\ Payable(b) # {}
  BY DEF CommitResolve, Resolvable
<1>4. PICK k \in Payable(b) :
        /\ Settle(b, On(k, c), On(k, d))
        /\ ledger' = ledger \cup {[key |-> key, bucket |-> k, delta |-> d - c]}
  BY DEF CommitResolve
<1>5. reservation' = [reservation EXCEPT ![b] = Account!Settled(reservation[b], c, d)]
  BY DEF CommitResolve
<1>6. key[1] = call[p].type
  BY DEF Key
<1>7. (call[p].type = "GEN_CONSUME" /\ c = 1 /\ d = 0) \/ (call[p].type = "GEN_RELEASE" /\ c = 0 /\ d = 1)
  BY <1>2 DEF GenTypes
<1>8. key \in LedgerKeys
  BY <1>2 DEF LedgerKeys, Key
<1> HIDE DEF b, c, d, key
<1>9. k \in Buckets /\ Outstanding(line[b][k]) > 0
  BY <1>4 DEF Payable
<1>10. /\ On(k, c) \in [Buckets -> Nat] /\ On(k, d) \in [Buckets -> Nat]
       /\ On(k, c)[k] = c /\ On(k, d)[k] = d /\ Total(On(k, d)) = d
       /\ \A j \in Buckets \ {k} : On(k, c)[j] = 0 /\ On(k, d)[j] = 0
  BY <1>2, <1>9, OnTotal
<1>11. \A j \in Buckets : On(k, c)[j] + On(k, d)[j] <= Outstanding(line[b][j])
  <2>1. SUFFICES ASSUME NEW j \in Buckets
                 PROVE  On(k, c)[j] + On(k, d)[j] <= Outstanding(line[b][j])
    OBVIOUS
  <2>2. Outstanding(line[b][j]) \in Nat
    BY <1>1, <1>2 DEF RowsOK, LineTable, LineRows, Outstanding, Books, LinesWithinReserved
  <2>3. CASE j = k
    BY <1>2, <1>9, <1>10, <2>2, <2>3
  <2>4. CASE j # k
    BY <1>10, <2>2, <2>4
  <2>5. QED
    BY <2>3, <2>4
<1>12. /\ \A j \in Buckets : /\ bucket'[j].remaining = bucket[j].remaining + On(k, d)[j]
                             /\ bucket'[j].consumed = bucket[j].consumed + On(k, c)[j]
       /\ Free' = Free + d
  BY <1>2, <1>4, <1>10, <1>11, SettleMoves
<1>13. \A j \in Buckets : bucket[j].remaining \in Nat /\ bucket[j].consumed \in Nat
  BY <1>1 DEF RowsOK, BucketRows
<1>14. PICK row : row = [key |-> key, bucket |-> k, delta |-> d - c]
  OBVIOUS
<1>15. /\ row \in LedgerRows /\ row.bucket = k /\ row.key = key /\ Size(row) = 1
  BY <1>7, <1>8, <1>9, <1>14 DEF LedgerRows, Size
<1>16. row \notin ledger
  BY <1>3, <1>15 DEF HasKey
<1>17. IsFiniteSet(ledger') /\ LedgerReplays'
  <2>1. \A j \in Buckets \ {k} : /\ bucket'[j].remaining = bucket[j].remaining
                                 /\ bucket'[j].consumed = bucket[j].consumed
    BY <1>10, <1>12, <1>13
  <2>2. ledger' = ledger \cup {row}
    BY <1>4, <1>14
  <2>3. \/ /\ row.key[1] \in {"GRANT"} \cup BackTypes
           /\ bucket'[k].remaining = bucket[k].remaining + Size(row)
           /\ bucket'[k].consumed = bucket[k].consumed
        \/ /\ row.key[1] \in ConsumeTypes
           /\ bucket'[k].remaining = bucket[k].remaining
           /\ bucket'[k].consumed = bucket[k].consumed + Size(row)
    BY <1>6, <1>7, <1>9, <1>10, <1>12, <1>13, <1>15 DEF BackTypes, ConsumeTypes
  <2>4. QED
    BY <1>9, <1>15, <1>16, <2>1, <2>2, <2>3, PostingOne
<1>18. Onward
  <2>1. PICK st : st = Account!Settled(reservation[b], c, d).status
    OBVIOUS
  <2>2. reservation[b].consumed \in Nat /\ reservation[b].released \in Nat
    BY <1>1, <1>2 DEF RowsOK, Account!Reservations
  <2>3. /\ Account!Settled(reservation[b], c, d).status \notin {"NONE", "EXPIRED"}
        /\ Account!Settled(reservation[b], c, d).status = "ACTIVE" =>
               reservation[b].consumed + c = 0 /\ reservation[b].released + d = 0
    BY <1>1, <1>2, SettledRow
  <2>4. st # "NONE" /\ st # "ACTIVE"
    <3>1. PICK x \in Nat, y \in Nat : x = reservation[b].consumed /\ y = reservation[b].released
      BY <2>2
    <3>2. st \notin {"NONE", "EXPIRED"} /\ (st = "ACTIVE" => x + c = 0 /\ y + d = 0)
      BY <2>1, <2>3, <3>1
    <3>3. QED
      BY <1>7, <3>2
  <2>5. reservation'[b].status = st /\ \A x \in Batches \ {b} : reservation'[x] = reservation[x]
    BY <1>1, <1>2, <1>5, <2>1 DEF RowsOK
  <2>6. reservation[b].status # "NONE"
    BY <1>3 DEF Account!Settleable
  <2>7. QED
    BY <1>2, <1>4, <1>10, <1>11, <2>4, <2>5, <2>6, SettlesOnward
<1>19. \A r \in ledger' : KeyFits(r)'
  <2>1. KeyFits(row)'
    BY <1>6, <1>7, <1>15 DEF KeyFits, LineTypes
  <2>2. ASSUME NEW r \in ledger PROVE KeyFits(r)'
    BY <1>18, OldRowFits DEF LedgerInv, IInv, TypeOK
  <2>3. QED
    BY <1>4, <1>14, <2>1, <2>2
<1>20. Account!ConsumeOne(b) \/ Account!ReleaseOne(b)
  <2>1. Account!Held(reservation[b]) > 0
    BY <1>2, <1>3, PayableIsHeld
  <2>2. CASE c = 1 /\ d = 0
    <3>1. Free' = Free
      BY <1>1, <1>12, <2>2, NothingTotal, FreeMoves
    <3>2. reservation' = [reservation EXCEPT ![b] = Account!Settled(reservation[b], 1, 0)]
      BY <1>5, <2>2
    <3>3. Account!ConsumeOne(b)
      BY <1>3, <2>1, <3>1, <3>2 DEF Account!ConsumeOne, Free
    <3>4. QED
      BY <3>3
  <2>3. CASE c = 0 /\ d = 1
    <3>1. reservation' = [reservation EXCEPT ![b] = Account!Settled(reservation[b], 0, 1)]
      BY <1>5, <2>3
    <3>2. Account!ReleaseOne(b)
      BY <1>3, <1>12, <2>1, <2>3, <3>1 DEF Account!ReleaseOne, Free
    <3>3. QED
      BY <3>2
  <2>4. QED
    BY <1>7, <2>2, <2>3
<1>21. QED
  BY <1>2, <1>17, <1>19, <1>20 DEF LedgerInv

\* What a transaction does that gives all that is outstanding of a batch on S
\* back: the ledger replays.
LEMMA GiveBackReplays ==
  ASSUME IInv, IInv', LedgerInv, NEW b \in Batches, NEW S \in SUBSET Buckets,
         NEW type \in {"RELEASE", "UNUSED"},
         \A k \in S : ~HasKey(Key(type, b, k)),
         NEW out, out = [k \in Buckets |-> IF k \in S THEN Outstanding(line[b][k]) ELSE 0],
         GiveBack(b, S, type)
  PROVE  /\ out \in [Buckets -> Nat] /\ Nothing \in [Buckets -> Nat]
         /\ \A k \in Buckets : Nothing[k] + out[k] <= Outstanding(line[b][k])
         /\ Settle(b, Nothing, out)
         /\ Free' = Free + Total(out)
         /\ IsFiniteSet(ledger') /\ LedgerReplays'
         /\ ledger' = ledger \cup Rows(type, b, S, out)
<1>1. RowsOK /\ Books
  BY IInvParts
<1>2. type \in LineTypes
  BY DEF LineTypes
<1>3. /\ out \in [Buckets -> Nat] /\ Nothing \in [Buckets -> Nat]
      /\ \A k \in Buckets : Nothing[k] = 0
      /\ \A k \in Buckets : Nothing[k] + out[k] <= Outstanding(line[b][k])
      /\ Settle(b, Nothing, out)
  BY <1>1, <1>2, GiveBackSettles, NothingTotal
<1>4. ledger' = ledger \cup Rows(type, b, S, out)
  BY DEF GiveBack
<1>5. /\ \A k \in Buckets : /\ bucket'[k].remaining = bucket[k].remaining + out[k]
                            /\ bucket'[k].consumed = bucket[k].consumed + Nothing[k]
      /\ Free' = Free + Total(out)
  BY <1>3, SettleMoves
<1>6. IsFiniteSet(ledger') /\ LedgerReplays'
  <2>1. out \in [Buckets -> Int] /\ \A k \in Buckets \ S : out[k] = 0
    BY <1>3
  <2>2. \A k \in Buckets : IF type \in {"RESERVE", "CONSUME"} THEN out[k] <= 0 ELSE out[k] >= 0
    BY <1>3
  <2>3. \A k \in Buckets : bucket[k].remaining \in Nat /\ bucket[k].consumed \in Nat
    BY <1>1 DEF RowsOK, BucketRows
  <2>4. \A k \in Buckets :
          /\ bucket'[k].remaining = bucket[k].remaining + (IF type = "CONSUME" THEN 0 ELSE out[k])
          /\ bucket'[k].consumed = bucket[k].consumed - (IF type = "CONSUME" THEN out[k] ELSE 0)
    BY <1>3, <1>5, <2>3
  <2>5. QED
    BY ZenonT(60), <1>2, <1>4, <2>1, <2>2, <2>4, PostingReplays
<1>7. QED
  BY <1>3, <1>4, <1>5, <1>6

\* All of what the lines of b hold, as a function
LEMMA AllOutstanding ==
  ASSUME IInv, NEW b \in Batches,
         NEW out, out = [k \in Buckets |-> IF k \in Payable(b) THEN Outstanding(line[b][k]) ELSE 0]
  PROVE  /\ out = [k \in Buckets |-> Outstanding(line[b][k])]
         /\ Total(out) = Account!Held(reservation[b])
         /\ \A k \in Buckets : Outstanding(line[b][k]) \in Nat
<1>1. RowsOK /\ Books
  BY IInvParts
<1>2. \A k \in Buckets : Outstanding(line[b][k]) \in Nat
  BY <1>1 DEF RowsOK, LineTable, LineRows, Outstanding, Books, LinesWithinReserved
<1>3. out = [k \in Buckets |-> Outstanding(line[b][k])]
  BY <1>2 DEF Payable
<1>4. QED
  BY <1>1, <1>2, <1>3, HeldIsOutstanding

LEMMA ReleaseUnusedMoves ==
  ASSUME IInv, IInv', LedgerInv, NEW b \in Batches, ReleaseUnused(b)
  PROVE  LedgerInv' /\ Account!ReleaseUnused(b)
<1>1. RowsOK /\ RowsOK'
  BY DEF IInv, TypeOK, RowsOK, LineTable
<1> DEFINE S == {k \in Payable(b) : ~HasKey(Key("UNUSED", b, k))}
           out == [k \in Buckets |-> IF k \in S THEN Outstanding(line[b][k]) ELSE 0]
<1>2. /\ reservation[b].status \in Account!Settleable /\ S # {}
      /\ GiveBack(b, S, "UNUSED")
      /\ reservation' = [reservation EXCEPT ![b] = Account!Settled(reservation[b], 0, Total(out))]
  BY DEF ReleaseUnused
<1>3. \A k \in Payable(b) : ~HasKey(Key("UNUSED", b, k))
  <2>1. ASSUME NEW row \in ledger, NEW k, row.key = Key("UNUSED", b, k) PROVE Payable(b) = {}
    <3>1. KeyFits(row) /\ row.key[1] = "UNUSED" /\ row.key[2] = b
      BY <2>1 DEF LedgerInv, Key
    <3>2. QED
      BY <3>1 DEF KeyFits
  <2>2. Payable(b) # {}
    BY <1>2
  <2>3. QED
    BY <2>1, <2>2 DEF HasKey
<1>4. S = Payable(b)
  BY <1>3
<1>5. PICK o : o = out
  OBVIOUS
<1>6. /\ o = [k \in Buckets |-> IF k \in Payable(b) THEN Outstanding(line[b][k]) ELSE 0]
      /\ GiveBack(b, Payable(b), "UNUSED")
      /\ reservation' = [reservation EXCEPT ![b] = Account!Settled(reservation[b], 0, Total(o))]
      /\ Payable(b) # {} /\ Payable(b) \in SUBSET Buckets
  BY <1>2, <1>4, <1>5 DEF Payable
<1> HIDE DEF S, out
<1>7. /\ o = [k \in Buckets |-> Outstanding(line[b][k])]
      /\ Total(o) = Account!Held(reservation[b])
      /\ \A k \in Buckets : Outstanding(line[b][k]) \in Nat
  BY <1>6, AllOutstanding
<1>8. /\ o \in [Buckets -> Nat] /\ Nothing \in [Buckets -> Nat]
      /\ \A k \in Buckets : Nothing[k] + o[k] <= Outstanding(line[b][k])
      /\ Settle(b, Nothing, o)
      /\ Free' = Free + Total(o)
      /\ IsFiniteSet(ledger') /\ LedgerReplays'
      /\ ledger' = ledger \cup Rows("UNUSED", b, Payable(b), o)
  <2>1. "UNUSED" \in {"RELEASE", "UNUSED"}
    OBVIOUS
  <2>2. QED
    BY <1>3, <1>6, <2>1, GiveBackReplays
<1>9. Payable(b)' = {}
  <2>1. \A k \in Buckets : Nothing[k] + o[k] = Outstanding(line[b][k])
    BY <1>7, NothingTotal
  <2>2. QED
    BY <1>8, <2>1, SettleMoves
<1>10. Account!Held(reservation[b]) \in Nat /\ Account!Held(reservation[b]) > 0
  <2>1. Total(o) \in Nat
    BY <1>8, TotalType, LedgerAssumption
  <2>2. QED
    BY <1>6, <1>7, <2>1, PayableIsHeld
<1>11. /\ reservation'[b].status # "NONE" /\ reservation'[b].status # "ACTIVE"
       /\ \A x \in Batches \ {b} : reservation'[x] = reservation[x]
  <2>1. PICK n \in Nat : n = Total(o) /\ n > 0
    BY <1>7, <1>10
  <2>2. /\ Account!Settled(reservation[b], 0, n).status \notin {"NONE", "EXPIRED"}
        /\ Account!Settled(reservation[b], 0, n).status = "ACTIVE" =>
               reservation[b].consumed + 0 = 0 /\ reservation[b].released + n = 0
    BY <1>1, SettledRow
  <2>3. reservation[b].released \in Nat
    BY <1>1 DEF RowsOK, Account!Reservations
  <2>4. PICK st : st = Account!Settled(reservation[b], 0, n).status
    OBVIOUS
  <2>5. st # "NONE" /\ st # "ACTIVE"
    BY <2>1, <2>2, <2>3, <2>4
  <2>6. reservation'[b].status = st /\ \A x \in Batches \ {b} : reservation'[x] = reservation[x]
    BY <1>1, <1>6, <2>1, <2>4 DEF RowsOK
  <2>7. QED
    BY <2>5, <2>6
<1>12. Onward
  <2>1. reservation[b].status # "NONE"
    BY <1>2 DEF Account!Settleable
  <2>2. QED
    BY <1>8, <1>11, <2>1, SettlesOnward
<1>13. \A r \in ledger' : KeyFits(r)'
  <2>1. ASSUME NEW r \in Rows("UNUSED", b, Payable(b), o) PROVE KeyFits(r)'
    <3>1. r.key[1] = "UNUSED" /\ r.key[2] = b
      BY DEF Rows, Key
    <3>2. QED
      BY <1>9, <1>11, <3>1 DEF KeyFits
  <2>2. ASSUME NEW r \in ledger PROVE KeyFits(r)'
    BY <1>12, OldRowFits DEF LedgerInv, IInv, TypeOK
  <2>3. QED
    BY <1>8, <2>1, <2>2
<1>14. Account!ReleaseUnused(b)
  BY <1>2, <1>6, <1>7, <1>8, <1>10 DEF Account!ReleaseUnused, Free
<1>15. QED
  BY <1>8, <1>13, <1>14 DEF LedgerInv

LEMMA ReleaseMoves ==
  ASSUME IInv, IInv', LedgerInv, NEW b \in Batches, NEW status \in {"RELEASED", "EXPIRED"},
         Release(b, status)
  PROVE  LedgerInv' /\ Account!CloseReleased(b, status)
<1>1. RowsOK /\ RowsOK' /\ StatusMatchesAmounts
  BY DEF IInv, TypeOK, RowsOK, LineTable
<1>2. /\ reservation[b].status = "ACTIVE"
      /\ GiveBack(b, Payable(b), "RELEASE")
      /\ reservation' = [reservation EXCEPT ![b].status = status,
              ![b].released = @ + Total([k \in Buckets |-> Outstanding(line[b][k])])]
  BY DEF Release
<1>3. \A k \in Payable(b) : ~HasKey(Key("RELEASE", b, k))
  <2>1. ASSUME NEW row \in ledger, NEW k, row.key = Key("RELEASE", b, k) PROVE FALSE
    <3>1. KeyFits(row) /\ row.key[1] = "RELEASE" /\ row.key[2] = b
      BY <2>1 DEF LedgerInv, Key
    <3>2. QED
      BY <1>2, <3>1 DEF KeyFits
  <2>2. QED
    BY <2>1 DEF HasKey
<1>4. PICK o : o = [k \in Buckets |-> IF k \in Payable(b) THEN Outstanding(line[b][k]) ELSE 0]
  OBVIOUS
<1>5. /\ o = [k \in Buckets |-> Outstanding(line[b][k])]
      /\ Total(o) = Account!Held(reservation[b])
  BY <1>4, AllOutstanding
<1>6. /\ o \in [Buckets -> Nat] /\ Nothing \in [Buckets -> Nat]
      /\ \A k \in Buckets : Nothing[k] + o[k] <= Outstanding(line[b][k])
      /\ Settle(b, Nothing, o)
      /\ Free' = Free + Total(o)
      /\ IsFiniteSet(ledger') /\ LedgerReplays'
      /\ ledger' = ledger \cup Rows("RELEASE", b, Payable(b), o)
  <2>1. "RELEASE" \in {"RELEASE", "UNUSED"} /\ Payable(b) \in SUBSET Buckets
    BY DEF Payable
  <2>2. QED
    BY <1>2, <1>3, <1>4, <2>1, GiveBackReplays
<1>7. /\ reservation'[b].status = status
      /\ \A x \in Batches \ {b} : reservation'[x] = reservation[x]
  BY <1>1, <1>2 DEF RowsOK, Account!Reservations
<1>8. Onward
  BY <1>2, <1>6, <1>7, SettlesOnward
<1>9. \A r \in ledger' : KeyFits(r)'
  <2>1. ASSUME NEW r \in Rows("RELEASE", b, Payable(b), o) PROVE KeyFits(r)'
    <3>1. r.key[1] = "RELEASE" /\ r.key[2] = b
      BY DEF Rows, Key
    <3>2. QED
      BY <1>7, <3>1 DEF KeyFits
  <2>2. ASSUME NEW r \in ledger PROVE KeyFits(r)'
    BY <1>8, OldRowFits DEF LedgerInv, IInv, TypeOK
  <2>3. QED
    BY <1>6, <2>1, <2>2
<1>10. Account!CloseReleased(b, status)
  <2>1. Total([k \in Buckets |-> Outstanding(line[b][k])]) = Account!Held(reservation[b])
    BY <1>5
  <2>2. reservation' = [reservation EXCEPT ![b].status = status,
                                           ![b].released = @ + Account!Held(reservation[b])]
    BY <1>2, <2>1
  <2>3. Free' = Free + Account!Held(reservation[b])
    BY <1>5, <1>6
  <2>4. QED
    BY <1>2, <2>2, <2>3 DEF Account!CloseReleased, Free
<1>11. QED
  BY <1>6, <1>9, <1>10 DEF LedgerInv

LEMMA ConsumeReservationMoves ==
  ASSUME IInv, IInv', LedgerInv, NEW b \in Batches, ConsumeReservation(b)
  PROVE  LedgerInv' /\ Account!CloseConsumed(b)
<1>1. RowsOK /\ RowsOK'
  BY DEF IInv, TypeOK, RowsOK, LineTable
<1> DEFINE out == [k \in Buckets |-> Outstanding(line[b][k])]
           delta == [k \in Buckets |-> -out[k]]
<1>2. /\ reservation[b].status = "ACTIVE"
      /\ Settle(b, out, Nothing)
      /\ ledger' = ledger \cup Rows("CONSUME", b, Payable(b), delta)
      /\ reservation' = [reservation EXCEPT ![b].status = "CONSUMED",
                                            ![b].consumed = reservation[b].reserved]
  BY DEF ConsumeReservation
<1>3. \A k \in Payable(b) : ~HasKey(Key("CONSUME", b, k))
  <2>1. ASSUME NEW row \in ledger, NEW k, row.key = Key("CONSUME", b, k) PROVE FALSE
    <3>1. KeyFits(row) /\ row.key[1] = "CONSUME" /\ row.key[2] = b
      BY <2>1 DEF LedgerInv, Key
    <3>2. QED
      BY <1>2, <3>1 DEF KeyFits
  <2>2. QED
    BY <2>1 DEF HasKey
<1>4. \A k \in Buckets : Outstanding(line[b][k]) \in Nat
  BY AllOutstanding
<1>5. /\ out \in [Buckets -> Nat] /\ delta \in [Buckets -> Int]
      /\ \A k \in Buckets : delta[k] = -out[k] /\ delta[k] <= 0
      /\ \A k \in Buckets \ Payable(b) : delta[k] = 0
      /\ \A k \in Buckets : out[k] = Outstanding(line[b][k])
  BY <1>4 DEF Payable
<1> HIDE DEF out, delta
<1>6. /\ Nothing \in [Buckets -> Nat] /\ (\A k \in Buckets : Nothing[k] = 0) /\ Total(Nothing) = 0
  BY NothingTotal
<1>7. \A k \in Buckets : out[k] + Nothing[k] <= Outstanding(line[b][k])
  BY <1>4, <1>5, <1>6
<1>8. /\ \A k \in Buckets : /\ bucket'[k].remaining = bucket[k].remaining + Nothing[k]
                            /\ bucket'[k].consumed = bucket[k].consumed + out[k]
      /\ Free' = Free + Total(Nothing)
  BY <1>2, <1>5, <1>6, <1>7, SettleMoves
<1>9. \A k \in Buckets : bucket[k].remaining \in Nat /\ bucket[k].consumed \in Nat
  BY <1>1 DEF RowsOK, BucketRows
<1>10. IsFiniteSet(ledger') /\ LedgerReplays'
  <2>1. "CONSUME" \in LineTypes /\ Payable(b) \in SUBSET Buckets
    BY DEF LineTypes, Payable
  <2>2. \A k \in Buckets :
          /\ bucket'[k].remaining = bucket[k].remaining + (IF "CONSUME" = "CONSUME" THEN 0 ELSE delta[k])
          /\ bucket'[k].consumed = bucket[k].consumed - (IF "CONSUME" = "CONSUME" THEN delta[k] ELSE 0)
    <3>1. ASSUME NEW k \in Buckets
          PROVE  /\ bucket'[k].remaining = bucket[k].remaining
                 /\ bucket'[k].consumed = bucket[k].consumed - delta[k]
      <4>1. /\ bucket'[k].remaining = bucket[k].remaining + 0
            /\ bucket'[k].consumed = bucket[k].consumed + out[k]
        BY <1>6, <1>8
      <4>2. PICK x \in Nat, y \in Nat, z \in Nat :
              x = bucket[k].remaining /\ y = bucket[k].consumed /\ z = out[k]
        BY <1>5, <1>9
      <4>3. delta[k] = -z
        BY <1>5, <4>2
      <4>4. QED
        BY <4>1, <4>2, <4>3
    <3>2. \A k \in Buckets : bucket[k].remaining + 0 = bucket[k].remaining
      BY <1>9
    <3>3. QED
      BY <3>1, <3>2
  <2>3. \A k \in Buckets :
          IF "CONSUME" \in {"RESERVE", "CONSUME"} THEN delta[k] <= 0 ELSE delta[k] >= 0
    BY <1>5
  <2>4. QED
    BY <1>2, <1>3, <1>5, <2>1, <2>2, <2>3, PostingReplays
<1>11. /\ reservation'[b].status = "CONSUMED"
       /\ \A x \in Batches \ {b} : reservation'[x] = reservation[x]
  BY <1>1, <1>2 DEF RowsOK, Account!Reservations
<1>12. Onward
  BY <1>2, <1>5, <1>6, <1>7, <1>11, SettlesOnward
<1>13. \A r \in ledger' : KeyFits(r)'
  <2>1. ASSUME NEW r \in Rows("CONSUME", b, Payable(b), delta) PROVE KeyFits(r)'
    <3>1. r.key[1] = "CONSUME" /\ r.key[2] = b
      BY DEF Rows, Key
    <3>2. QED
      BY <1>11, <3>1 DEF KeyFits
  <2>2. ASSUME NEW r \in ledger PROVE KeyFits(r)'
    BY <1>12, OldRowFits DEF LedgerInv, IInv, TypeOK
  <2>3. QED
    BY <1>2, <2>1, <2>2
<1>14. Account!CloseConsumed(b)
  <2>1. Free' = Free
    BY <1>1, <1>6, <1>8, FreeMoves
  <2>2. QED
    BY <1>2, <2>1 DEF Account!CloseConsumed, Free
<1>15. QED
  BY <1>10, <1>13, <1>14 DEF LedgerInv

\* A step that writes no row leaves ledger and account alone.
LEMMA RowsStay ==
  ASSUME LedgerInv, UNCHANGED <<bucket, reservation, line, ledger>>
  PROVE  LedgerInv' /\ UNCHANGED Account!account
<1>1. IsFiniteSet(ledger') /\ LedgerReplays'
  BY DEF LedgerInv, LedgerReplays, LedgerTotal
<1>2. \A r \in ledger' : KeyFits(r)'
  BY DEF LedgerInv, KeyFits, Payable
<1>3. UNCHANGED Account!account
  BY DEF Account!account
<1>4. QED
  BY <1>1, <1>2, <1>3 DEF LedgerInv

\* Every step keeps the ledger, and is a step of the account or none.
LEMMA NextMoves ==
  ASSUME IInv, IInv', LedgerInv, [Next]_vars
  PROVE  LedgerInv' /\ [Account!Next]_(Account!account)
<1>1. ASSUME NEW k \in Buckets, NEW n \in Amounts, NEW w \in Windows, Grant(k, n, w)
      PROVE  LedgerInv' /\ Account!Next
  <2>1. LedgerInv' /\ Account!Grant(n)
    BY <1>1, GrantMoves
  <2>2. QED
    BY <2>1 DEF Account!Next
<1>2. ASSUME NEW p \in Callers, CommitReserve(p)
      PROVE  LedgerInv' /\ Account!Next
  <2>1. LedgerInv' /\ \E b \in Batches, n \in Amounts : Account!Reserve(b, n)
    BY <1>2, CommitReserveMoves
  <2>2. QED
    BY <2>1 DEF Account!Next
<1>3. ASSUME NEW p \in Callers, CommitResolve(p)
      PROVE  LedgerInv' /\ Account!Next
  <2>1. LedgerInv' /\ \E b \in Batches : Account!ConsumeOne(b) \/ Account!ReleaseOne(b)
    BY <1>3, CommitResolveMoves
  <2>2. QED
    BY <2>1 DEF Account!Next
<1>4. ASSUME NEW b \in Batches, ReleaseUnused(b)
      PROVE  LedgerInv' /\ Account!Next
  <2>1. LedgerInv' /\ Account!ReleaseUnused(b)
    BY <1>4, ReleaseUnusedMoves
  <2>2. QED
    BY <2>1 DEF Account!Next
<1>5. ASSUME NEW b \in Batches, NEW status \in {"RELEASED", "EXPIRED"}, Release(b, status)
      PROVE  LedgerInv' /\ Account!Next
  <2>1. LedgerInv' /\ Account!CloseReleased(b, status)
    BY <1>5, ReleaseMoves
  <2>2. QED
    BY <2>1 DEF Account!Next
<1>6. ASSUME NEW b \in Batches, ConsumeReservation(b)
      PROVE  LedgerInv' /\ Account!Next
  <2>1. LedgerInv' /\ Account!CloseConsumed(b)
    BY <1>6, ConsumeReservationMoves
  <2>2. QED
    BY <2>1 DEF Account!Next
<1>7. CASE UNCHANGED <<bucket, reservation, line, ledger>>
  BY <1>7, RowsStay
<1>8. \/ \E k \in Buckets, n \in Amounts, w \in Windows : Grant(k, n, w)
      \/ \E p \in Callers : CommitReserve(p) \/ CommitResolve(p)
      \/ \E b \in Batches : \/ ReleaseUnused(b)
                            \/ ConsumeReservation(b)
                            \/ \E status \in {"RELEASED", "EXPIRED"} : Release(b, status)
      \/ UNCHANGED <<bucket, reservation, line, ledger>>
  BY DEF Next, vars, BeginReserve, AbortReserve, BeginResolve, AbortResolve,
         ReleaseReservation, ReaperSelect, ReaperRelease, Tick
<1>9. QED
  BY <1>1, <1>2, <1>3, <1>4, <1>5, <1>6, <1>7, <1>8

\* Nothing is granted at first, and nothing written.
LEMMA InitMoves ==
  ASSUME Init
  PROVE  LedgerInv /\ Account!Init
<1>1. ledger = {} /\ \A k \in Buckets : bucket[k].remaining = 0 /\ bucket[k].consumed = 0
  BY DEF Init, NoBucket
<1>2. ASSUME NEW types, NEW k PROVE Moved(ledger, k, types) = 0
  <2> DEFINE D == {r \in ledger : r.bucket = k /\ r.key[1] \in types}
             f == [row \in D |-> Size(row)]
  <2>1. D = {} /\ IsFiniteSet(D)
    BY <1>1, FS_EmptySet
  <2>2. f \in [D -> Nat] /\ \A x \in D : f[x] = 0
    BY <2>1
  <2>3. Moved(ledger, k, types) = Total(f)
    BY DEF Moved
  <2> HIDE DEF D, f
  <2>4. QED
    BY <2>1, <2>2, <2>3, TotalZero
<1>3. LedgerReplays
  <2>1. \A k \in Buckets : Replays(ledger, k, 0, 0)
    BY <1>2 DEF Replays
  <2>2. QED
    BY <1>1, <2>1, ReplaysBuckets
<1>4. LedgerInv
  BY <1>1, <1>3, FS_EmptySet DEF LedgerInv
<1>5. Free = 0
  <2>1. [k \in Buckets |-> bucket[k].remaining] = Nothing
    BY <1>1 DEF Nothing
  <2>2. QED
    BY <2>1, NothingTotal DEF Free
<1>6. reservation = [b \in Batches |-> Account!NoReservation]
  BY DEF Init
<1>7. QED
  BY <1>4, <1>5, <1>6 DEF Account!Init, Free

-----------------------------------------------------------------------------
\* Theorems of the ledger and the account

\* The ledger can be replayed: whichever transactions race, each key is
\* written once, and the rows of a bucket add up to its balances.
THEOREM LedgerCorrect == Spec => []LedgerReplays
<1>1. Init => LedgerInv
  BY InitMoves
<1>2. IInv /\ IInv' /\ LedgerInv /\ [Next]_vars => LedgerInv'
  BY NextMoves
<1>3. LedgerInv => LedgerReplays
  BY DEF LedgerInv
<1>4. QED
  BY Invariant, <1>1, <1>2, <1>3, PTL DEF Spec

\* The credit tables implement the account the rest of the system relies on:
\* every transaction is one step of CreditAccount on the sum of the buckets,
\* or changes nothing it can see.
THEOREM Implements == Spec => ImplementsAccount
<1>1. Init => LedgerInv /\ Account!Init
  BY InitMoves
<1>2. IInv /\ IInv' /\ LedgerInv /\ [Next]_vars => LedgerInv' /\ [Account!Next]_(Account!account)
  BY NextMoves
<1>3. QED
  BY Invariant, <1>1, <1>2, PTL DEF Spec, Account!Spec, ImplementsAccount
=============================================================================
