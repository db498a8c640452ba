---------------------------- MODULE HungarianProofs ----------------------------
(***************************************************************************)
(* Theorems about Hungarian, for batches of any size and any costs that    *)
(* the padding exceeds: the potentials and the matching certify each other *)
(* after every step of either loop, and what is read back when they end is *)
(* an assignment of as many riders as possible at the least total cost.    *)
(***************************************************************************)
EXTENDS Hungarian, SumProofs

Nodes == 0..n

\* A problem is a matrix of distances.
ProblemOK == /\ nD \in Nat \ {0} /\ nR \in Nat \ {0} /\ Riders(cost) = 1..nR
             /\ cost \in [1..nR -> [1..nD -> 0..MaxCost]]

\* What a pair costs over what the potentials promise.
Reduced(r, j) == c(r, j) - u[r] - v[j]

\* Nowhere is more promised than a pair costs; rows are only raised, and the
\* columns that were lowered have a row.
Feasible == \A r \in Rows, j \in Cols : Reduced(r, j) >= 0
Lowered == /\ \A r \in Rows : u[r] >= 0
           /\ \A j \in Cols : p[j] = 0 => v[j] = 0

\* Row and column cost what is promised.
Tight(r, j) == Reduced(r, j) = 0

\* The columns of S hold the rows up to m, each once, and tightly.
Matched(S, m) ==
    /\ \A j \in S : p[j] <= m
    /\ \A j \in S \ {0}, r \in Rows : p[j] = r => Tight(r, j)
    /\ \A j, k \in S : p[j] = p[k] /\ p[j] # 0 => j = k
    /\ \A r \in 1..m : \E j \in S : p[j] = r

\* The edge of the path by which column j was reached.
Reached(rank, j) == /\ way[j] \in used /\ rank[way[j]] < rank[j]
                    /\ \A r \in Rows : p[way[j]] = r => Tight(r, j)

\* The slack of column j is the least over the rows of the tree.
SlackOf(j) ==
    /\ way[j] \in used
    /\ \A r \in Rows : p[way[j]] = r => minv[j] = Reduced(r, j)
    /\ \A k \in used, r \in Rows : p[k] = r => minv[j] <= Reduced(r, j)

\* The tree grows from column 0, which holds the row being matched.
GrowInv(rank) ==
    /\ i <= n /\ p[0] = i /\ Matched(Cols, i - 1)
    /\ j0 \notin used /\ 0 \in used \union {j0}
    /\ \A j \in used \union {j0} : p[j] # 0 /\ (j # 0 => Reached(rank, j))
    /\ used = {} => \A j \in Nodes : minv[j] = Inf
    /\ used # {} => \A j \in Nodes \ used : SlackOf(j)

\* Column j0 is to get the row of the column before it on the path to the root.
FlipInv(rank) ==
    /\ i <= n /\ j0 \in Cols /\ Matched(Nodes \ {j0}, i) /\ p[j0] <= i
    /\ 0 \in used /\ \A j \in used : p[j] # 0
    /\ \A j \in (used \union {j0}) \ {0} : rank[j] <= rank[j0] => Reached(rank, j)

Rank == [Nodes -> Nat]

CertInv ==
    /\ TypeOK /\ ProblemOK /\ Feasible /\ Lowered
    /\ at \in {"row", "done"} => Matched(Cols, i - 1)
    /\ at = "done" => i = n + 1
    /\ at = "grow" => \E rank \in Rank : GrowInv(rank)
    /\ at = "flip" => \E rank \in Rank : FlipInv(rank)

-------------------------------------------------------------------------------
(* The problem.                                                              *)

\* Padding makes the matrix square, with room for all riders and drivers.
LEMMA Sizes ==
    ASSUME ProblemOK
    PROVE  /\ n \in Nat \ {0} /\ nR \in Nat \ {0} /\ nD \in Nat \ {0}
           /\ nR <= n /\ nD <= n
  BY DEF ProblemOK, n

\* Padding costs more than any driver.
LEMMA BigIsBig == Big \in Nat \ {0} /\ MaxCost \in Nat /\ MaxCost < Big
  <1>1. /\ MaxRiders \in Nat \ {0} /\ MaxDrivers \in Nat \ {0} /\ MaxCost \in Nat
        /\ Big \in Nat /\ Big > MaxCost * (MaxRiders + MaxDrivers)
    BY HungarianAssumption
  <1>2. PICK k \in Nat : MaxRiders + MaxDrivers = k + 1
    BY <1>1
  <1>3. MaxCost * (k + 1) = MaxCost * k + MaxCost /\ MaxCost * k \in Nat
    BY <1>1
  <1> QED BY <1>1, <1>2, <1>3

\* No pair costs more than padding.
LEMMA Costs ==
    ASSUME ProblemOK, NEW r \in Rows, NEW j \in Cols
    PROVE  c(r, j) \in 0..Big
  <1>1. Big \in Nat \ {0} /\ MaxCost \in Nat /\ MaxCost < Big
    BY BigIsBig
  <1>2. r \in 1..n /\ j \in 1..n /\ n \in Nat /\ nR \in Nat /\ nD \in Nat
    BY Sizes DEF Rows, Cols
  <1>3. CASE r <= nR /\ j <= nD
    <2>1. r \in 1..nR /\ j \in 1..nD
      BY <1>2, <1>3
    <2>2. cost[r][j] \in 0..MaxCost
      BY <2>1 DEF ProblemOK
    <2> QED BY <1>1, <1>3, <2>2 DEF c
  <1>4. CASE ~ (r <= nR /\ j <= nD)
    BY <1>1, <1>4 DEF c
  <1> QED BY <1>3, <1>4

\* Nothing of the problem changes while it is solved.
LEMMA SameProblem ==
    ASSUME UNCHANGED problem
    PROVE  /\ n' = n /\ nR' = nR /\ Rows' = Rows /\ Cols' = Cols /\ Nodes' = Nodes
           /\ Rank' = Rank /\ (ProblemOK => ProblemOK')
           /\ \A r, j : Reduced(r, j)' = c(r, j) - u'[r] - v'[j]
           /\ \A r, j : Tight(r, j)' = (Reduced(r, j)' = 0)
  <1>1. nD' = nD /\ cost' = cost
    BY DEF problem
  <1>2. nR' = nR
    BY <1>1 DEF nR
  <1>3. n' = n
    BY <1>1, <1>2 DEF n
  <1>4. \A r, j : c(r, j)' = c(r, j)
    BY <1>1, <1>2 DEF c
  <1>5. ProblemOK => ProblemOK'
    BY <1>1, <1>2 DEF ProblemOK
  <1>6. \A r, j : Reduced(r, j)' = c(r, j) - u'[r] - v'[j]
    BY <1>4 DEF Reduced
  <1> QED BY <1>2, <1>3, <1>5, <1>6 DEF Rows, Cols, Nodes, Rank, Tight

\* The potentials are numbers.
LEMMA Numbers ==
    ASSUME TypeOK, ProblemOK
    PROVE  /\ \A r \in Rows : u[r] \in Int
           /\ \A j \in Cols : v[j] \in Int
           /\ \A r \in Rows, j \in Cols : /\ Reduced(r, j) \in Int
                                          /\ Reduced(r, j) = c(r, j) - u[r] - v[j]
           /\ \A r \in Rows : r \in Nodes /\ r # 0
           /\ \A j \in Cols : j \in Nodes /\ j # 0
  <1>1. n \in Nat
    BY Sizes
  <1>2. \A r \in Rows : r \in 0..n /\ r # 0
    BY <1>1 DEF Rows
  <1>3. \A j \in Cols : j \in 0..n /\ j # 0
    BY <1>1 DEF Cols
  <1>4. /\ \A r \in Rows : u[r] \in Int
        /\ \A j \in Cols : v[j] \in Int
    BY <1>2, <1>3 DEF TypeOK
  <1>5. ASSUME NEW r \in Rows, NEW j \in Cols PROVE Reduced(r, j) \in Int
    <2>1. c(r, j) \in Int
      BY Costs, BigIsBig
    <2> QED BY <1>4, <2>1 DEF Reduced
  <1> QED BY <1>2, <1>3, <1>4, <1>5 DEF Reduced, Nodes

\* Init: the matrices of the run are problems.
LEMMA InitProblem == Init => ProblemOK
  <1> SUFFICES ASSUME Init PROVE ProblemOK
    OBVIOUS
  <1>1. PICK riders \in 1..MaxRiders : \E drivers \in 1..MaxDrivers :
           nD = drivers /\ cost \in [1..riders -> [1..drivers -> 0..MaxCost]]
    BY DEF Init
  <1>2. PICK drivers \in 1..MaxDrivers :
           nD = drivers /\ cost \in [1..riders -> [1..drivers -> 0..MaxCost]]
    BY <1>1
  <1>3. riders \in Nat \ {0} /\ drivers \in Nat \ {0}
    BY HungarianAssumption
  <1>4. DOMAIN cost = 1..riders
    BY <1>2
  <1>5. Cardinality(1..riders) = riders
    BY <1>3, FS_Interval
  <1>6. nR = riders
    BY <1>4, <1>5 DEF nR, Riders
  <1> QED BY <1>2, <1>3, <1>4, <1>6 DEF ProblemOK, Riders

\* Init: nothing is promised and no row is matched.
LEMMA InitCertInv == Init => CertInv
  <1> SUFFICES ASSUME Init PROVE CertInv
    OBVIOUS
  <1>1. ProblemOK
    BY InitProblem
  <1>2. n \in Nat \ {0}
    BY <1>1, Sizes
  <1>3. /\ u = [j \in 0..n |-> 0] /\ v = [j \in 0..n |-> 0] /\ p = [j \in 0..n |-> 0]
        /\ way = [j \in 0..n |-> 0] /\ minv = [j \in 0..n |-> 0]
        /\ used = {} /\ i = 1 /\ j0 = 0 /\ at = "row"
    BY DEF Init, Zeros
  <1>4. TypeOK
    BY <1>2, <1>3 DEF TypeOK
  <1>5. /\ \A r \in Rows : u[r] = 0
        /\ \A j \in Cols : v[j] = 0 /\ p[j] = 0
    BY <1>2, <1>3 DEF Rows, Cols
  <1>6. Feasible
    <2> SUFFICES ASSUME NEW r \in Rows, NEW j \in Cols PROVE Reduced(r, j) >= 0
      BY DEF Feasible
    <2>1. c(r, j) \in 0..Big
      BY <1>1, Costs
    <2> QED BY <1>5, <2>1, BigIsBig DEF Reduced
  <1>7. Lowered
    BY <1>5 DEF Lowered
  <1>8. Matched(Cols, i - 1)
    <2>1. i - 1 = 0
      BY <1>3
    <2>2. Matched(Cols, 0)
      BY <1>2, <1>5 DEF Matched, Rows
    <2> QED BY <2>1, <2>2
  <1> QED BY <1>1, <1>3, <1>4, <1>6, <1>7, <1>8 DEF CertInv

-------------------------------------------------------------------------------
(* Starting a row, flipping an edge, finishing.                              *)

\* The potentials stay, so what is promised is still right.
LEMMA FeasibleStays ==
    ASSUME UNCHANGED <<problem, u, v>>, Feasible
    PROVE  Feasible'
  BY SameProblem DEF Feasible, Reduced

\* StartRow: the tree is empty.
LEMMA StartRowCertInv == CertInv /\ StartRow => CertInv'
  <1> SUFFICES ASSUME CertInv, StartRow PROVE CertInv'
    OBVIOUS
  <1>1. TypeOK /\ ProblemOK /\ Feasible /\ Lowered /\ Matched(Cols, i - 1)
    BY DEF CertInv, StartRow
  <1>2. /\ at = "row" /\ i <= n /\ p' = [p EXCEPT ![0] = i] /\ j0' = 0
        /\ minv' = [j \in 0..n |-> Inf] /\ used' = {} /\ at' = "grow"
        /\ UNCHANGED <<problem, u, v, way, i>>
    BY DEF StartRow
  <1>3. /\ n' = n /\ Rows' = Rows /\ Cols' = Cols /\ Nodes' = Nodes /\ Rank' = Rank /\ ProblemOK'
    BY <1>1, <1>2, SameProblem
  <1>4. n \in Nat \ {0} /\ i \in 1..n /\ Inf \in Int
    BY <1>1, <1>2, Sizes, BigIsBig DEF TypeOK, Inf
  <1>5. TypeOK'
    <2>1. p' \in [0..n -> 0..n]
      <3>1. i \in 0..n
        BY <1>4
      <3>2. p \in [0..n -> 0..n]
        BY <1>1 DEF TypeOK
      <3>3. p' = [p EXCEPT ![0] = i]
        BY <1>2
      <3> QED BY <3>1, <3>2, <3>3
    <2>2. minv' \in [0..n -> Int] /\ used' \in SUBSET (0..n) /\ j0' \in 0..n
      BY <1>2, <1>4
    <2>3. UNCHANGED <<u, v, way, i>> /\ at' = "grow"
      BY <1>2
    <2> QED BY <1>1, <1>3, <2>1, <2>2, <2>3 DEF TypeOK
  <1>6. \A j \in Cols : p'[j] = p[j] /\ j # 0
    BY <1>1, <1>2, <1>4 DEF TypeOK, Cols
  <1>7. Feasible'
    BY <1>1, <1>2, FeasibleStays
  <1>8. Lowered'
    BY <1>1, <1>2, <1>3, <1>6 DEF Lowered
  <1>9. Matched(Cols, i - 1)'
    <2>1. Matched(Cols, i - 1) /\ \A j \in Cols : p'[j] = p[j]
      BY <1>1, <1>6
    <2>2. /\ \A j \in Cols : p'[j] <= i - 1
          /\ \A j \in Cols \ {0}, r \in Rows : p'[j] = r => Tight(r, j)
          /\ \A j, k \in Cols : p'[j] = p'[k] /\ p'[j] # 0 => j = k
          /\ \A r \in 1..(i - 1) : \E j \in Cols : p'[j] = r
      BY <2>1 DEF Matched
    <2>3. i' = i /\ \A r, j : Tight(r, j)' = Tight(r, j)
      BY <1>2, SameProblem DEF Reduced, Tight
    <2> QED BY <1>3, <2>2, <2>3 DEF Matched
  <1>10. \E rank \in Rank' : GrowInv(rank)'
    <2>1. [j \in Nodes |-> 0] \in Rank
      BY DEF Rank
    <2>2. GrowInv([j \in Nodes |-> 0])'
      <3>1. p'[0] = i /\ p'[0] # 0 /\ i' <= n'
        BY <1>1, <1>2, <1>3, <1>4 DEF TypeOK
      <3>2. \A j \in Nodes' : minv'[j] = Inf
        BY <1>2, <1>3 DEF Nodes
      <3>3. /\ j0' \notin used' /\ 0 \in used' \union {j0'} /\ used' = {}
            /\ \A j \in used' \union {j0'} : j = 0
        BY <1>2
      <3> QED BY <1>2, <1>9, <3>1, <3>2, <3>3 DEF GrowInv
    <2> QED BY <1>3, <2>1, <2>2
  <1> QED BY <1>2, <1>3, <1>5, <1>7, <1>8, <1>10 DEF CertInv

\* Flip: the column before on the path gives up its row.
LEMMA FlipCertInv == CertInv /\ Flip => CertInv'
  <1> SUFFICES ASSUME CertInv, Flip PROVE CertInv'
    OBVIOUS
  <1> DEFINE w == way[j0]
  <1>1. TypeOK /\ ProblemOK /\ Feasible /\ Lowered /\ \E rank \in Rank : FlipInv(rank)
    BY DEF CertInv, Flip
  <1>2. PICK rank \in Rank : FlipInv(rank)
    BY <1>1
  <1>3. /\ at = "flip" /\ p' = [p EXCEPT ![j0] = p[w]] /\ j0' = w
        /\ UNCHANGED <<problem, u, v, way, minv, used>>
    BY DEF Flip
  <1>4. IF w = 0 THEN at' = "row" /\ i' = i + 1 ELSE at' = at /\ i' = i
    BY DEF Flip
  <1>5. /\ n' = n /\ Rows' = Rows /\ Cols' = Cols /\ Nodes' = Nodes /\ Rank' = Rank /\ ProblemOK'
        /\ \A r, j : Tight(r, j)' = Tight(r, j)
    BY <1>1, <1>3, SameProblem DEF Reduced, Tight
  <1>6. /\ n \in Nat \ {0} /\ i \in 1..n /\ j0 \in Cols /\ j0 \in Nodes /\ j0 # 0
        /\ used \subseteq Nodes
    <2>1. n \in Nat \ {0} /\ i \in 1..(n + 1) /\ i <= n /\ used \subseteq 0..n
      BY <1>1, <1>2, Sizes DEF TypeOK, FlipInv
    <2>2. j0 \in Cols /\ j0 \in Nodes /\ j0 # 0
      BY <1>1, <1>2, Numbers DEF FlipInv
    <2> QED BY <2>1, <2>2 DEF Nodes
  <1>7. rank \in [Nodes -> Nat]
    BY DEF Rank
  <1>8. Reached(rank, j0)
    BY <1>2, <1>6, <1>7 DEF FlipInv
  <1>9. w \in used /\ w \in Nodes /\ rank[w] < rank[j0] /\ w # j0 /\ p[w] # 0
    BY <1>2, <1>6, <1>7, <1>8 DEF Reached, FlipInv
  <1>10. p[w] \in 1..i /\ p[w] \in Rows /\ p[w] \in Nodes
    <2>1. p[w] \in 0..n /\ p[w] <= i
      BY <1>1, <1>2, <1>9 DEF TypeOK, FlipInv, Matched, Nodes
    <2> QED BY <1>6, <1>9, <2>1 DEF Rows, Nodes
  <1>11. /\ p' \in [Nodes -> Nodes] /\ p'[j0] = p[w]
         /\ \A j \in Nodes : j # j0 => p'[j] = p[j]
    BY <1>1, <1>3, <1>6, <1>10 DEF TypeOK, Nodes
  <1> HIDE DEF w
  <1>12. TypeOK'
    <2>1. j0' \in 0..n /\ i' \in 1..(n + 1) /\ at' \in {"row", "grow", "flip", "done"}
      BY <1>3, <1>4, <1>6, <1>9 DEF Nodes
    <2> QED BY <1>1, <1>3, <1>5, <1>11, <2>1 DEF TypeOK, Nodes
  <1>13. /\ \A j \in Nodes \ {w} : p'[j] <= i
         /\ \A j \in (Nodes \ {w}) \ {0}, r \in Rows : p'[j] = r => Tight(r, j)
         /\ \A j, k \in Nodes \ {w} : p'[j] = p'[k] /\ p'[j] # 0 => j = k
         /\ \A r \in 1..i : \E j \in Nodes \ {w} : p'[j] = r
         /\ p'[w] <= i
    <2>1. Matched(Nodes \ {j0}, i)
      BY <1>2 DEF FlipInv
    <2>2. \A j \in Nodes \ {w} : p'[j] <= i
      BY <1>6, <1>10, <1>11, <2>1 DEF Matched
    <2>3. ASSUME NEW j \in (Nodes \ {w}) \ {0}, NEW r \in Rows, p'[j] = r PROVE Tight(r, j)
      <3>1. CASE j = j0
        BY <1>8, <1>11, <2>3, <3>1 DEF Reached, w
      <3>2. CASE j # j0
        BY <1>11, <2>1, <2>3, <3>2 DEF Matched
      <3> QED BY <3>1, <3>2
    <2>4. ASSUME NEW j \in Nodes \ {w}, NEW k \in Nodes \ {w}, p'[j] = p'[k], p'[j] # 0 PROVE j = k
      BY <1>9, <1>11, <2>1, <2>4 DEF Matched
    <2>5. ASSUME NEW r \in 1..i PROVE \E j \in Nodes \ {w} : p'[j] = r
      <3>1. PICK j \in Nodes \ {j0} : p[j] = r
        BY <2>1 DEF Matched
      <3>2. CASE j = w
        BY <1>6, <1>9, <1>11, <3>1, <3>2
      <3>3. CASE j # w
        BY <1>11, <3>1, <3>3
      <3> QED BY <3>2, <3>3
    <2>6. p'[w] <= i
      BY <1>9, <1>11, <2>1 DEF Matched
    <2> QED BY <2>2, <2>3, <2>4, <2>5, <2>6
  <1>14. Feasible'
    BY <1>1, <1>3, FeasibleStays
  <1>15. Lowered'
    <2>1. ASSUME NEW j \in Cols, p'[j] = 0 PROVE v[j] = 0
      <3>1. j \in Nodes
        BY <1>1, Numbers
      <3>2. p[j] = 0
        BY <1>9, <1>11, <2>1, <3>1
      <3> QED BY <1>1, <3>2 DEF Lowered
    <2> QED BY <1>1, <1>3, <1>5, <2>1 DEF Lowered
  <1>16. CASE w = 0
    <2>1. at' = "row" /\ i' = i + 1 /\ i' - 1 = i
      BY <1>4, <1>6, <1>16
    <2>2. Cols = Nodes \ {w} /\ Cols' = Nodes \ {w}
      BY <1>5, <1>6, <1>16 DEF Cols, Nodes
    <2>3. Matched(Cols, i - 1)'
      BY <1>5, <1>13, <2>1, <2>2 DEF Matched
    <2> QED BY <1>5, <1>12, <1>14, <1>15, <2>1, <2>3 DEF CertInv
  <1>17. CASE w # 0
    <2>1. at' = "flip" /\ i' = i /\ j0' = w /\ used' = used /\ way' = way
      BY <1>3, <1>4, <1>17
    <2>2. Matched(Nodes \ {j0}, i)'
      BY <1>5, <1>13, <2>1 DEF Matched
    <2>3. i' <= n' /\ j0' \in Cols' /\ p'[j0'] <= i' /\ 0 \in used'
      BY <1>2, <1>5, <1>6, <1>9, <1>13, <1>17, <2>1 DEF FlipInv, Cols, Nodes
    <2>4. \A j \in used : p'[j] # 0
      BY <1>2, <1>6, <1>9, <1>11 DEF FlipInv
    <2>5. ASSUME NEW j \in (used' \union {j0'}) \ {0}, rank[j] <= rank[j0']
          PROVE  Reached(rank, j)'
      <3>1. j \in used /\ j # 0 /\ rank[j] <= rank[w] /\ j \in Nodes
        BY <1>6, <1>9, <2>1, <2>5
      <3>2. rank[j] < rank[j0] /\ rank[j] \in Nat /\ rank[j0] \in Nat /\ rank[w] \in Nat
        BY <1>6, <1>7, <1>9, <3>1
      <3>3. Reached(rank, j)
        BY <1>2, <3>1, <3>2 DEF FlipInv
      <3>4. way[j] \in used /\ way[j] \in Nodes /\ rank[way[j]] < rank[j]
        BY <1>6, <3>3 DEF Reached
      <3>5. way[j] # j0
        BY <1>7, <3>2, <3>4
      <3>6. p'[way[j]] = p[way[j]]
        BY <1>11, <3>4, <3>5
      <3>7. \A r \in Rows : p'[way[j]] = r => Tight(r, j)
        BY <3>3, <3>6 DEF Reached
      <3> QED BY <1>5, <2>1, <3>4, <3>7 DEF Reached
    <2>6. FlipInv(rank)'
      BY <2>1, <2>2, <2>3, <2>4, <2>5 DEF FlipInv
    <2> QED BY <1>5, <1>12, <1>14, <1>15, <2>1, <2>6 DEF CertInv
  <1> QED BY <1>16, <1>17

\* Finish: every row has its column.
LEMMA FinishCertInv == CertInv /\ Finish => CertInv'
  <1> SUFFICES ASSUME CertInv, Finish PROVE CertInv'
    OBVIOUS
  <1>1. TypeOK /\ ProblemOK /\ Feasible /\ Lowered /\ Matched(Cols, i - 1)
    BY DEF CertInv, Finish
  <1>2. /\ at = "row" /\ i > n /\ at' = "done"
        /\ UNCHANGED <<problem, u, v, p, way, minv, used, i, j0>>
    BY DEF Finish
  <1>3. /\ n' = n /\ Rows' = Rows /\ Cols' = Cols /\ ProblemOK'
        /\ \A r, j : Tight(r, j)' = Tight(r, j)
    BY <1>1, <1>2, SameProblem DEF Reduced, Tight
  <1>4. i = n + 1
    BY <1>1, <1>2, Sizes DEF TypeOK
  <1>5. TypeOK'
    BY <1>1, <1>2, <1>3 DEF TypeOK
  <1>6. Feasible' /\ Lowered'
    BY <1>1, <1>2, <1>3, FeasibleStays DEF Lowered
  <1>7. Matched(Cols, i - 1)'
    BY <1>1, <1>2, <1>3 DEF Matched
  <1> QED BY <1>2, <1>3, <1>4, <1>5, <1>6, <1>7 DEF CertInv

-------------------------------------------------------------------------------
(* Growing the tree.                                                         *)

\* What one iteration computes: the tree with the current column, the slack of
\* the others, the columns not reached, and the nearest of them.
Tree == used \union {j0}
Nearer(j) == j \notin Tree /\ Reduced(p[j0], j) < minv[j]
Slack == [j \in Nodes |-> IF Nearer(j) THEN Reduced(p[j0], j) ELSE minv[j]]
Through == [j \in Nodes |-> IF Nearer(j) THEN j0 ELSE way[j]]
Rest == Nodes \ Tree
Closest == {j \in Rest : \A k \in Rest : Slack[j] <= Slack[k]}
NextCol == Min(Closest)
Delta == Slack[NextCol]

\* Grow, in these names.
LEMMA GrowSteps ==
    ASSUME Grow
    PROVE  /\ at = "grow" /\ used' = Tree /\ way' = Through
           /\ minv' = [j \in Nodes |-> IF j \in Tree THEN Slack[j] ELSE Slack[j] - Delta]
           /\ u' = RaiseRows(Tree, Delta) /\ v' = LowerCols(Tree, Delta)
           /\ j0' = NextCol /\ at' = IF p[NextCol] = 0 THEN "flip" ELSE "grow"
           /\ UNCHANGED <<problem, p, i>>
  BY DEF Grow, Tree, Nearer, Slack, Through, Rest, Closest, NextCol, Delta, Nodes, Reduced

\* A set of natural numbers that is not empty has a least one.
LEMMA LeastOfNaturals ==
    ASSUME NEW S \in SUBSET Nat, S # {}
    PROVE  \E x \in S : \A y \in S : x <= y
  <1>1. \E x \in S : \A y \in S : ~ (<<y, x>> \in OpToRel(<, Nat))
    BY NatLessThanWellFounded, WFMin
  <1>2. PICK x \in S : \A y \in S : ~ (<<y, x>> \in OpToRel(<, Nat))
    BY <1>1
  <1>3. ASSUME NEW y \in S PROVE x <= y
    <2>1. ~ (y < x) /\ x \in Nat /\ y \in Nat
      BY <1>2 DEF OpToRel
    <2> QED BY <2>1
  <1> QED BY <1>3

\* While a row is being matched some column has none: there are as many columns
\* as rows.
LEMMA FreeColumn ==
    ASSUME TypeOK, ProblemOK, i <= n, Matched(Cols, i - 1)
    PROVE  \E j \in Cols : p[j] = 0
  <1> SUFFICES ASSUME \A j \in Cols : p[j] # 0 PROVE FALSE
    OBVIOUS
  <1>1. n \in Nat \ {0} /\ i \in Nat \ {0} /\ i <= n
    BY Sizes DEF TypeOK
  <1>2. \A j \in Cols : p[j] \in 1..(i - 1)
    <2> SUFFICES ASSUME NEW j \in Cols PROVE p[j] \in 1..(i - 1)
      OBVIOUS
    <2>1. p[j] \in 0..n /\ p[j] # 0
      BY Numbers DEF TypeOK, Nodes
    <2>2. p[j] <= i - 1
      BY DEF Matched
    <2> QED BY <1>1, <2>1, <2>2
  <1> DEFINE f == [j \in Cols |-> p[j]]
  <1>3. f \in [Cols -> 1..(i - 1)]
    BY <1>2
  <1>4. IsFiniteSet(Cols) /\ Cardinality(Cols) = n
    BY <1>1, FS_Interval DEF Cols
  <1>5. IsFiniteSet(1..(i - 1)) /\ Cardinality(1..(i - 1)) = i - 1
    BY <1>1, FS_Interval
  <1>6. Cardinality(1..(i - 1)) < Cardinality(Cols)
    BY <1>1, <1>4, <1>5
  <1> HIDE DEF f
  <1>7. \E j, k \in Cols : j # k /\ f[j] = f[k]
    BY <1>3, <1>4, <1>5, <1>6, FS_PigeonHole
  <1>8. PICK j \in Cols, k \in Cols : j # k /\ f[j] = f[k]
    BY <1>7
  <1>9. p[j] = p[k] /\ p[j] # 0
    BY <1>2, <1>8 DEF f
  <1> QED BY <1>8, <1>9 DEF Matched

\* The potentials stay within the padding: a slack is never mistaken for Inf.
LEMMA BelowInf ==
    ASSUME TypeOK, ProblemOK, Feasible, Lowered, i <= n, Matched(Cols, i - 1),
           NEW r \in Rows, NEW j \in Cols
    PROVE  Reduced(r, j) < Inf
  <1>1. Big \in Nat \ {0} /\ Inf = 100 * Big
    BY BigIsBig DEF Inf
  <1>2. PICK f \in Cols : p[f] = 0
    BY FreeColumn
  <1>3. ASSUME NEW s \in Rows PROVE u[s] \in 0..Big
    <2>1. v[f] = 0 /\ u[s] >= 0 /\ Reduced(s, f) >= 0
      BY <1>2 DEF Lowered, Feasible
    <2>2. c(s, f) \in 0..Big /\ u[s] \in Int /\ Reduced(s, f) = c(s, f) - u[s] - v[f]
      BY Costs, Numbers
    <2> QED BY <1>1, <2>1, <2>2
  <1>4. v[j] \in Int /\ v[j] >= 0 - Big
    <2>0. v[j] \in Int
      BY Numbers
    <2>1. CASE p[j] = 0
      BY <1>1, <2>1 DEF Lowered
    <2>2. CASE p[j] # 0
      <3>1. p[j] \in Rows
        <4>1. j \in 0..n /\ n \in Nat
          BY Numbers, Sizes DEF Nodes
        <4>2. p[j] \in 0..n
          BY <4>1 DEF TypeOK
        <4> QED BY <2>2, <4>1, <4>2 DEF Rows
      <3>2. Reduced(p[j], j) = 0
        BY <3>1, Numbers DEF Matched, Tight
      <3>3. c(p[j], j) \in 0..Big /\ Reduced(p[j], j) = c(p[j], j) - u[p[j]] - v[j]
        BY <3>1, Costs, Numbers
      <3>4. u[p[j]] \in 0..Big
        BY <1>3, <3>1
      <3> QED BY <1>1, <2>0, <3>2, <3>3, <3>4
    <2> QED BY <2>0, <2>1, <2>2
  <1>5. c(r, j) \in 0..Big /\ Reduced(r, j) = c(r, j) - u[r] - v[j]
    BY Costs, Numbers
  <1>6. u[r] \in 0..Big
    BY <1>3
  <1> QED BY <1>1, <1>4, <1>5, <1>6

\* The rows in the tree, and the columns not in it.
LEMMA TreeRows ==
    ASSUME TypeOK, ProblemOK, NEW rank, GrowInv(rank)
    PROVE  /\ Tree \subseteq Nodes /\ 0 \in Tree /\ Rest \subseteq Cols
           /\ \A k \in Tree : p[k] \in Rows
           /\ \E j \in Cols : j \in Rest
  <1>1. n \in Nat \ {0} /\ used \subseteq 0..n /\ j0 \in 0..n /\ p \in [0..n -> 0..n]
    BY Sizes DEF TypeOK
  <1>2. Tree \subseteq Nodes /\ 0 \in Tree /\ \A k \in Tree : p[k] # 0
    BY <1>1 DEF Tree, Nodes, GrowInv
  <1>3. \A k \in Tree : p[k] \in Rows
    <2> SUFFICES ASSUME NEW k \in Tree PROVE p[k] \in Rows
      OBVIOUS
    <2>1. p[k] \in 0..n /\ p[k] # 0
      BY <1>1, <1>2 DEF Nodes
    <2> QED BY <1>1, <2>1 DEF Rows
  <1>4. Rest \subseteq Cols
    BY <1>1, <1>2 DEF Rest, Nodes, Cols
  <1>5. PICK f \in Cols : p[f] = 0
    BY FreeColumn DEF GrowInv
  <1>6. f \in Rest
    BY <1>2, <1>5, Numbers DEF Rest
  <1> QED BY <1>2, <1>3, <1>4, <1>6

\* The slack of a column not reached is the least over the rows of the tree, the
\* current column's included, and it is that of the column before it.
LEMMA SlackIsLeast ==
    ASSUME CertInv, NEW rank \in Rank, GrowInv(rank), NEW j \in Rest
    PROVE  /\ Through[j] \in Tree /\ p[Through[j]] \in Rows
           /\ \A r \in Rows : p[Through[j]] = r => Slack[j] = Reduced(r, j)
           /\ \A k \in Tree, r \in Rows : p[k] = r => Slack[j] <= Reduced(r, j)
           /\ Slack[j] \in Nat
  <1>1. TypeOK /\ ProblemOK /\ Feasible /\ Lowered
    BY DEF CertInv
  <1>2. /\ Tree \subseteq Nodes /\ 0 \in Tree /\ Rest \subseteq Cols
        /\ \A k \in Tree : p[k] \in Rows
    BY <1>1, TreeRows
  <1>3. j \in Cols /\ j \in Nodes /\ j \notin Tree /\ j \notin used
    BY <1>2 DEF Rest, Tree
  <1>4. p[j0] \in Rows /\ j0 \in Tree
    BY <1>2 DEF Tree
  <1>5. \A r \in Rows : Reduced(r, j) \in Nat
    BY <1>1, <1>3, Numbers DEF Feasible
  <1>6. CASE Nearer(j)
    <2>1. Slack[j] = Reduced(p[j0], j) /\ Through[j] = j0
      BY <1>3, <1>6 DEF Slack, Through
    <2>2. Reduced(p[j0], j) < minv[j] /\ minv[j] \in Int
      BY <1>1, <1>3, <1>6 DEF Nearer, TypeOK, Nodes
    <2>3. ASSUME NEW k \in used, NEW r \in Rows, p[k] = r PROVE Slack[j] <= Reduced(r, j)
      <3>1. minv[j] <= Reduced(r, j)
        BY <1>3, <2>3 DEF GrowInv, SlackOf
      <3>2. Reduced(r, j) \in Nat /\ Reduced(p[j0], j) \in Nat
        BY <1>4, <1>5
      <3> QED BY <2>1, <2>2, <3>1, <3>2
    <2>4. ASSUME NEW k \in Tree, NEW r \in Rows, p[k] = r PROVE Slack[j] <= Reduced(r, j)
      <3>1. CASE k \in used
        BY <2>3, <2>4, <3>1
      <3>2. CASE k = j0
        <4>1. Slack[j] = Reduced(r, j) /\ Reduced(r, j) \in Nat
          BY <1>5, <2>1, <2>4, <3>2
        <4> QED BY <4>1
      <3> QED BY <3>1, <3>2 DEF Tree
    <2> QED BY <1>4, <1>5, <2>1, <2>4
  <1>7. CASE ~ Nearer(j)
    <2>1. Slack[j] = minv[j] /\ Through[j] = way[j]
      BY <1>3, <1>7 DEF Slack, Through
    <2>2. ~ (Reduced(p[j0], j) < minv[j]) /\ minv[j] \in Int
      BY <1>1, <1>3, <1>7 DEF Nearer, TypeOK, Nodes
    <2>3. used # {}
      <3> SUFFICES ASSUME used = {} PROVE FALSE
        OBVIOUS
      <3>1. minv[j] = Inf
        BY <1>3 DEF GrowInv
      <3>2. Reduced(p[j0], j) < Inf
        BY <1>1, <1>3, <1>4, BelowInf DEF GrowInv
      <3> QED BY <2>2, <3>1, <3>2
    <2>4. SlackOf(j)
      BY <1>3, <2>3 DEF GrowInv
    <2>5. way[j] \in used /\ way[j] \in Tree
      BY <2>4 DEF SlackOf, Tree
    <2>6. \A r \in Rows : p[way[j]] = r => minv[j] = Reduced(r, j)
      BY <2>4 DEF SlackOf
    <2>7. ASSUME NEW k \in Tree, NEW r \in Rows, p[k] = r PROVE minv[j] <= Reduced(r, j)
      <3>1. CASE k \in used
        BY <2>4, <2>7, <3>1 DEF SlackOf
      <3>2. CASE k = j0
        <4>1. Reduced(r, j) = Reduced(p[j0], j) /\ Reduced(r, j) \in Nat
          BY <1>5, <2>7, <3>2
        <4> QED BY <2>2, <4>1
      <3> QED BY <3>1, <3>2 DEF Tree
    <2>8. minv[j] \in Nat
      BY <1>2, <1>5, <2>5, <2>6
    <2> QED BY <1>2, <2>1, <2>5, <2>6, <2>7, <2>8
  <1> QED BY <1>6, <1>7

\* Some column not reached is nearest: delta is a finite step up, to column j1.
LEMMA NextIsNearest ==
    ASSUME CertInv, NEW rank \in Rank, GrowInv(rank)
    PROVE  /\ NextCol \in Rest /\ NextCol \in Cols /\ Delta \in Nat
           /\ \A j \in Rest : Slack[j] \in Nat /\ Delta <= Slack[j]
  <1>1. Rest \subseteq Cols /\ Rest # {} /\ Cols \subseteq Nat
    BY TreeRows, Sizes DEF CertInv, Cols
  <1>2. \A j \in Rest : Slack[j] \in Nat
    BY SlackIsLeast
  <1> DEFINE T == {Slack[j] : j \in Rest}
  <1>3. T \subseteq Nat /\ T # {}
    BY <1>1, <1>2
  <1>4. PICK t \in T : \A y \in T : t <= y
    BY <1>3, LeastOfNaturals
  <1>5. PICK j \in Rest : t = Slack[j]
    BY <1>4
  <1>6. j \in Closest
    BY <1>4, <1>5 DEF Closest
  <1>7. Closest \subseteq Nat /\ Closest # {}
    BY <1>1, <1>6 DEF Closest
  <1>8. \E x \in Closest : \A y \in Closest : x <= y
    BY <1>7, LeastOfNaturals
  <1>9. NextCol \in Closest
    BY <1>8 DEF NextCol, Min
  <1>10. NextCol \in Rest /\ \A k \in Rest : Slack[NextCol] <= Slack[k]
    BY <1>9 DEF Closest
  <1> QED BY <1>1, <1>2, <1>10 DEF Delta

\* Raising the rows of the tree and lowering its columns changes what is left
\* only between the two.
LEMMA ReducedMoves ==
    ASSUME CertInv, NEW rank \in Rank, GrowInv(rank), Grow, NEW r \in Rows, NEW j \in Cols
    PROVE  /\ Reduced(r, j) \in Int /\ Reduced(r, j)' \in Int
           /\ LET reached == \E k \in Tree : p[k] = r
              IN  /\ (reached <=> j \in Tree) => Reduced(r, j)' = Reduced(r, j)
                  /\ reached /\ j \notin Tree => Reduced(r, j)' = Reduced(r, j) - Delta
                  /\ ~ reached /\ j \in Tree => Reduced(r, j)' = Reduced(r, j) + Delta
  <1>1. TypeOK /\ ProblemOK
    BY DEF CertInv
  <1>2. /\ UNCHANGED problem /\ u' = RaiseRows(Tree, Delta) /\ v' = LowerCols(Tree, Delta)
    BY GrowSteps
  <1>3. Reduced(r, j)' = c(r, j) - u'[r] - v'[j]
    BY <1>2, SameProblem
  <1>4. /\ c(r, j) \in Int /\ u[r] \in Int /\ v[j] \in Int
        /\ r \in 0..n /\ j \in 0..n
        /\ Reduced(r, j) = c(r, j) - u[r] - v[j]
    BY <1>1, Numbers, Costs, BigIsBig DEF Nodes
  <1>5. Delta \in Nat
    BY NextIsNearest
  <1> DEFINE reached == \E k \in Tree : p[k] = r
  <1>6. /\ reached => u'[r] = u[r] + Delta
        /\ ~ reached => u'[r] = u[r]
    BY <1>2, <1>4 DEF RaiseRows
  <1>7. /\ j \in Tree => v'[j] = v[j] - Delta
        /\ j \notin Tree => v'[j] = v[j]
    BY <1>2, <1>4 DEF LowerCols
  <1> HIDE DEF reached
  <1>8. /\ Reduced(r, j) \in Int /\ Reduced(r, j)' \in Int
        /\ (reached <=> j \in Tree) => Reduced(r, j)' = Reduced(r, j)
        /\ reached /\ j \notin Tree => Reduced(r, j)' = Reduced(r, j) - Delta
        /\ ~ reached /\ j \in Tree => Reduced(r, j)' = Reduced(r, j) + Delta
    BY <1>3, <1>4, <1>5, <1>6, <1>7
  <1> QED BY <1>8 DEF reached

\* Grow: types.
LEMMA GrowTypeOK ==
    ASSUME CertInv, NEW rank \in Rank, GrowInv(rank), Grow
    PROVE  TypeOK' /\ ProblemOK'
  <1>1. TypeOK /\ ProblemOK /\ n \in Nat
    BY Sizes DEF CertInv
  <1>2. /\ used' = Tree /\ way' = Through
        /\ minv' = [j \in Nodes |-> IF j \in Tree THEN Slack[j] ELSE Slack[j] - Delta]
        /\ u' = RaiseRows(Tree, Delta) /\ v' = LowerCols(Tree, Delta)
        /\ j0' = NextCol /\ at' = IF p[NextCol] = 0 THEN "flip" ELSE "grow"
        /\ UNCHANGED <<problem, p, i>>
    BY GrowSteps
  <1>3. n' = n /\ ProblemOK'
    BY <1>1, <1>2, SameProblem
  <1>4. Tree \subseteq Nodes /\ NextCol \in Nodes /\ Delta \in Nat
    BY <1>1, TreeRows, NextIsNearest, Numbers
  <1>5. way' \in [0..n -> 0..n]
    <2>1. way \in [Nodes -> Nodes] /\ j0 \in Nodes
      BY <1>1 DEF TypeOK, Nodes
    <2>2. Through \in [Nodes -> Nodes]
      BY <2>1 DEF Through
    <2> QED BY <1>2, <2>2 DEF Nodes
  <1>6. minv' \in [0..n -> Int]
    <2>1. ASSUME NEW j \in Nodes PROVE Slack[j] \in Int
      <3>1. minv[j] \in Int
        BY <1>1 DEF TypeOK, Nodes
      <3>2. CASE j \in Rest
        BY <3>2, SlackIsLeast
      <3>3. CASE j \notin Rest
        BY <3>1, <3>3 DEF Rest, Slack, Nearer
      <3> QED BY <3>2, <3>3
    <2>2. \A j \in Nodes : Slack[j] - Delta \in Int
      BY <1>4, <2>1
    <2> QED BY <1>2, <2>1, <2>2 DEF Nodes
  <1>7. u' \in [0..n -> Int]
    <2>0. u \in [0..n -> Int]
      BY <1>1 DEF TypeOK
    <2>1. \A r \in 0..n : u[r] \in Int /\ u[r] + Delta \in Int
      BY <1>4, <2>0
    <2> QED BY <1>2, <2>1 DEF RaiseRows
  <1>8. v' \in [0..n -> Int]
    <2>0. v \in [0..n -> Int]
      BY <1>1 DEF TypeOK
    <2>1. \A j \in 0..n : v[j] \in Int /\ v[j] - Delta \in Int
      BY <1>4, <2>0
    <2> QED BY <1>2, <2>1 DEF LowerCols
  <1>9. /\ used' \in SUBSET (0..n) /\ j0' \in 0..n
        /\ at' \in {"row", "grow", "flip", "done"} /\ p' = p /\ i' = i
    BY <1>2, <1>4 DEF Nodes
  <1> QED BY <1>1, <1>3, <1>5, <1>6, <1>7, <1>8, <1>9 DEF TypeOK

\* Grow: the potentials stay below the costs, and what is matched stays tight.
LEMMA GrowPotentials ==
    ASSUME CertInv, NEW rank \in Rank, GrowInv(rank), Grow
    PROVE  /\ Feasible' /\ Lowered'
           /\ \A j \in Cols, r \in Rows : p[j] = r => Reduced(r, j)' = 0
           /\ \A j \in Tree, k \in Tree, r \in Rows :
                 p[k] = r /\ j # 0 => Reduced(r, j)' = Reduced(r, j)
           /\ \A j \in Rest, k \in Tree, r \in Rows :
                 p[k] = r => Reduced(r, j)' = Reduced(r, j) - Delta
  <1>1. TypeOK /\ ProblemOK /\ Feasible /\ Lowered /\ Matched(Cols, i - 1) /\ p[0] = i
    BY DEF CertInv, GrowInv
  <1>2. /\ UNCHANGED <<problem, p, i>> /\ u' = RaiseRows(Tree, Delta) /\ v' = LowerCols(Tree, Delta)
    BY GrowSteps
  <1>3. Rows' = Rows /\ Cols' = Cols
    BY <1>2, SameProblem
  <1>4. /\ Tree \subseteq Nodes /\ 0 \in Tree /\ Rest \subseteq Cols
        /\ \A k \in Tree : p[k] \in Rows
    BY <1>1, TreeRows
  <1>5. Delta \in Nat /\ \A j \in Rest : Slack[j] \in Nat /\ Delta <= Slack[j]
    BY NextIsNearest
  <1>6. \A j \in Cols : j \in Nodes /\ j # 0
    BY <1>1, Numbers
  <1>7. \A j \in Cols : j \in Tree \/ j \in Rest
    BY <1>6 DEF Rest
  <1>8. ASSUME NEW r \in Rows, NEW j \in Cols PROVE Reduced(r, j)' >= 0
    <2>1. Reduced(r, j) \in Int /\ Reduced(r, j) >= 0
      BY <1>1, Numbers DEF Feasible
    <2>2. CASE (\E k \in Tree : p[k] = r) /\ j \notin Tree
      <3>1. Slack[j] <= Reduced(r, j) /\ Slack[j] \in Nat /\ Delta <= Slack[j]
        BY <1>5, <1>7, <2>2, SlackIsLeast
      <3>2. Reduced(r, j)' = Reduced(r, j) - Delta
        BY <2>2, ReducedMoves
      <3> QED BY <1>5, <2>1, <3>1, <3>2
    <2>3. CASE ~ ((\E k \in Tree : p[k] = r) /\ j \notin Tree)
      <3>1. Reduced(r, j)' = Reduced(r, j) \/ Reduced(r, j)' = Reduced(r, j) + Delta
        BY <2>3, ReducedMoves
      <3> QED BY <1>5, <2>1, <3>1
    <2> QED BY <2>2, <2>3
  <1>9. Feasible'
    BY <1>3, <1>8 DEF Feasible
  <1>10. Lowered'
    <2>1. ASSUME NEW r \in Rows PROVE u'[r] >= 0
      <3>1. u[r] \in Int /\ u[r] >= 0 /\ r \in 0..n
        BY <1>1, Numbers DEF Lowered, Nodes
      <3>2. u'[r] = u[r] + Delta \/ u'[r] = u[r]
        BY <1>2, <3>1 DEF RaiseRows
      <3> QED BY <1>5, <3>1, <3>2
    <2>2. ASSUME NEW j \in Cols, p[j] = 0 PROVE v'[j] = 0
      <3>1. v[j] = 0 /\ j \in 0..n
        BY <1>1, <1>6, <2>2 DEF Lowered, Nodes
      <3>2. j \notin Tree
        BY <1>1, <1>4, <2>2, Numbers
      <3> QED BY <1>2, <3>1, <3>2 DEF LowerCols
    <2> QED BY <1>2, <1>3, <2>1, <2>2 DEF Lowered
  <1>11. ASSUME NEW j \in Cols, NEW r \in Rows, p[j] = r PROVE Reduced(r, j)' = 0
    <2>1. Reduced(r, j) = 0
      BY <1>1, <1>6, <1>11 DEF Matched, Tight
    <2>2. (\E k \in Tree : p[k] = r) => j \in Tree
      <3> SUFFICES ASSUME NEW k \in Tree, p[k] = r PROVE j \in Tree
        OBVIOUS
      <3>1. r <= i - 1 /\ i \in Int
        BY <1>1, <1>11 DEF Matched, TypeOK
      <3>2. k # 0
        BY <1>1, <3>1
      <3>3. k \in Cols
        BY <1>1, <1>4, <3>2, Sizes DEF Nodes, Cols
      <3>4. r # 0
        BY <1>1, Numbers
      <3> QED BY <1>1, <1>11, <3>3, <3>4 DEF Matched
    <2>3. j \in Tree => \E k \in Tree : p[k] = r
      BY <1>11
    <2> QED BY <2>1, <2>2, <2>3, ReducedMoves
  <1>12. ASSUME NEW j \in Tree, NEW k \in Tree, NEW r \in Rows, p[k] = r, j # 0
         PROVE  Reduced(r, j)' = Reduced(r, j)
    <2>1. j \in Cols
      BY <1>1, <1>4, <1>12, Sizes DEF Nodes, Cols
    <2> QED BY <1>12, <2>1, ReducedMoves
  <1>13. ASSUME NEW j \in Rest, NEW k \in Tree, NEW r \in Rows, p[k] = r
         PROVE  Reduced(r, j)' = Reduced(r, j) - Delta
    <2>1. j \in Cols /\ j \notin Tree
      BY <1>4 DEF Rest
    <2> QED BY <1>13, <2>1, ReducedMoves
  <1> QED BY <1>9, <1>10, <1>11, <1>12, <1>13

\* Grow: the nearest column joins the path, and the tree has moved with it.
LEMMA GrowCertInv == CertInv /\ Grow => CertInv'
  <1> SUFFICES ASSUME CertInv, Grow PROVE CertInv'
    OBVIOUS
  <1>1. TypeOK /\ ProblemOK /\ \E rank \in Rank : GrowInv(rank)
    BY DEF CertInv, Grow
  <1>2. PICK rank \in Rank : GrowInv(rank)
    BY <1>1
  <1>3. /\ used' = Tree /\ way' = Through
        /\ minv' = [j \in Nodes |-> IF j \in Tree THEN Slack[j] ELSE Slack[j] - Delta]
        /\ j0' = NextCol /\ at' = IF p[NextCol] = 0 THEN "flip" ELSE "grow"
        /\ UNCHANGED problem /\ p' = p /\ i' = i
    BY GrowSteps
  <1>4. /\ n' = n /\ Rows' = Rows /\ Cols' = Cols /\ Nodes' = Nodes /\ Rank' = Rank
        /\ \A r, j : Tight(r, j)' = (Reduced(r, j)' = 0)
    BY <1>3, SameProblem
  <1>5. TypeOK' /\ ProblemOK' /\ Feasible' /\ Lowered'
    BY <1>2, GrowTypeOK, GrowPotentials
  <1>6. /\ Tree \subseteq Nodes /\ 0 \in Tree /\ Rest \subseteq Cols /\ Rest = Nodes \ Tree
        /\ \A k \in Tree : p[k] \in Rows /\ p[k] # 0
    BY <1>1, <1>2, TreeRows, Numbers DEF Rest
  <1>7. NextCol \in Rest /\ NextCol \in Cols /\ NextCol \in Nodes /\ NextCol # 0 /\ NextCol \notin Tree
    BY <1>1, <1>2, <1>6, NextIsNearest, Numbers
  <1>8. i <= n /\ p[0] = i /\ Matched(Cols, i - 1) /\ i \in Nat \ {0} /\ n \in Nat
    BY <1>1, <1>2, Sizes DEF GrowInv, TypeOK
  <1>9. rank \in [Nodes -> Nat]
    BY DEF Rank
  <1>10. PICK j1 \in Cols : j1 = NextCol
    BY <1>7
  <1>11. PICK w \in Tree : w = Through[j1] /\ w \in Nodes /\ p[w] \in Rows
    BY <1>2, <1>6, <1>7, <1>10, SlackIsLeast
  <1>12. PICK rank2 \in Rank : rank2[j1] = rank[w] + 1 /\ \A j \in Tree : rank2[j] = rank[j]
    <2>1. rank[w] + 1 \in Nat
      BY <1>9, <1>11
    <2>2. [rank EXCEPT ![j1] = rank[w] + 1] \in Rank
      BY <1>7, <1>9, <1>10, <2>1 DEF Rank
    <2> QED BY <1>6, <1>7, <1>9, <1>10, <2>2
  <1>13. \A j \in Tree : Through[j] = way[j]
    BY <1>6 DEF Through, Nearer
  <1>14. ASSUME NEW j \in Tree \ {0} PROVE Reached(rank2, j)'
    <2>1. Reached(rank, j)
      BY <1>2, <1>14 DEF GrowInv, Tree
    <2>2. way[j] \in used /\ way[j] \in Tree /\ rank[way[j]] < rank[j]
      BY <2>1 DEF Reached, Tree
    <2>3. ASSUME NEW r \in Rows, p[way[j]] = r PROVE Reduced(r, j)' = 0
      <3>1. Reduced(r, j) = 0
        BY <2>1, <2>3 DEF Reached, Tight
      <3>2. Reduced(r, j)' = Reduced(r, j)
        BY <1>2, <1>14, <2>2, <2>3, GrowPotentials
      <3> QED BY <3>1, <3>2
    <2>4. way'[j] = way[j] /\ rank2[way[j]] < rank2[j]
      BY <1>3, <1>12, <1>13, <1>14, <2>2
    <2> QED BY <1>3, <1>4, <2>2, <2>3, <2>4 DEF Reached
  <1>15. Reached(rank2, j1)'
    <2>1. ASSUME NEW r \in Rows, p[w] = r PROVE Reduced(r, j1)' = 0
      <3>1. Slack[j1] = Reduced(r, j1)
        BY <1>2, <1>7, <1>10, <1>11, <2>1, SlackIsLeast
      <3>2. Slack[j1] = Delta /\ Delta \in Nat
        BY <1>2, <1>10, NextIsNearest DEF Delta
      <3>3. Reduced(r, j1)' = Reduced(r, j1) - Delta
        BY <1>2, <1>7, <1>10, <1>11, <2>1, GrowPotentials
      <3>4. Reduced(r, j1) = Delta /\ Delta - Delta = 0
        BY <3>1, <3>2
      <3> QED BY <3>3, <3>4
    <2>2. way'[j1] = w /\ p'[w] = p[w] /\ w \in used'
      BY <1>3, <1>11
    <2>3. rank2[w] < rank2[j1]
      <3>1. rank[w] \in Nat
        BY <1>9, <1>11
      <3> QED BY <1>12, <1>11, <3>1
    <2> QED BY <1>3, <1>4, <2>1, <2>2, <2>3 DEF Reached
  <1>16. ASSUME NEW j \in Rest PROVE SlackOf(j)'
    <2>1. /\ Through[j] \in Tree /\ p[Through[j]] \in Rows
          /\ \A r \in Rows : p[Through[j]] = r => Slack[j] = Reduced(r, j)
          /\ \A k \in Tree, r \in Rows : p[k] = r => Slack[j] <= Reduced(r, j)
          /\ Slack[j] \in Nat
      BY <1>2, SlackIsLeast
    <2>2. Delta \in Nat
      BY <1>2, NextIsNearest
    <2>3. minv'[j] = Slack[j] - Delta /\ way'[j] = Through[j]
      BY <1>3, <1>6
    <2>4. ASSUME NEW k \in Tree, NEW r \in Rows, p[k] = r
          PROVE  Reduced(r, j)' = Reduced(r, j) - Delta /\ Reduced(r, j) \in Int
      <3>1. Reduced(r, j) \in Int
        BY <1>1, <1>6, Numbers
      <3> QED BY <1>2, <2>4, <3>1, GrowPotentials
    <2>5. ASSUME NEW r \in Rows, p[way'[j]] = r PROVE minv'[j] = Reduced(r, j)'
      <3>1. Slack[j] = Reduced(r, j)
        BY <2>1, <2>3, <2>5
      <3>2. Reduced(r, j)' = Reduced(r, j) - Delta
        BY <2>1, <2>3, <2>4, <2>5
      <3> QED BY <2>3, <3>1, <3>2
    <2>6. ASSUME NEW k \in Tree, NEW r \in Rows, p[k] = r PROVE minv'[j] <= Reduced(r, j)'
      <3>1. Slack[j] <= Reduced(r, j)
        BY <2>1, <2>6
      <3>2. Reduced(r, j)' = Reduced(r, j) - Delta /\ Reduced(r, j) \in Int
        BY <2>4, <2>6
      <3>3. Slack[j] \in Nat
        BY <2>1
      <3> QED BY <2>2, <2>3, <3>1, <3>2, <3>3
    <2> QED BY <1>3, <1>4, <2>1, <2>3, <2>5, <2>6 DEF SlackOf
  <1>17. Matched(Cols, i - 1)'
    <2>1. ASSUME NEW j \in Cols \ {0}, NEW r \in Rows, p[j] = r PROVE Reduced(r, j)' = 0
      BY <1>2, <2>1, GrowPotentials
    <2>2. /\ \A j \in Cols : p[j] <= i - 1
          /\ \A j, k \in Cols : p[j] = p[k] /\ p[j] # 0 => j = k
          /\ \A r \in 1..(i - 1) : \E j \in Cols : p[j] = r
      BY <1>8 DEF Matched
    <2> QED BY <1>3, <1>4, <2>1, <2>2 DEF Matched
  <1>18. CASE p[j1] # 0
    <2>1. at' = "grow" /\ rank2 \in Rank'
      BY <1>3, <1>4, <1>10, <1>12, <1>18
    <2>2. i' <= n' /\ p'[0] = i' /\ j0' \notin used' /\ 0 \in used' \union {j0'}
      BY <1>3, <1>4, <1>6, <1>7, <1>8, <1>10
    <2>3. \A j \in used' \union {j0'} : p'[j] # 0 /\ (j # 0 => Reached(rank2, j)')
      BY <1>3, <1>6, <1>10, <1>14, <1>15, <1>18
    <2>4. used' # {} /\ \A j \in Nodes' \ used' : SlackOf(j)'
      BY <1>3, <1>4, <1>6, <1>16
    <2>5. GrowInv(rank2)'
      BY <1>17, <2>2, <2>3, <2>4 DEF GrowInv
    <2> QED BY <1>5, <2>1, <2>5 DEF CertInv
  <1>19. CASE p[j1] = 0
    <2>1. at' = "flip" /\ rank2 \in Rank'
      BY <1>3, <1>4, <1>10, <1>12, <1>19
    <2>2. i' <= n' /\ j0' \in Cols' /\ p'[j0'] <= i' /\ 0 \in used'
      BY <1>3, <1>4, <1>6, <1>7, <1>8, <1>10, <1>19
    <2>3. \A j \in used' : p'[j] # 0
      BY <1>3, <1>6
    <2>4. \A j \in (used' \union {j0'}) \ {0} : Reached(rank2, j)'
      BY <1>3, <1>10, <1>14, <1>15
    <2>5. Matched(Nodes \ {j0}, i)'
      <3> DEFINE S == Nodes \ {j1}
      <3>0. \A j \in S : j # 0 => j \in Cols
        BY <1>8 DEF Nodes, Cols
      <3>1. ASSUME NEW j \in Cols PROVE p[j] <= i - 1 /\ p[j] \in Int /\ j \in Nodes
        <4>1. j \in Nodes
          BY <1>1, Numbers
        <4>2. p \in [Nodes -> Nodes]
          BY <1>1 DEF TypeOK, Nodes
        <4>3. p[j] \in Int
          BY <1>8, <4>1, <4>2 DEF Nodes
        <4> QED BY <1>8, <4>1, <4>3 DEF Matched
      <3>2. \A j \in S : p[j] <= i
        BY <1>8, <3>0, <3>1
      <3>3. ASSUME NEW j \in S \ {0}, NEW r \in Rows, p[j] = r PROVE Reduced(r, j)' = 0
        BY <1>2, <3>0, <3>3, GrowPotentials
      <3>4. ASSUME NEW j \in S, NEW k \in S, p[j] = p[k], p[j] # 0 PROVE j = k
        <4>1. (j = 0 <=> k = 0)
          BY <1>8, <3>0, <3>1, <3>4
        <4>2. CASE j = 0
          BY <4>1, <4>2
        <4>3. CASE j # 0
          BY <1>8, <3>0, <3>4, <4>1, <4>3 DEF Matched
        <4> QED BY <4>2, <4>3
      <3>5. ASSUME NEW r \in 1..i PROVE \E j \in S : p[j] = r
        <4>1. CASE r = i
          BY <1>6, <1>7, <1>8, <1>10, <4>1
        <4>2. CASE r # i
          <5>1. r \in 1..(i - 1) /\ r # 0
            BY <1>8, <4>2
          <5>2. PICK j \in Cols : p[j] = r
            BY <1>8, <5>1 DEF Matched
          <5> QED BY <1>19, <3>1, <5>1, <5>2
        <4> QED BY <4>1, <4>2
      <3>6. j0' = j1 /\ Nodes' \ {j0'} = S
        BY <1>3, <1>4, <1>10
      <3> HIDE DEF S
      <3> QED BY <1>3, <1>4, <3>2, <3>3, <3>4, <3>5, <3>6 DEF Matched
    <2>6. FlipInv(rank2)'
      BY <2>2, <2>3, <2>4, <2>5 DEF FlipInv
    <2> QED BY <1>5, <2>1, <2>6 DEF CertInv
  <1> QED BY <1>18, <1>19

-------------------------------------------------------------------------------
(* The theorems.                                                             *)

\* A step that changes nothing keeps the certificate.
LEMMA Unmoved == CertInv /\ UNCHANGED vars => CertInv'
  <1> SUFFICES ASSUME CertInv, UNCHANGED vars PROVE CertInv'
    OBVIOUS
  <1>1. UNCHANGED <<problem, u, v, p, way, minv, used, i, j0, at>>
    BY DEF vars, problem
  <1>2. /\ n' = n /\ Rows' = Rows /\ Cols' = Cols /\ Nodes' = Nodes /\ Rank' = Rank
        /\ ProblemOK => ProblemOK'
        /\ \A r, j : Tight(r, j)' = Tight(r, j)
        /\ \A r, j : Reduced(r, j)' = Reduced(r, j)
    BY <1>1, SameProblem DEF Reduced, Tight
  <1>3. TypeOK' /\ ProblemOK' /\ Feasible' /\ Lowered'
    BY <1>1, <1>2 DEF CertInv, TypeOK, Feasible, Lowered
  <1>4. Matched(Cols, i - 1) => Matched(Cols, i - 1)'
    BY <1>1, <1>2 DEF Matched
  <1>5. \A rank, j : Reached(rank, j)' = Reached(rank, j)
    BY <1>1, <1>2 DEF Reached
  <1>6. \A j : SlackOf(j)' = SlackOf(j)
    BY <1>1, <1>2 DEF SlackOf
  <1>7. ASSUME NEW rank \in Rank, GrowInv(rank) PROVE GrowInv(rank)'
    BY <1>1, <1>2, <1>4, <1>5, <1>6, <1>7 DEF GrowInv
  <1>8. ASSUME NEW rank \in Rank, FlipInv(rank) PROVE FlipInv(rank)'
    <2>1. Matched(Nodes \ {j0}, i)'
      BY <1>1, <1>2, <1>8 DEF FlipInv, Matched
    <2> QED BY <1>1, <1>2, <1>5, <1>8, <2>1 DEF FlipInv
  <1> QED BY <1>1, <1>2, <1>3, <1>4, <1>7, <1>8 DEF CertInv

\* The certificate holds after every step.
LEMMA CertInvHolds == Spec => []CertInv
  <1>1. Init => CertInv
    BY InitCertInv
  <1>2. CertInv /\ [Next]_vars => CertInv'
    <2> SUFFICES ASSUME CertInv, [Next]_vars PROVE CertInv'
      OBVIOUS
    <2>1. CASE Next
      BY <2>1, StartRowCertInv, GrowCertInv, FlipCertInv, FinishCertInv DEF Next
    <2>2. CASE UNCHANGED vars
      BY <2>2, Unmoved
    <2> QED BY <2>1, <2>2
  <1> QED BY <1>1, <1>2, PTL DEF Spec

\* The tables keep their types, however large the batch.
THEOREM HungarianTypeCorrect == Spec => []TypeOK
  <1>1. CertInv => TypeOK
    BY DEF CertInv
  <1> QED BY <1>1, CertInvHolds, PTL

\* What CertInv says of each row: one column if it is handled, else none.
LEMMA OneColumnEach ==
    ASSUME TypeOK, ProblemOK, Matched(Cols, i - 1), NEW r \in Rows
    PROVE  Cardinality({j \in Cols : p[j] = r}) = IF r < i THEN 1 ELSE 0
  <1>0. n \in Nat /\ p \in [0..n -> 0..n] /\ \A j \in Cols : j \in 0..n
    BY Sizes, Numbers DEF TypeOK, Nodes
  <1>1. r \in Nat \ {0} /\ i \in Nat /\ \A j \in Cols : p[j] \in Nat
    <2>1. r \in Nat \ {0}
      BY <1>0 DEF Rows
    <2>2. i \in Nat
      BY <1>0 DEF TypeOK
    <2> QED BY <1>0, <2>1, <2>2
  <1>2. CASE r < i
    <2>1. r \in 1..(i - 1)
      BY <1>1, <1>2
    <2>2. PICK j \in Cols : p[j] = r
      BY <2>1 DEF Matched
    <2>3. {k \in Cols : p[k] = r} = {j}
      BY <1>1, <2>2 DEF Matched
    <2> QED BY <1>2, <2>3, FS_Singleton
  <1>3. CASE ~ (r < i)
    <2>1. {j \in Cols : p[j] = r} = {}
      BY <1>1, <1>3 DEF Matched
    <2> QED BY <1>3, <2>1, FS_EmptySet
  <1> QED BY <1>2, <1>3

\* The certificate that makes the result a minimum holds in every state, for
\* every size of batch and all distances the padding exceeds: no pair costs less
\* than its potentials, matched pairs cost exactly that, and no row handled so far
\* is lost or has two columns.
THEOREM PotentialsCertify == Spec => []Certified
  <1>1. CertInv => Certified
    <2> SUFFICES ASSUME CertInv PROVE Certified
      OBVIOUS
    <2>1. TypeOK /\ ProblemOK /\ Feasible
      BY DEF CertInv
    <2>2. /\ \A r \in Rows, j \in Cols :
                 /\ c(r, j) \in Int /\ u[r] \in Int /\ v[j] \in Int
                 /\ Reduced(r, j) = c(r, j) - u[r] - v[j]
          /\ \A j \in Cols : p[j] # 0 => p[j] \in Rows
      <3>1. \A r \in Rows, j \in Cols : c(r, j) \in Int
        BY <2>1, Costs, BigIsBig
      <3>2. ASSUME NEW j \in Cols, p[j] # 0 PROVE p[j] \in Rows
        <4>1. j \in 0..n /\ n \in Nat
          BY <2>1, Numbers, Sizes DEF Nodes
        <4>2. p[j] \in 0..n
          BY <2>1, <4>1 DEF TypeOK
        <4> QED BY <3>2, <4>1, <4>2 DEF Rows
      <3> QED BY <2>1, <3>1, <3>2, Numbers
    <2>3. \A r \in Rows, j \in Cols : u[r] + v[j] <= c(r, j)
      <3> SUFFICES ASSUME NEW r \in Rows, NEW j \in Cols PROVE u[r] + v[j] <= c(r, j)
        OBVIOUS
      <3>1. Reduced(r, j) >= 0
        BY <2>1 DEF Feasible
      <3> QED BY <2>2, <3>1
    <2>4. at # "flip" => Matched(Cols, i - 1)
      BY <2>1 DEF CertInv, TypeOK, GrowInv
    <2>5. ASSUME NEW j \in Cols, p[j] # 0, at # "flip" PROVE u[p[j]] + v[j] = c(p[j], j)
      <3>1. Reduced(p[j], j) = 0
        BY <2>1, <2>2, <2>4, <2>5, Numbers DEF Matched, Tight
      <3> QED BY <2>2, <2>5, <3>1
    <2>6. at \in {"row", "done"} =>
             \A r \in Rows : Cardinality({j \in Cols : p[j] = r}) = IF r < i THEN 1 ELSE 0
      BY <2>1, <2>4, OneColumnEach
    <2> QED BY <2>3, <2>5, <2>6 DEF Certified
  <1> QED BY <1>1, CertInvHolds, PTL

-------------------------------------------------------------------------------
(* What Optimal returns.                                                     *)

\* Rows and columns are matched one to one, and tightly.
LEMMA MatchedOneToOne ==
    ASSUME CertInv, at = "done"
    PROVE  /\ rowToCol \in [Rows -> Cols]
           /\ \A r \in Rows : p[rowToCol[r]] = r
           /\ \A r \in Rows : c(r, rowToCol[r]) = u[r] + v[rowToCol[r]]
  <1>1. TypeOK /\ ProblemOK /\ Matched(Cols, i - 1) /\ i = n + 1
    BY DEF CertInv
  <1>2. i - 1 = n
    BY <1>1, Sizes
  <1>3. \A r \in Rows : \E j \in Cols : p[j] = r
    BY <1>1, <1>2 DEF Matched, Rows
  <1>4. \A r \in Rows : (CHOOSE j \in Cols : p[j] = r) \in Cols /\ p[CHOOSE j \in Cols : p[j] = r] = r
    BY <1>3
  <1>5. rowToCol \in [Rows -> Cols] /\ \A r \in Rows : p[rowToCol[r]] = r
    BY <1>4 DEF rowToCol
  <1>6. ASSUME NEW r \in Rows PROVE c(r, rowToCol[r]) = u[r] + v[rowToCol[r]]
    <2>1. rowToCol[r] \in Cols /\ p[rowToCol[r]] = r
      BY <1>5
    <2>2. Reduced(r, rowToCol[r]) = 0
      BY <1>1, <2>1, Numbers DEF Matched, Tight
    <2>3. c(r, rowToCol[r]) \in Int /\ u[r] \in Int /\ v[rowToCol[r]] \in Int
      BY <1>1, <2>1, Numbers, Costs, BigIsBig
    <2> QED BY <2>2, <2>3 DEF Reduced
  <1> QED BY <1>5, <1>6

\* No driver is given to two riders, and riders without a driver are matched with
\* padding.
LEMMA ReadBack ==
    ASSUME CertInv, at = "done"
    PROVE  /\ RiderToDriver \in Assignments(cost, nD)
           /\ \A r \in Riders(cost) :
                 RiderToDriver[r] = IF rowToCol[r] \in 1..nD THEN rowToCol[r] ELSE 0
  <1>1. TypeOK /\ ProblemOK
    BY DEF CertInv
  <1>2. /\ n \in Nat \ {0} /\ nR \in Nat \ {0} /\ nD \in Nat \ {0} /\ nR <= n
        /\ Riders(cost) = 1..nR
    BY <1>1, Sizes DEF ProblemOK
  <1>3. \A r \in Rows : rowToCol[r] \in Cols /\ p[rowToCol[r]] = r
    BY MatchedOneToOne
  <1>4. \A r \in Riders(cost) : r \in Rows /\ r \in 1..nR
    BY <1>2 DEF Rows
  <1>5. ASSUME NEW r \in Riders(cost)
        PROVE  RiderToDriver[r] = IF rowToCol[r] \in 1..nD THEN rowToCol[r] ELSE 0
    <2>1. rowToCol[r] \in 1..n
      BY <1>3, <1>4 DEF Cols
    <2>2. rowToCol[r] <= nD <=> rowToCol[r] \in 1..nD
      BY <1>2, <2>1
    <2>3. rowToCol[r] \in 1..nD => cost[r][rowToCol[r]] \in 0..MaxCost
      BY <1>1, <1>4 DEF ProblemOK
    <2>4. rowToCol[r] \in 1..nD => cost[r][rowToCol[r]] < Big
      BY <2>3, BigIsBig
    <2> QED BY <2>2, <2>4 DEF RiderToDriver
  <1>6. RiderToDriver \in [Riders(cost) -> 0..nD]
    <2>1. \A r \in Riders(cost) : RiderToDriver[r] \in 0..nD
      BY <1>2, <1>5
    <2>2. RiderToDriver = [r \in Riders(cost) |-> RiderToDriver[r]]
      BY DEF RiderToDriver
    <2> HIDE DEF RiderToDriver
    <2> QED BY <2>1, <2>2
  <1>7. ASSUME NEW r \in Riders(cost), NEW s \in Riders(cost),
               RiderToDriver[r] = RiderToDriver[s], RiderToDriver[r] # 0
        PROVE  r = s
    <2>1. rowToCol[r] = rowToCol[s]
      BY <1>5, <1>7
    <2> QED BY <1>3, <1>4, <2>1
  <1> QED BY <1>5, <1>6, <1>7 DEF Assignments

\* Matching rows and columns one to one, no column is left out.
LEMMA AllColumns ==
    ASSUME ProblemOK, NEW m \in [Rows -> Cols], \A r, s \in Rows : m[r] = m[s] => r = s
    PROVE  \A j \in Cols : \E r \in Rows : m[r] = j
  <1>1. n \in Nat
    BY Sizes
  <1>2. IsFiniteSet(Rows) /\ IsFiniteSet(Cols) /\ Cardinality(Rows) = Cardinality(Cols)
    BY <1>1, FS_Interval DEF Rows, Cols
  <1>3. m \in Injection(Rows, Cols)
    BY DEF Injection, IsInjective
  <1>4. m \in Surjection(Rows, Cols)
    BY <1>2, <1>3, FS_Injection
  <1> QED BY <1>4 DEF Surjection

\* Weak duality: matching everybody costs at least what the potentials promise ...
LEMMA PotentialsPromise ==
    ASSUME TypeOK, ProblemOK, Feasible,
           NEW m \in [Rows -> Cols], \A r, s \in Rows : m[r] = m[s] => r = s
    PROVE  /\ Sum(u, Rows) + Sum(v, Cols) <= Sum([r \in Rows |-> c(r, m[r])], Rows)
           /\ (\A r \in Rows : c(r, m[r]) = u[r] + v[m[r]]) =>
                 Sum(u, Rows) + Sum(v, Cols) = Sum([r \in Rows |-> c(r, m[r])], Rows)
  <1> DEFINE whole == [r \in Rows |-> c(r, m[r])]
             promise == [r \in Rows |-> u[r] + v[m[r]]]
             part == [r \in Rows |-> v[m[r]]]
  <1>1. IsFiniteSet(Rows)
    BY Sizes, FS_Interval DEF Rows
  <1>2. ASSUME NEW r \in Rows
        PROVE  /\ u[r] \in Int /\ v[m[r]] \in Int /\ c(r, m[r]) \in Int
               /\ u[r] + v[m[r]] \in Int /\ u[r] + v[m[r]] <= c(r, m[r])
    <2>1. m[r] \in Cols
      OBVIOUS
    <2>2. Reduced(r, m[r]) >= 0 /\ Reduced(r, m[r]) = c(r, m[r]) - u[r] - v[m[r]]
      BY <2>1, Numbers DEF Feasible
    <2>3. u[r] \in Int /\ v[m[r]] \in Int /\ c(r, m[r]) \in Int
      BY <2>1, Numbers, Costs, BigIsBig
    <2> QED BY <2>2, <2>3
  <1>3. Sum(promise, Rows) = Sum(u, Rows) + Sum(part, Rows)
    <2>1. \A r \in Rows : u[r] \in Int /\ part[r] \in Int /\ promise[r] = u[r] + part[r]
      BY <1>2
    <2> HIDE DEF promise, part
    <2> QED BY <1>1, <2>1, SumPlus
  <1>4. Sum(part, Rows) = Sum(v, Cols)
    <2>1. \A r \in Rows : v[m[r]] \in Int /\ part[r] = v[m[r]]
      BY <1>2
    <2> HIDE DEF part
    <2>2. \A j \in Cols : \E r \in Rows : m[r] = j
      BY AllColumns
    <2> QED BY <1>1, <2>1, <2>2, SumRenamed
  <1>5. Sum(promise, Rows) <= Sum(whole, Rows)
    <2>1. \A r \in Rows : promise[r] \in Int /\ whole[r] \in Int /\ promise[r] <= whole[r]
      BY <1>2
    <2> HIDE DEF promise, whole
    <2> QED BY <1>1, <2>1, SumAtMost
  <1>6. ASSUME \A r \in Rows : c(r, m[r]) = u[r] + v[m[r]]
        PROVE  Sum(promise, Rows) = Sum(whole, Rows)
    <2>1. promise = whole
      BY <1>6
    <2> QED BY <2>1
  <1> HIDE DEF promise, part
  <1> QED BY <1>3, <1>4, <1>5, <1>6

\* m matches the rows of the square with its columns, as f does where f serves, and
\* with padding elsewhere.
Completes(m, f) ==
    /\ m \in [Rows -> Cols] /\ \A r, s \in Rows : m[r] = m[s] => r = s
    /\ \A r \in Rows : c(r, m[r]) = IF r \in Served(f) THEN cost[r][f[r]] ELSE Big

\* An assignment serves no more riders than there are, and no more than drivers.
LEMMA ServedSize ==
    ASSUME ProblemOK, NEW f \in Assignments(cost, nD)
    PROVE  /\ Served(f) \subseteq Riders(cost) /\ Riders(cost) \subseteq Rows
           /\ IsFiniteSet(Served(f)) /\ IsFiniteSet(Riders(cost)) /\ IsFiniteSet(Rows)
           /\ Cardinality(Rows) = n /\ Cardinality(Riders(cost)) = nR
           /\ Cardinality(Served(f)) \in 0..nR /\ Cardinality(Served(f)) <= nD
           /\ \A r \in Riders(cost) : f[r] \in 0..nD /\ (r \in Served(f) <=> f[r] # 0)
           /\ \A r \in Served(f) : f[r] \in 1..nD
           /\ \A r, s \in Served(f) : f[r] = f[s] => r = s
  <1>1. /\ f \in [Riders(cost) -> 0..nD]
        /\ \A r, s \in Riders(cost) : f[r] = f[s] /\ f[r] # 0 => r = s
    BY DEF Assignments
  <1>2. /\ n \in Nat \ {0} /\ nR \in Nat \ {0} /\ nD \in Nat \ {0} /\ nR <= n
        /\ Riders(cost) = 1..nR
    BY Sizes DEF ProblemOK
  <1>3. Served(f) \subseteq Riders(cost) /\ Riders(cost) \subseteq Rows
    BY <1>1, <1>2 DEF Served, Rows
  <1>4. \A r \in Riders(cost) : f[r] \in 0..nD /\ (r \in Served(f) <=> f[r] # 0)
    BY <1>1 DEF Served
  <1>5. /\ \A r \in Served(f) : f[r] \in 1..nD
        /\ \A r, s \in Served(f) : f[r] = f[s] => r = s
    <2>1. \A r \in Served(f) : f[r] \in 0..nD /\ f[r] # 0
      BY <1>3, <1>4
    <2>2. \A k \in 0..nD : k # 0 => k \in 1..nD
      BY <1>2
    <2> QED BY <1>1, <1>3, <2>1, <2>2
  <1>6. /\ IsFiniteSet(Riders(cost)) /\ Cardinality(Riders(cost)) = nR
        /\ IsFiniteSet(Rows) /\ Cardinality(Rows) = n
        /\ IsFiniteSet(1..nD) /\ Cardinality(1..nD) = nD
    BY <1>2, FS_Interval DEF Rows
  <1>7. IsFiniteSet(Served(f)) /\ Cardinality(Served(f)) <= nR
    BY <1>3, <1>6, FS_Subset
  <1>8. Cardinality(Served(f)) <= nD
    <2> DEFINE g == [r \in Served(f) |-> f[r]]
    <2>1. g \in Injection(Served(f), 1..nD)
      <3>1. g \in [Served(f) -> 1..nD] /\ \A r, s \in Served(f) : g[r] = g[s] => r = s
        BY <1>5
      <3> HIDE DEF g
      <3> QED BY <3>1 DEF Injection, IsInjective
    <2> HIDE DEF g
    <2> QED BY <1>6, <2>1, FS_Injection
  <1>9. Cardinality(Served(f)) \in 0..nR
    BY <1>2, <1>7, FS_CardinalityType
  <1> QED BY <1>3, <1>4, <1>5, <1>6, <1>7, <1>8, <1>9

\* The square costs what the assignment does, and padding for the rows it leaves.
LEMMA PaddedCost ==
    ASSUME ProblemOK, NEW f \in Assignments(cost, nD), NEW m, Completes(m, f)
    PROVE  /\ TotalCost(cost, f) \in Int
           /\ Sum([r \in Rows |-> c(r, m[r])], Rows)
                 = TotalCost(cost, f) + Big * (n - Cardinality(Served(f)))
  <1> DEFINE A == Served(f)
             whole == [r \in Rows |-> c(r, m[r])]
             real == [r \in Rows |-> IF r \in A THEN cost[r][f[r]] ELSE 0]
             pad == [r \in Rows |-> IF r \in Rows \ A THEN Big ELSE 0]
             terms == [r \in Riders(cost) |-> IF f[r] = 0 THEN 0 ELSE cost[r][f[r]]]
  <1>1. /\ A \subseteq Riders(cost) /\ Riders(cost) \subseteq Rows
        /\ IsFiniteSet(A) /\ IsFiniteSet(Riders(cost)) /\ IsFiniteSet(Rows)
        /\ Cardinality(Rows) = n
        /\ \A r \in Riders(cost) : r \in A <=> f[r] # 0
        /\ \A r \in A : f[r] \in 1..nD
    BY ServedSize
  <1>2. Big \in Nat /\ MaxCost \in Nat /\ n \in Nat
    BY BigIsBig, Sizes
  <1>3. \A r \in A : cost[r][f[r]] \in Int
    <2> SUFFICES ASSUME NEW r \in A PROVE cost[r][f[r]] \in Int
      OBVIOUS
    <2>1. r \in 1..nR /\ f[r] \in 1..nD
      BY <1>1 DEF ProblemOK
    <2>2. cost[r][f[r]] \in 0..MaxCost
      BY <2>1 DEF ProblemOK
    <2> QED BY <1>2, <2>2
  <1>4. \A r \in Rows : real[r] \in Int /\ pad[r] \in Int /\ whole[r] = real[r] + pad[r]
    <2> SUFFICES ASSUME NEW r \in Rows
                 PROVE  real[r] \in Int /\ pad[r] \in Int /\ whole[r] = real[r] + pad[r]
      OBVIOUS
    <2>1. CASE r \in A
      <3>1. real[r] = cost[r][f[r]] /\ pad[r] = 0 /\ whole[r] = cost[r][f[r]]
        BY <2>1 DEF Completes
      <3> QED BY <1>3, <2>1, <3>1
    <2>2. CASE r \notin A
      <3>1. real[r] = 0 /\ pad[r] = Big /\ whole[r] = Big
        BY <2>2 DEF Completes
      <3> QED BY <1>2, <3>1
    <2> QED BY <2>1, <2>2
  <1>5. Sum(whole, Rows) = Sum(real, Rows) + Sum(pad, Rows)
    <2> HIDE DEF whole, real, pad
    <2> QED BY <1>1, <1>4, SumPlus
  <1>6. Sum(pad, Rows) = Big * (n - Cardinality(A))
    <2>1. Cardinality(Rows \ A) = n - Cardinality(A)
      <3>1. Rows \intersect A = A
        BY <1>1
      <3> HIDE DEF A
      <3> QED BY <1>1, <3>1, FS_Difference
    <2>2. Rows \ A \in SUBSET Rows /\ \A r \in Rows : pad[r] = IF r \in Rows \ A THEN Big ELSE 0
      OBVIOUS
    <2>3. Big \in Int
      BY <1>2
    <2> HIDE DEF pad, A
    <2>4. Sum(pad, Rows) = Big * Cardinality(Rows \ A)
      BY <1>1, <2>2, <2>3, SumTimes
    <2> QED BY <2>1, <2>4
  <1>7. Sum(real, Rows) = Sum(real, Riders(cost))
    <2>1. \A r \in Rows \ Riders(cost) : real[r] = 0
      BY <1>1
    <2> HIDE DEF real, whole, pad
    <2> QED BY <1>1, <1>4, <2>1, SumSparse
  <1>8. Sum(real, Riders(cost)) = Sum(terms, Riders(cost))
    <2>1. \A r \in Riders(cost) : terms[r] = real[r] /\ real[r] \in Int
      <3> SUFFICES ASSUME NEW r \in Riders(cost) PROVE terms[r] = real[r] /\ real[r] \in Int
        OBVIOUS
      <3>1. terms[r] = IF f[r] = 0 THEN 0 ELSE cost[r][f[r]]
        OBVIOUS
      <3>2. real[r] = IF r \in A THEN cost[r][f[r]] ELSE 0
        BY <1>1
      <3>3. r \in Rows /\ (r \in A <=> f[r] # 0)
        BY <1>1
      <3> HIDE DEF terms, A
      <3>4. terms[r] = real[r]
        BY <3>1, <3>2, <3>3
      <3> QED BY <1>4, <3>3, <3>4
    <2> HIDE DEF real, terms
    <2> QED BY <1>1, <2>1, SumSame
  <1>9. TotalCost(cost, f) = Sum(terms, Riders(cost))
    <2>1. TotalCost(cost, f) = SumFunction(terms) /\ DOMAIN terms = Riders(cost)
      BY DEF TotalCost
    <2> HIDE DEF terms
    <2> QED BY <2>1, SumOfFunction
  <1>10. Sum(real, Rows) \in Int
    <2> HIDE DEF real, whole, pad
    <2> QED BY <1>1, <1>4, SumInt
  <1> HIDE DEF real, whole, pad, terms, A
  <1>11. TotalCost(cost, f) = Sum(real, Rows)
    BY <1>7, <1>8, <1>9
  <1>12. Sum(whole, Rows) = TotalCost(cost, f) + Big * (n - Cardinality(A))
    BY <1>5, <1>6, <1>11
  <1> QED BY <1>10, <1>11, <1>12 DEF whole, A

\* An assignment that leaves no rider or no driver over can be completed with padding.
LEMMA CanComplete ==
    ASSUME ProblemOK, NEW f \in Assignments(cost, nD),
           Cardinality(Served(f)) = nR \/ Cardinality(Served(f)) = nD
    PROVE  \E m : Completes(m, f)
  <1> DEFINE A == Served(f)
             D == {f[r] : r \in A}
             g == [r \in A |-> f[r]]
  <1>1. /\ A \subseteq Riders(cost) /\ Riders(cost) \subseteq Rows
        /\ IsFiniteSet(A) /\ IsFiniteSet(Riders(cost)) /\ IsFiniteSet(Rows)
        /\ Cardinality(Rows) = n /\ Cardinality(Riders(cost)) = nR
        /\ \A r \in A : f[r] \in 1..nD
        /\ \A r, s \in A : f[r] = f[s] => r = s
    BY ServedSize
  <1>2. /\ n \in Nat /\ nR \in Nat /\ nD \in Nat /\ nD <= n /\ nR <= n
        /\ Riders(cost) = 1..nR
    BY Sizes DEF ProblemOK
  <1>3. /\ IsFiniteSet(1..nD) /\ Cardinality(1..nD) = nD
        /\ IsFiniteSet(Cols) /\ Cardinality(Cols) = n
    BY <1>2, FS_Interval DEF Cols
  <1>4. D \subseteq 1..nD /\ 1..nD \subseteq Cols /\ D \subseteq Cols
    BY <1>1, <1>2 DEF Cols
  <1>5. Cardinality(D) = Cardinality(A)
    <2>1. g \in [A -> D] /\ (\A r, s \in A : g[r] = g[s] => r = s) /\ \A d \in D : \E r \in A : g[r] = d
      BY <1>1
    <2>2. IsFiniteSet(D)
      BY <1>3, <1>4, FS_Subset
    <2> HIDE DEF g, D, A
    <2>3. g \in Injection(A, D) /\ g \in Surjection(A, D)
      BY <2>1 DEF Injection, IsInjective, Surjection
    <2> QED BY <2>2, <2>3, FS_Injection
  <1>6. /\ IsFiniteSet(Rows \ A) /\ IsFiniteSet(Cols \ D)
        /\ Cardinality(Rows \ A) = Cardinality(Cols \ D)
    <2>1. Rows \intersect A = A /\ Cols \intersect D = D
      BY <1>1, <1>4
    <2> HIDE DEF A, D
    <2>2. IsFiniteSet(Rows \ A) /\ IsFiniteSet(Cols \ D)
      BY <1>1, <1>3, FS_Difference
    <2>3. Cardinality(Rows \ A) = Cardinality(Rows) - Cardinality(Rows \intersect A)
      BY <1>1, FS_Difference
    <2>4. Cardinality(Cols \ D) = Cardinality(Cols) - Cardinality(Cols \intersect D)
      BY <1>3, FS_Difference
    <2> QED BY <1>1, <1>3, <1>5, <2>1, <2>2, <2>3, <2>4
  <1>7. PICK b \in Bijection(Rows \ A, Cols \ D) : TRUE
    <2> HIDE DEF A, D
    <2>1. ExistsBijection(Rows \ A, Cols \ D)
      BY <1>6, FS_SameCardinalityBij
    <2> QED BY <2>1 DEF ExistsBijection
  <1>8. /\ \A r \in Rows \ A : b[r] \in Cols /\ b[r] \notin D
        /\ \A r, s \in Rows \ A : b[r] = b[s] => r = s
    <2> HIDE DEF A, D
    <2> QED BY <1>7 DEF Bijection, Injection, IsInjective
  <1> DEFINE m == [r \in Rows |-> IF r \in A THEN f[r] ELSE b[r]]
  <1>9. m \in [Rows -> Cols]
    <2> HIDE DEF A
    <2>1. \A r \in A : f[r] \in Cols
      BY <1>1, <1>4
    <2> QED BY <1>8, <2>1
  <1>10. ASSUME NEW r \in Rows, NEW s \in Rows, m[r] = m[s] PROVE r = s
    <2>1. \A x \in A : f[x] \in D
      OBVIOUS
    <2>2. /\ m[r] = (IF r \in A THEN f[r] ELSE b[r])
          /\ m[s] = (IF s \in A THEN f[s] ELSE b[s])
      OBVIOUS
    <2> HIDE DEF A, D, m
    <2> QED BY <1>1, <1>8, <1>10, <2>1, <2>2
  <1>11. ASSUME NEW r \in Rows
         PROVE  c(r, m[r]) = IF r \in A THEN cost[r][f[r]] ELSE Big
    <2>1. CASE r \in A
      <3>1. r \in 1..nR /\ f[r] \in 1..nD /\ m[r] = f[r]
        BY <1>1, <1>2, <2>1
      <3>2. r <= nR /\ m[r] <= nD
        BY <1>2, <3>1
      <3> QED BY <2>1, <3>1, <3>2 DEF c
    <2>2. CASE r \notin A
      <3>1. m[r] = b[r] /\ b[r] \in Cols /\ b[r] \notin D
        BY <1>8, <2>2
      <3>2. ~ (r <= nR /\ b[r] <= nD)
        <4> SUFFICES ASSUME r <= nR, b[r] <= nD PROVE FALSE
          OBVIOUS
        <4>1. r \in Riders(cost) /\ b[r] \in 1..nD
          <5>1. r \in 1..n /\ b[r] \in 1..n
            BY <3>1 DEF Rows, Cols
          <5> QED BY <1>2, <5>1
        <4>2. A # Riders(cost) /\ D # 1..nD
          BY <2>2, <3>1, <4>1
        <4> HIDE DEF A, D
        <4>3. Cardinality(A) # nR /\ Cardinality(D) # nD
          BY <1>1, <1>3, <1>4, <4>2, FS_Subset
        <4> QED BY <1>5, <4>3 DEF A
      <3> QED BY <2>2, <3>1, <3>2 DEF c
    <2> QED BY <2>1, <2>2
  <1>12. Completes(m, f)
    <2> HIDE DEF m
    <2> QED BY <1>9, <1>10, <1>11 DEF Completes
  <1> QED BY <1>12

\* The matching completes the result, which leaves no rider or no driver over.
LEMMA ResultIsFull ==
    ASSUME CertInv, at = "done"
    PROVE  /\ Completes(rowToCol, RiderToDriver)
           /\ \/ Cardinality(Served(RiderToDriver)) = nR
              \/ Cardinality(Served(RiderToDriver)) = nD
  <1> DEFINE B == RiderToDriver
             A == Served(B)
  <1>1. ProblemOK
    BY DEF CertInv
  <1>2. /\ B \in Assignments(cost, nD)
        /\ \A r \in Riders(cost) : B[r] = IF rowToCol[r] \in 1..nD THEN rowToCol[r] ELSE 0
    BY ReadBack
  <1>3. /\ rowToCol \in [Rows -> Cols]
        /\ \A r, s \in Rows : rowToCol[r] = rowToCol[s] => r = s
    <2>1. /\ rowToCol \in [Rows -> Cols]
          /\ \A r \in Rows : p[rowToCol[r]] = r
      BY MatchedOneToOne
    <2> HIDE DEF rowToCol
    <2> QED BY <2>1
  <1> HIDE DEF B
  <1>4. /\ A \subseteq Riders(cost) /\ Riders(cost) \subseteq Rows
        /\ IsFiniteSet(A) /\ IsFiniteSet(Riders(cost))
        /\ Cardinality(Riders(cost)) = nR
        /\ \A r \in Riders(cost) : r \in A <=> B[r] # 0
        /\ \A r \in A : B[r] \in 1..nD
        /\ \A r, s \in A : B[r] = B[s] => r = s
    BY <1>1, <1>2, ServedSize
  <1>5. /\ n \in Nat /\ nR \in Nat /\ nD \in Nat /\ nD <= n /\ nR <= n
        /\ Riders(cost) = 1..nR
    BY <1>1, Sizes DEF ProblemOK
  <1>6. \A r \in Riders(cost) : /\ r \in A <=> rowToCol[r] \in 1..nD
                                /\ r \in A => B[r] = rowToCol[r]
    BY <1>2, <1>4, <1>5
  <1> HIDE DEF A
  <1>7. ASSUME NEW r \in Rows
        PROVE  c(r, rowToCol[r]) = IF r \in A THEN cost[r][B[r]] ELSE Big
    <2>1. r \in 1..n /\ rowToCol[r] \in 1..n
      BY <1>3 DEF Rows, Cols
    <2>2. (r <= nR /\ rowToCol[r] <= nD) <=> r \in A
      <3>1. r <= nR <=> r \in Riders(cost)
        BY <1>5, <2>1
      <3>2. rowToCol[r] <= nD <=> rowToCol[r] \in 1..nD
        BY <1>5, <2>1
      <3> QED BY <1>4, <1>6, <3>1, <3>2
    <2>3. r \in A => B[r] = rowToCol[r]
      BY <1>4, <1>6
    <2> HIDE DEF rowToCol
    <2> QED BY <2>2, <2>3 DEF c
  <1>8. Completes(rowToCol, B)
    BY <1>3, <1>7 DEF Completes, A
  <1>9. CASE nR <= nD
    <2>1. n = nD
      BY <1>5, <1>9 DEF n
    <2>2. \A r \in Riders(cost) : rowToCol[r] \in 1..nD
      BY <1>3, <1>4, <2>1 DEF Cols
    <2>3. A = Riders(cost)
      BY <1>4, <1>6, <2>2
    <2> QED BY <1>4, <1>8, <2>3 DEF A, B
  <1>10. CASE ~ (nR <= nD)
    <2>1. n = nR
      BY <1>5, <1>10 DEF n
    <2>2. Rows = Riders(cost)
      BY <1>5, <2>1 DEF Rows
    <2>3. \A j \in 1..nD : \E r \in A : B[r] = j
      <3> SUFFICES ASSUME NEW j \in 1..nD PROVE \E r \in A : B[r] = j
        OBVIOUS
      <3>1. j \in Cols
        BY <1>5 DEF Cols
      <3>2. PICK r \in Rows : rowToCol[r] = j
        <4> HIDE DEF rowToCol
        <4> QED BY <1>1, <1>3, <3>1, AllColumns
      <3> QED BY <1>6, <2>2, <3>2
    <2> DEFINE g == [r \in A |-> B[r]]
    <2>4. g \in Injection(A, 1..nD) /\ g \in Surjection(A, 1..nD)
      <3>1. /\ g \in [A -> 1..nD] /\ \A r, s \in A : g[r] = g[s] => r = s
            /\ \A j \in 1..nD : \E r \in A : g[r] = j
        BY <1>4, <2>3
      <3> HIDE DEF g
      <3> QED BY <3>1 DEF Injection, IsInjective, Surjection
    <2>5. IsFiniteSet(1..nD) /\ Cardinality(1..nD) = nD
      BY <1>5, FS_Interval
    <2> HIDE DEF g
    <2>6. Cardinality(A) = nD
      BY <2>4, <2>5, FS_Injection
    <2> QED BY <1>8, <2>6 DEF A, B
  <1> QED BY <1>9, <1>10

\* Optimal serves as many riders as possible at the least total distance, for every
\* size of batch, more riders than drivers or fewer, and all distances that
\* the padding exceeds.
THEOREM OptimalReturnsBest == Spec => []ReturnsBest
  <1>1. CertInv => ReturnsBest
    <2> DEFINE B == RiderToDriver
               k == Cardinality(Served(B))
               promise == Sum(u, Rows) + Sum(v, Cols)
               price(m) == Sum([r \in Rows |-> c(r, m[r])], Rows)
    <2> SUFFICES ASSUME CertInv, at = "done" PROVE B \in Best(cost, nD)
      BY DEF ReturnsBest
    <2>1. TypeOK /\ ProblemOK /\ Feasible /\ B \in Assignments(cost, nD)
      BY ReadBack DEF CertInv
    <2>2. Completes(rowToCol, B) /\ (k = nR \/ k = nD)
      BY ResultIsFull
    <2>3. \A r \in Rows : c(r, rowToCol[r]) = u[r] + v[rowToCol[r]]
      BY MatchedOneToOne
    <2> HIDE DEF B
    <2>4. /\ k \in Int /\ nR \in Int /\ nD \in Int
          /\ \A g \in Assignments(cost, nD) :
                /\ Cardinality(Served(g)) <= nR /\ Cardinality(Served(g)) <= nD
                /\ Cardinality(Served(g)) \in Int
      <3>1. nR \in Nat /\ nD \in Nat
        BY <2>1, Sizes
      <3>2. \A g \in Assignments(cost, nD) :
               Cardinality(Served(g)) \in 0..nR /\ Cardinality(Served(g)) <= nD
        BY <2>1, ServedSize
      <3> QED BY <2>1, <3>1, <3>2
    <2>5. promise = price(rowToCol)
      <3>1. rowToCol \in [Rows -> Cols] /\ \A r, s \in Rows : rowToCol[r] = rowToCol[s] => r = s
        BY <2>2 DEF Completes
      <3> HIDE DEF rowToCol
      <3> QED BY <2>1, <2>3, <3>1, PotentialsPromise
    <2>6. /\ TotalCost(cost, B) \in Int
          /\ price(rowToCol) = TotalCost(cost, B) + Big * (n - k)
      <3> HIDE DEF rowToCol
      <3> QED BY <2>1, <2>2, PaddedCost
    <2>7. B \in Fullest(cost, nD)
      <3>1. \A g \in Assignments(cost, nD) : Cardinality(Served(g)) <= k
        BY <2>2, <2>4
      <3> QED BY <2>1, <3>1 DEF Fullest
    <2>8. ASSUME NEW g \in Fullest(cost, nD)
          PROVE  TotalCost(cost, B) <= TotalCost(cost, g)
      <3>1. g \in Assignments(cost, nD) /\ Cardinality(Served(g)) = k
        <4>1. g \in Assignments(cost, nD) /\ k <= Cardinality(Served(g))
          BY <2>1 DEF Fullest
        <4>2. Cardinality(Served(g)) <= k
          BY <2>7, <4>1 DEF Fullest
        <4> HIDE DEF k
        <4> QED BY <2>4, <4>1, <4>2
      <3>2. PICK m : Completes(m, g)
        <4>1. Cardinality(Served(g)) = nR \/ Cardinality(Served(g)) = nD
          BY <2>2, <3>1
        <4> QED BY <2>1, <3>1, <4>1, CanComplete
      <3>3. promise <= price(m)
        <4>1. m \in [Rows -> Cols] /\ \A r, s \in Rows : m[r] = m[s] => r = s
          BY <3>2 DEF Completes
        <4> QED BY <2>1, <4>1, PotentialsPromise
      <3>4. TotalCost(cost, g) \in Int /\ price(m) = TotalCost(cost, g) + Big * (n - k)
        BY <2>1, <3>1, <3>2, PaddedCost
      <3>5. Big * (n - k) \in Int
        BY <2>1, <2>4, BigIsBig, Sizes
      <3> HIDE DEF promise, price, k
      <3> QED BY <2>5, <2>6, <3>3, <3>4, <3>5
    <2> QED BY <2>7, <2>8 DEF Best
  <1> QED BY <1>1, CertInvHolds, PTL

-------------------------------------------------------------------------------
(* Greedy, against which the tests of internal/match measure Optimal.        *)

\* The inner loop of Greedy finds a driver if one is free, and none is nearer.
LEMMA NearestIsFree ==
    ASSUME NEW m \in Nat, NEW row \in [1..m -> Nat], NEW taken
    PROVE  /\ Nearest(row, m, taken) \in 0..m
           /\ Nearest(row, m, taken) = 0 => 1..m \subseteq taken
           /\ Nearest(row, m, taken) # 0 =>
                 /\ Nearest(row, m, taken) \notin taken
                 /\ \A k \in (1..m) \ taken : row[Nearest(row, m, taken)] <= row[k]
  <1> DEFINE free == (1..m) \ taken
             near == {j \in free : \A k \in free : row[j] <= row[k]}
  <1>1. Nearest(row, m, taken) = IF free = {} THEN 0 ELSE Min(near)
    BY DEF Nearest
  <1>2. CASE free = {}
    BY <1>1, <1>2
  <1>3. CASE free # {}
    <2>1. near # {}
      <3> DEFINE dist == {row[j] : j \in free}
      <3>1. dist \in SUBSET Nat /\ dist # {}
        BY <1>3
      <3>2. PICK x \in dist : \A y \in dist : x <= y
        <4> HIDE DEF dist
        <4> QED BY <3>1, LeastOfNaturals
      <3>3. PICK j \in free : row[j] = x
        OBVIOUS
      <3>4. \A k \in free : row[j] <= row[k]
        BY <3>2, <3>3
      <3> QED BY <3>3, <3>4
    <2>2. near \in SUBSET Nat
      OBVIOUS
    <2>3. \E x \in near : \A y \in near : x <= y
      <3> HIDE DEF near
      <3> QED BY <2>1, <2>2, LeastOfNaturals
    <2>4. Min(near) \in near
      <3> HIDE DEF near
      <3> QED BY <2>3 DEF Min
    <2>5. PICK j \in near : Nearest(row, m, taken) = j
      <3> HIDE DEF near
      <3> QED BY <1>1, <1>3, <2>4
    <2>6. j \in 0..m /\ j # 0 /\ j \notin taken /\ \A k \in (1..m) \ taken : row[j] <= row[k]
      OBVIOUS
    <2> HIDE DEF near
    <2> QED BY <2>5, <2>6
  <1> QED BY <1>2, <1>3

\* What rider r gets if those before got what h says.
Turn(h, r) == Nearest(cost[r], nD, {h[s] : s \in 1..(r - 1)})

\* The outer loop of Greedy: each rider has its turn.
LEMMA GreedyTurns ==
    ASSUME ProblemOK
    PROVE  /\ Greedy(cost, nD) \in [1..nR -> 0..nD]
           /\ \A r \in 1..nR : Greedy(cost, nD)[r] = Turn(Greedy(cost, nD), r)
  <1>1. nR \in Nat /\ nD \in Nat /\ Riders(cost) = 1..nR
    BY Sizes DEF ProblemOK
  <1>2. ASSUME NEW h, NEW r \in 1..nR PROVE Turn(h, r) \in 0..nD
    <2>1. cost[r] \in [1..nD -> Nat]
      BY BigIsBig DEF ProblemOK
    <2> QED BY <1>1, <2>1, NearestIsFree DEF Turn
  <1> DEFINE Upto(k) == \E h \in [1..k -> 0..nD] : \A r \in 1..k : h[r] = Turn(h, r)
             bad == {k \in 0..nR : ~Upto(k)}
  <1>3. bad = {}
    <2> SUFFICES ASSUME bad # {} PROVE FALSE
      OBVIOUS
    <2>1. bad \in SUBSET Nat
      BY <1>1
    <2>2. PICK k \in bad : \A l \in bad : k <= l
      <3> HIDE DEF bad
      <3> QED BY <2>1, LeastOfNaturals
    <2>3. k # 0
      <3>1. Upto(0)
        <4>1. 1..0 = {}
          OBVIOUS
        <4>2. [r \in 1..0 |-> 0] \in [1..0 -> 0..nD]
          BY <4>1
        <4> QED BY <4>1, <4>2
      <3> HIDE DEF Upto
      <3> QED BY <3>1
    <2>4. k \in 1..nR /\ k - 1 \in 0..nR /\ ~(k <= k - 1)
      BY <1>1, <2>3
    <2>5. Upto(k - 1)
      <3> HIDE DEF Upto
      <3> QED BY <2>2, <2>4
    <2>6. PICK h \in [1..(k - 1) -> 0..nD] : \A r \in 1..(k - 1) : h[r] = Turn(h, r)
      BY <2>5
    <2> DEFINE g == [r \in 1..k |-> IF r = k THEN Turn(h, k) ELSE h[r]]
    <2>7. \A r \in 1..k : r # k => r \in 1..(k - 1)
      BY <2>4
    <2>8. g \in [1..k -> 0..nD]
      BY <1>2, <2>4, <2>6, <2>7
    <2>9. ASSUME NEW r \in 1..k PROVE Turn(g, r) = Turn(h, r)
      <3>1. \A s \in 1..(r - 1) : s \in 1..k /\ s # k
        BY <2>4
      <3>2. \A s \in 1..(r - 1) : g[s] = h[s]
        BY <3>1
      <3>3. {g[s] : s \in 1..(r - 1)} = {h[s] : s \in 1..(r - 1)}
        <4> HIDE DEF g
        <4> QED BY <3>2
      <3> HIDE DEF g
      <3> QED BY <3>3 DEF Turn
    <2>10. \A r \in 1..k : g[r] = Turn(g, r)
      BY <2>6, <2>7, <2>9
    <2>11. Upto(k)
      <3> HIDE DEF g
      <3> QED BY <2>8, <2>10
    <2> HIDE DEF Upto
    <2> QED BY <2>11
  <1>4. PICK h \in [1..nR -> 0..nD] : \A r \in 1..nR : h[r] = Turn(h, r)
    <2>1. Upto(nR)
      <3> HIDE DEF Upto
      <3> QED BY <1>1, <1>3
    <2> QED BY <2>1
  <1>5. h = [r \in Riders(cost) |-> Nearest(cost[r], nD, {h[s] : s \in 1..(r - 1)})]
    BY <1>1, <1>4 DEF Turn
  <1>6. Greedy(cost, nD) =
           [r \in Riders(cost) |->
               Nearest(cost[r], nD, {Greedy(cost, nD)[s] : s \in 1..(r - 1)})]
    BY <1>5 DEF Greedy
  <1>7. \A r \in 1..nR : Greedy(cost, nD)[r] = Turn(Greedy(cost, nD), r)
    BY <1>1, <1>6 DEF Turn
  <1> QED BY <1>1, <1>2, <1>6, <1>7

\* Nobody goes without while a driver is free, so nobody serves more riders.
LEMMA GreedyIsFullest == ProblemOK => Greedy(cost, nD) \in Fullest(cost, nD)
  <1> DEFINE g == Greedy(cost, nD)
  <1> SUFFICES ASSUME ProblemOK PROVE g \in Fullest(cost, nD)
    OBVIOUS
  <1>1. nR \in Nat /\ nD \in Nat /\ Riders(cost) = 1..nR
    BY Sizes DEF ProblemOK
  <1>2. g \in [1..nR -> 0..nD] /\ \A r \in 1..nR : g[r] = Turn(g, r)
    BY GreedyTurns
  <1> HIDE DEF g
  <1>3. ASSUME NEW r \in 1..nR
        PROVE  /\ g[r] = 0 => \A j \in 1..nD : \E s \in 1..nR : g[s] = j
               /\ g[r] # 0 => \A s \in 1..(r - 1) : g[s] # g[r]
    <2> DEFINE taken == {g[s] : s \in 1..(r - 1)}
    <2>1. cost[r] \in [1..nD -> Nat]
      BY BigIsBig DEF ProblemOK
    <2>2. g[r] = Nearest(cost[r], nD, taken)
      BY <1>2 DEF Turn
    <2>3. 1..(r - 1) \subseteq 1..nR
      BY <1>1
    <2>4. (g[r] = 0 => 1..nD \subseteq taken) /\ (g[r] # 0 => g[r] \notin taken)
      <3> HIDE DEF taken
      <3> QED BY <1>1, <2>1, <2>2, NearestIsFree
    <2> QED BY <2>3, <2>4
  <1>4. ASSUME NEW r \in 1..nR, NEW s \in 1..nR, g[r] = g[s], g[r] # 0 PROVE r = s
    <2>1. ~(r < s)
      <3>1. r < s => r \in 1..(s - 1)
        BY <1>1
      <3> QED BY <1>3, <1>4, <3>1
    <2>2. ~(s < r)
      <3>1. s < r => s \in 1..(r - 1)
        BY <1>1
      <3> QED BY <1>3, <1>4, <3>1
    <2> QED BY <2>1, <2>2
  <1>5. g \in Assignments(cost, nD)
    BY <1>1, <1>2, <1>4 DEF Assignments
  <1> DEFINE A == Served(g)
  <1>6. /\ A \subseteq 1..nR /\ IsFiniteSet(A) /\ Cardinality(Riders(cost)) = nR
        /\ \A r \in 1..nR : r \in A <=> g[r] # 0
        /\ \A r \in A : g[r] \in 1..nD
        /\ \A r, s \in A : g[r] = g[s] => r = s
    BY <1>1, <1>5, ServedSize
  <1>7. Cardinality(A) = nR \/ Cardinality(A) = nD
    <2>1. CASE \A r \in 1..nR : g[r] # 0
      <3>1. A = Riders(cost)
        BY <1>1, <1>6, <2>1
      <3> QED BY <1>6, <3>1
    <2>2. CASE \E r \in 1..nR : g[r] = 0
      <3>1. \A j \in 1..nD : \E r \in A : g[r] = j
        <4> SUFFICES ASSUME NEW j \in 1..nD PROVE \E r \in A : g[r] = j
          OBVIOUS
        <4>1. PICK r \in 1..nR : g[r] = j
          BY <1>3, <2>2
        <4>2. j # 0
          BY <1>1
        <4> QED BY <1>6, <4>1, <4>2
      <3> DEFINE f == [r \in A |-> g[r]]
      <3>2. f \in Injection(A, 1..nD) /\ f \in Surjection(A, 1..nD)
        <4>1. /\ f \in [A -> 1..nD] /\ \A r, s \in A : f[r] = f[s] => r = s
              /\ \A j \in 1..nD : \E r \in A : f[r] = j
          BY <1>6, <3>1
        <4> HIDE DEF f
        <4> QED BY <4>1 DEF Injection, IsInjective, Surjection
      <3>3. IsFiniteSet(1..nD) /\ Cardinality(1..nD) = nD
        BY <1>1, FS_Interval
      <3> HIDE DEF f, A
      <3> QED BY <3>2, <3>3, FS_Injection
    <2> QED BY <2>1, <2>2
  <1>8. \A f \in Assignments(cost, nD) : Cardinality(Served(f)) <= Cardinality(A)
    <2> SUFFICES ASSUME NEW f \in Assignments(cost, nD)
                 PROVE  Cardinality(Served(f)) <= Cardinality(A)
      OBVIOUS
    <2>1. Cardinality(Served(f)) \in 0..nR /\ Cardinality(Served(f)) <= nD
      BY ServedSize
    <2> QED BY <1>1, <1>7, <2>1
  <1> QED BY <1>5, <1>8 DEF Fullest

\* Optimal serves as many riders as Greedy, and its drivers drive no farther.
OptimalNeverWorse ==
    at = "done" =>
        /\ Cardinality(Served(RiderToDriver)) = Cardinality(Served(Greedy(cost, nD)))
        /\ TotalCost(cost, RiderToDriver) <= TotalCost(cost, Greedy(cost, nD))

\* "optimal worse than greedy" (match_test.go:42): that never happens, whatever
\* the batch, not only with a driver for each rider as in the test.
THEOREM OptimalBeatsGreedy == Spec => []OptimalNeverWorse
  <1>1. CertInv /\ ReturnsBest => OptimalNeverWorse
    <2> SUFFICES ASSUME ProblemOK, RiderToDriver \in Best(cost, nD)
                 PROVE  OptimalNeverWorse
      BY DEF CertInv, ReturnsBest, OptimalNeverWorse
    <2> DEFINE o == RiderToDriver
               g == Greedy(cost, nD)
    <2>1. g \in Fullest(cost, nD)
      BY GreedyIsFullest
    <2> HIDE DEF o, g
    <2>2. o \in Fullest(cost, nD) /\ TotalCost(cost, o) <= TotalCost(cost, g)
      BY <2>1 DEF Best, o
    <2>3. o \in Assignments(cost, nD) /\ g \in Assignments(cost, nD)
      BY <2>1, <2>2 DEF Fullest
    <2>4. /\ Cardinality(Served(o)) <= Cardinality(Served(g))
          /\ Cardinality(Served(g)) <= Cardinality(Served(o))
      BY <2>1, <2>2, <2>3 DEF Fullest
    <2>5. Cardinality(Served(o)) \in Int /\ Cardinality(Served(g)) \in Int
      <3>1. nR \in Nat
        BY Sizes
      <3> QED BY <2>3, <3>1, ServedSize
    <2> QED BY <2>2, <2>4, <2>5 DEF OptimalNeverWorse, o, g
  <1> QED BY <1>1, CertInvHolds, OptimalReturnsBest, PTL

-------------------------------------------------------------------------------
(* Both loops end: what is left of the work gets less with every iteration.  *)

\* The columns on the path from j0 back to the root.
Path == {k \in Nodes : \A S \in SUBSET Nodes :
                          j0 \in S /\ (\A j \in S \ {0} : way[j] \in S) => k \in S}

\* The iterations a row may take, its start, and those left at most.
Round == 2 * n + 4
Left == CASE at = "row" -> 1 + (n + 1 - i) * Round
          [] at = "grow" -> 1 + (n - i) * Round + (2 * n + 3 - Cardinality(used))
          [] at = "flip" -> 1 + (n - i) * Round + Cardinality(Path)
          [] at = "done" -> 0

\* One row more is one round more.
LEMMA Rounds ==
    ASSUME NEW a \in Nat, NEW b \in Nat, a <= b, NEW r \in Nat
    PROVE  /\ a * r \in Nat /\ (a + 1) * r = a * r + r
           /\ a * r <= b * r
  <1>1. a * r \in Nat /\ (a + 1) * r = a * r + r
    OBVIOUS
  <1>2. b - a \in Nat /\ (b - a) * r \in Nat /\ b = a + (b - a)
    OBVIOUS
  <1>3. (a + (b - a)) * r = a * r + (b - a) * r
    OBVIOUS
  <1> QED BY <1>1, <1>2, <1>3

\* No set of columns is larger than all of them.
LEMMA FewColumns ==
    ASSUME ProblemOK, NEW S \in SUBSET Nodes
    PROVE  IsFiniteSet(S) /\ Cardinality(S) \in 0..(n + 1)
  <1>1. n \in Nat
    BY Sizes
  <1>2. IsFiniteSet(0..n) /\ Cardinality(0..n) = n + 1
    BY <1>1, FS_Interval
  <1>3. IsFiniteSet(S) /\ Cardinality(S) <= n + 1
    BY <1>2, FS_Subset DEF Nodes
  <1> QED BY <1>1, <1>3, FS_CardinalityType

\* Grow: the tree gets a column.
LEMMA TreeGrows ==
    CertInv /\ Grow => Cardinality(used') = Cardinality(used) + 1 /\ at' \in {"grow", "flip"}
  <1> SUFFICES ASSUME CertInv, Grow
               PROVE  Cardinality(used') = Cardinality(used) + 1 /\ at' \in {"grow", "flip"}
    OBVIOUS
  <1>1. used' = used \union {j0} /\ at' \in {"grow", "flip"} /\ at = "grow"
    BY GrowSteps DEF Tree
  <1>2. PICK rank \in Rank : GrowInv(rank)
    BY <1>1 DEF CertInv
  <1>3. j0 \notin used
    BY <1>2 DEF GrowInv
  <1>4. IsFiniteSet(used)
    BY FewColumns DEF CertInv, TypeOK, Nodes
  <1> QED BY <1>1, <1>3, <1>4, FS_AddElement

\* Flip: the rest of the path is shorter: it never comes back to j0.
LEMMA PathShortens ==
    CertInv /\ Flip => /\ Path \in SUBSET Nodes /\ Path' \in SUBSET Nodes
                       /\ Cardinality(Path') < Cardinality(Path)
  <1> SUFFICES ASSUME CertInv, Flip
               PROVE  /\ Path \in SUBSET Nodes /\ Path' \in SUBSET Nodes
                      /\ Cardinality(Path') < Cardinality(Path)
    OBVIOUS
  <1>1. /\ TypeOK /\ ProblemOK /\ j0' = way[j0] /\ way' = way /\ UNCHANGED problem
        /\ \E rank \in Rank : FlipInv(rank)
    BY DEF CertInv, Flip
  <1>2. Nodes' = Nodes
    BY <1>1, SameProblem
  <1>3. PICK rank \in Rank : FlipInv(rank)
    BY <1>1
  <1>4. /\ j0 \in Nodes /\ j0 # 0 /\ used \subseteq Nodes /\ rank \in [Nodes -> Nat]
        /\ \A j \in Nodes : way[j] \in Nodes
    <2>1. j0 \in Nodes /\ j0 # 0
      BY <1>1, <1>3, Numbers DEF FlipInv
    <2> QED BY <1>1, <2>1 DEF TypeOK, Nodes, Rank
  <1>5. j0 \in Path
    BY <1>4 DEF Path
  <1>6. \A j \in Path \ {0} : way[j] \in Path
    BY <1>4 DEF Path
  <1> DEFINE rest == {k \in Path : k \in used /\ rank[k] < rank[j0]}
  <1>7. way[j0] \in rest
    <2>1. Reached(rank, j0)
      BY <1>3, <1>4 DEF FlipInv
    <2> QED BY <1>4, <1>5, <1>6, <2>1 DEF Reached
  <1>8. \A j \in rest \ {0} : way[j] \in rest
    <2> SUFFICES ASSUME NEW j \in rest \ {0} PROVE way[j] \in rest
      OBVIOUS
    <2>1. j \in Path /\ j \in used /\ j \in Nodes /\ j # 0 /\ rank[j] < rank[j0]
      BY <1>4
    <2>2. rank[j] \in Nat /\ rank[j0] \in Nat /\ way[j] \in Nodes
      BY <1>4, <2>1
    <2>3. Reached(rank, j)
      BY <1>3, <2>1, <2>2 DEF FlipInv
    <2>4. way[j] \in used /\ rank[way[j]] < rank[j] /\ rank[way[j]] \in Nat
      BY <1>4, <2>2, <2>3 DEF Reached
    <2>5. rank[way[j]] < rank[j0]
      BY <2>1, <2>2, <2>4
    <2>6. way[j] \in Path
      BY <1>6, <2>1
    <2> QED BY <2>4, <2>5, <2>6
  <1>9. Path \in SUBSET Nodes /\ Path' \in SUBSET Nodes
    BY <1>2 DEF Path
  <1>10. j0 \notin rest /\ rest \subseteq Path
    BY <1>4
  <1> HIDE DEF rest
  <1>11. Path' \subseteq rest
    <2>1. rest \in SUBSET Nodes
      BY <1>9, <1>10
    <2> SUFFICES ASSUME NEW k \in Path' PROVE k \in rest
      OBVIOUS
    <2>2. \A S \in SUBSET Nodes : way[j0] \in S /\ (\A j \in S \ {0} : way[j] \in S) => k \in S
      BY <1>1, <1>2 DEF Path
    <2> QED BY <1>7, <1>8, <2>1, <2>2
  <1>12. Path' \subseteq Path \ {j0}
    BY <1>10, <1>11
  <1>13. IsFiniteSet(Path) /\ Cardinality(Path) \in Nat
    BY <1>1, <1>9, FewColumns, Sizes
  <1>14. IsFiniteSet(Path \ {j0}) /\ Cardinality(Path \ {j0}) = Cardinality(Path) - 1
    BY <1>5, <1>13, FS_RemoveElement
  <1>15. Cardinality(Path') <= Cardinality(Path \ {j0}) /\ Cardinality(Path') \in Nat
    BY <1>12, <1>14, FS_Subset, FS_CardinalityType
  <1> QED BY <1>9, <1>13, <1>14, <1>15

\* What is left is a number, and never more than all rows take.
LEMMA LeftBounded == CertInv => Left \in 0..(1 + n * Round)
  <1> SUFFICES ASSUME CertInv PROVE Left \in 0..(1 + n * Round)
    OBVIOUS
  <1>1. TypeOK /\ ProblemOK /\ n \in Nat \ {0} /\ Round \in Nat /\ Round = 2 * n + 4
    BY Sizes DEF CertInv, Round
  <1>2. i \in 1..(n + 1) /\ at \in {"row", "grow", "flip", "done"}
    BY <1>1 DEF TypeOK
  <1>3. at \in {"grow", "flip"} => i <= n
    BY DEF CertInv, GrowInv, FlipInv
  <1>4. Cardinality(used) \in 0..(n + 1) /\ Cardinality(Path) \in 0..(n + 1)
    <2>1. used \in SUBSET Nodes /\ Path \in SUBSET Nodes
      BY <1>1 DEF TypeOK, Nodes, Path
    <2> QED BY <1>1, <2>1, FewColumns
  <1>5. n * Round \in Nat
    BY <1>1, Rounds
  <1> HIDE DEF Round
  <1>6. CASE at = "row"
    <2>1. n + 1 - i \in Nat /\ n + 1 - i <= n
      BY <1>1, <1>2
    <2>2. (n + 1 - i) * Round \in Nat /\ (n + 1 - i) * Round <= n * Round
      BY <1>1, <2>1, Rounds
    <2>3. Left = 1 + (n + 1 - i) * Round
      BY <1>6 DEF Left
    <2> QED BY <1>5, <2>2, <2>3
  <1>7. CASE at \in {"grow", "flip"}
    <2>1. n - i \in Nat /\ (n - i) + 1 <= n
      BY <1>1, <1>2, <1>3, <1>7
    <2>2. /\ (n - i) * Round \in Nat /\ ((n - i) + 1) * Round = (n - i) * Round + Round
          /\ ((n - i) + 1) * Round <= n * Round
      BY <1>1, <2>1, Rounds
    <2> DEFINE done == (n - i) * Round
    <2>3. Left = 1 + done + (2 * n + 3 - Cardinality(used)) \/ Left = 1 + done + Cardinality(Path)
      BY <1>7 DEF Left
    <2> HIDE DEF done
    <2>4. done \in Nat /\ done + Round <= n * Round
      BY <2>2 DEF done
    <2> QED BY <1>1, <1>4, <1>5, <2>3, <2>4
  <1>8. CASE at = "done"
    BY <1>5, <1>8 DEF Left
  <1> QED BY <1>2, <1>6, <1>7, <1>8

\* Every step takes from it.
LEMMA LeftLessens == CertInv /\ Next => Left' < Left
  <1> SUFFICES ASSUME CertInv, Next PROVE Left' < Left
    OBVIOUS
  <1>1. TypeOK /\ ProblemOK /\ n \in Nat \ {0} /\ Round \in Nat /\ Round = 2 * n + 4
    BY Sizes DEF CertInv, Round
  <1>2. i \in 1..(n + 1) /\ used \in SUBSET Nodes
    BY <1>1 DEF TypeOK, Nodes
  <1>3. UNCHANGED problem
    BY DEF Next, StartRow, Grow, Flip, Finish
  <1>4. n' = n /\ Round' = Round
    BY <1>3, SameProblem DEF Round
  <1> DEFINE ahead == (n - i) * Round
  <1>5. at \in {"grow", "flip"} => i <= n
    BY DEF CertInv, GrowInv, FlipInv
  <1>6. i <= n => ahead \in Nat /\ (n + 1 - i) * Round = ahead + Round
    <2> SUFFICES ASSUME i <= n PROVE ahead \in Nat /\ (n + 1 - i) * Round = ahead + Round
      OBVIOUS
    <2>1. n - i \in Nat /\ n - i <= n - i /\ n + 1 - i = (n - i) + 1
      BY <1>1, <1>2
    <2>2. (n - i) * Round \in Nat /\ ((n - i) + 1) * Round = (n - i) * Round + Round
      <3> HIDE DEF Round
      <3> QED BY <1>1, <2>1, Rounds
    <2> QED BY <2>1, <2>2
  <1> HIDE DEF Round
  <1>7. CASE StartRow
    <2>1. at = "row" /\ i <= n /\ at' = "grow" /\ i' = i /\ used' = {}
      BY <1>7 DEF StartRow
    <2>2. Left = 1 + (n + 1 - i) * Round
      BY <2>1 DEF Left
    <2>3. Left' = 1 + ahead + (2 * n + 3 - Cardinality({}))
      BY <1>4, <2>1 DEF Left
    <2>4. Cardinality({}) = 0
      BY FS_EmptySet
    <2> HIDE DEF ahead
    <2> QED BY <1>1, <1>6, <2>1, <2>2, <2>3, <2>4
  <1>8. CASE Grow
    <2>1. at = "grow" /\ i' = i /\ at' \in {"grow", "flip"} /\ Cardinality(used') = Cardinality(used) + 1
      BY <1>8, TreeGrows DEF Grow
    <2>2. Left = 1 + ahead + (2 * n + 3 - Cardinality(used))
      BY <2>1 DEF Left
    <2>3. Cardinality(used) \in 0..(n + 1)
      BY <1>1, <1>2, FewColumns
    <2>4. CASE at' = "grow"
      <3>1. Left' = 1 + ahead + (2 * n + 3 - (Cardinality(used) + 1))
        BY <1>4, <2>1, <2>4 DEF Left
      <3> HIDE DEF ahead
      <3> QED BY <1>1, <1>5, <1>6, <2>1, <2>2, <2>3, <3>1
    <2>5. CASE at' = "flip"
      <3>1. Left' = 1 + ahead + Cardinality(Path')
        BY <1>4, <2>1, <2>5 DEF Left
      <3>2. Cardinality(Path') \in 0..(n + 1)
        <4>1. Path' \in SUBSET Nodes
          BY <1>3, SameProblem DEF Path
        <4> QED BY <1>1, <4>1, FewColumns
      <3>3. Cardinality(used) <= n
        <4>1. IsFiniteSet(used') /\ Cardinality(used') \in 0..(n + 1)
          <5>1. used' \in SUBSET Nodes
            <6>1. CertInv'
              BY <1>8, GrowCertInv
            <6> QED BY <1>3, <6>1, SameProblem DEF CertInv, TypeOK, Nodes
          <5> QED BY <1>1, <5>1, FewColumns
        <4> QED BY <1>1, <2>1, <2>3, <4>1
      <3> HIDE DEF ahead
      <3> QED BY <1>1, <1>5, <1>6, <2>1, <2>2, <2>3, <3>1, <3>2, <3>3
    <2> QED BY <2>1, <2>4, <2>5
  <1>9. CASE Flip
    <2>1. at = "flip" /\ ((at' = "flip" /\ i' = i) \/ (at' = "row" /\ i' = i + 1))
      <3>1. at = "flip" /\ IF way[j0] = 0 THEN at' = "row" /\ i' = i + 1 ELSE at' = at /\ i' = i
        BY <1>9 DEF Flip
      <3>2. CASE way[j0] = 0
        BY <3>1, <3>2
      <3>3. CASE way[j0] # 0
        BY <3>1, <3>3
      <3> QED BY <3>2, <3>3
    <2>2. Left = 1 + ahead + Cardinality(Path)
      BY <2>1 DEF Left
    <2>3. /\ Cardinality(Path') < Cardinality(Path)
          /\ Cardinality(Path) \in Nat /\ Cardinality(Path') \in Nat
      <3>1. /\ Path \in SUBSET Nodes /\ Path' \in SUBSET Nodes
            /\ Cardinality(Path') < Cardinality(Path)
        BY <1>9, PathShortens
      <3>2. Cardinality(Path) \in 0..(n + 1) /\ Cardinality(Path') \in 0..(n + 1)
        BY <1>1, <3>1, FewColumns
      <3> QED BY <1>1, <3>1, <3>2
    <2>4. CASE at' = "flip" /\ i' = i
      <3>1. Left' = 1 + ahead + Cardinality(Path')
        BY <1>4, <2>4 DEF Left
      <3> HIDE DEF ahead
      <3> QED BY <1>5, <1>6, <2>1, <2>2, <2>3, <3>1
    <2>5. CASE at' = "row" /\ i' = i + 1
      <3>1. n + 1 - (i + 1) = n - i
        BY <1>1, <1>2
      <3>2. Left' = 1 + ahead
        BY <1>4, <2>5, <3>1 DEF Left
      <3> HIDE DEF ahead
      <3> QED BY <1>5, <1>6, <2>1, <2>2, <2>3, <3>2
    <2> QED BY <2>1, <2>4, <2>5
  <1>10. CASE Finish
    <2>1. at = "row" /\ at' = "done" /\ i > n
      BY <1>10 DEF Finish
    <2>2. Left' = 0 /\ Left = 1 + (n + 1 - i) * Round
      BY <2>1 DEF Left
    <2>3. n + 1 - i = 0 /\ 0 * Round = 0
      BY <1>1, <1>2, <2>1
    <2> QED BY <2>2, <2>3
  <1> QED BY <1>7, <1>8, <1>9, <1>10 DEF Next

\* "O(n^3)": the loops of lines 110 and 142 have no bound of their own, but of
\* at most 1 + n * (2n + 4) iterations, over rows and loops, each leaves fewer:
\* the tree never takes a column twice, and the way back never comes in a circle.
THEOREM OptimalEnds == Spec => [](Left \in 0..(1 + n * (2 * n + 4))) /\ [][Left' < Left]_vars
  <1>1. CertInv => Left \in 0..(1 + n * (2 * n + 4))
    BY LeftBounded DEF Round
  <1>2. CertInv /\ [Next]_vars => [Left' < Left]_vars
    BY LeftLessens
  <1>3. Spec => [](Left \in 0..(1 + n * (2 * n + 4)))
    BY <1>1, CertInvHolds, PTL
  <1>4. Spec => [][Left' < Left]_vars
    BY <1>2, CertInvHolds, PTL DEF Spec
  <1> QED BY <1>3, <1>4
===============================================================================
