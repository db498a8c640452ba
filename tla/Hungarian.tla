------------------------------- MODULE Hungarian -------------------------------
(***************************************************************************)
(* match.Optimal (internal/match/match.go): the cost matrix is padded to a *)
(* square, and the rows are matched one after the other.  For row i the    *)
(* loop at line 110 grows a tree of tight columns, moving the potentials u *)
(* and v so that at least one more column becomes tight, until it reaches  *)
(* a free column; the loop at line 142 then flips the path back to the     *)
(* root, column 0.  One iteration of either loop is one step here.         *)
(*                                                                         *)
(* The code computes with float64; costs are whole metres here, so         *)
(* rounding is not part of the model.                                      *)
(***************************************************************************)
EXTENDS Assignment

CONSTANTS MaxRiders, MaxDrivers, \* the sizes of the batches checked
          MaxCost,               \* and the largest distance in them
          Big                    \* the cost of padding, 1e9

\* Padding must never look better than a driver, whatever else is gained.
ASSUME HungarianAssumption ==
    /\ MaxRiders \in Nat \ {0} /\ MaxDrivers \in Nat \ {0} /\ MaxCost \in Nat
    /\ Big \in Nat /\ Big > MaxCost * (MaxRiders + MaxDrivers)

Inf == 100 * Big   \* math.MaxFloat64

VARIABLES nD, cost,          \* the problem: number of drivers, cost matrix
          u, v,              \* potentials of the rows and of the columns
          p,                 \* p[j]: the row matched with column j, 0 if none
          way,               \* way[j]: the column before j on the path to j
          minv, used,        \* the tree: slack of the columns, its columns
          i, j0,             \* the row being matched, the current column
          at                 \* where the code is

vars == <<nD, cost, u, v, p, way, minv, used, i, j0, at>>
problem == <<nD, cost>>

nR == Cardinality(Riders(cost))
n == IF nD > nR THEN nD ELSE nR
Rows == 1..n
Cols == 1..n

\* The padded square matrix: phantom riders and drivers cost Big.
c(r, j) == IF r <= nR /\ j <= nD THEN cost[r][j] ELSE Big

TypeOK == /\ u \in [0..n -> Int] /\ v \in [0..n -> Int]
          /\ p \in [0..n -> 0..n] /\ way \in [0..n -> 0..n]
          /\ minv \in [0..n -> Int] /\ used \in SUBSET (0..n)
          /\ i \in 1..(n + 1) /\ j0 \in 0..n
          /\ at \in {"row", "grow", "flip", "done"}

Zeros == [j \in 0..n |-> 0]

Init == /\ \E riders \in 1..MaxRiders, drivers \in 1..MaxDrivers :
              /\ nD = drivers
              /\ cost \in [1..riders -> [1..drivers -> 0..MaxCost]]
        /\ u = Zeros /\ v = Zeros /\ p = Zeros /\ way = Zeros
        /\ minv = Zeros /\ used = {}
        /\ i = 1 /\ j0 = 0 /\ at = "row"

\* Variant: one row too many.
StartRowBeyond ==
    /\ at = "row" /\ i <= n + 1
    /\ p' = [p EXCEPT ![0] = i]
    /\ j0' = 0
    /\ minv' = [j \in 0..n |-> Inf]
    /\ used' = {}
    /\ at' = "grow"
    /\ UNCHANGED <<problem, u, v, way, i>>

\* The next row is put at the root and the tree is emptied.
StartRow ==
    /\ at = "row" /\ i <= n
    /\ p' = [p EXCEPT ![0] = i]
    /\ j0' = 0
    /\ minv' = [j \in 0..n |-> Inf]
    /\ used' = {}
    /\ at' = "grow"
    /\ UNCHANGED <<problem, u, v, way, i>>

\* The potentials move: up for the rows of the tree, down for its columns.
RaiseRows(tree, delta) ==
    [r \in 0..n |-> IF \E j \in tree : p[j] = r THEN u[r] + delta ELSE u[r]]

\* Variant: the columns stay.
LowerNone(tree, delta) == v

LowerCols(tree, delta) ==
    [j \in 0..n |-> IF j \in tree THEN v[j] - delta ELSE v[j]]

\* The current column joins the tree; slacks are lowered through its row, and
\* the potentials move by the least of them, delta, to column j1.
Grow ==
    /\ at = "grow"
    /\ LET tree == used \union {j0}
           i0   == p[j0]
           cur(j) == c(i0, j) - u[i0] - v[j]
           slack == [j \in 0..n |->
                        IF j \notin tree /\ cur(j) < minv[j] THEN cur(j) ELSE minv[j]]
           rest == (0..n) \ tree
           j1   == Min({j \in rest : \A k \in rest : slack[j] <= slack[k]})
           delta == slack[j1]
       IN  /\ used' = tree
           /\ way' = [j \in 0..n |->
                         IF j \notin tree /\ cur(j) < minv[j] THEN j0 ELSE way[j]]
           /\ minv' = [j \in 0..n |-> IF j \in tree THEN slack[j] ELSE slack[j] - delta]
           /\ u' = RaiseRows(tree, delta)
           /\ v' = LowerCols(tree, delta)
           /\ j0' = j1
           /\ at' = IF p[j1] = 0 THEN "flip" ELSE "grow"
    /\ UNCHANGED <<problem, p, i>>

\* Variant: the first edge of the path is flipped, the others are not.
FlipOneEdge ==
    /\ at = "flip"
    /\ p' = [p EXCEPT ![j0] = p[way[j0]]]
    /\ j0' = 0
    /\ at' = "row" /\ i' = i + 1
    /\ UNCHANGED <<problem, u, v, way, minv, used>>

\* Variant: j0 is not moved along the path.
FlipInPlace ==
    /\ at = "flip"
    /\ p' = [p EXCEPT ![j0] = p[way[j0]]]
    /\ IF way[j0] = 0 /\ j0 = 0 THEN at' = "row" /\ i' = i + 1 ELSE UNCHANGED <<at, i>>
    /\ UNCHANGED <<problem, u, v, way, minv, used, j0>>

\* One edge of the path is flipped; at the root the row is matched.
Flip ==
    /\ at = "flip"
    /\ p' = [p EXCEPT ![j0] = p[way[j0]]]
    /\ j0' = way[j0]
    /\ IF way[j0] = 0 THEN at' = "row" /\ i' = i + 1 ELSE UNCHANGED <<at, i>>
    /\ UNCHANGED <<problem, u, v, way, minv, used>>

\* All rows are matched; Optimal reads the matching back.
Finish ==
    /\ at = "row" /\ i > n
    /\ at' = "done"
    /\ UNCHANGED <<problem, u, v, p, way, minv, used, i, j0>>

Next == StartRow \/ Grow \/ Flip \/ Finish

Spec == Init /\ [][Next]_vars
FairSpec == Spec /\ WF_vars(Next)

\* The columns of the rows, read back from p.
rowToCol == [r \in Rows |-> CHOOSE j \in Cols : p[j] = r]

\* Variant: a distance of 0 counts as no driver.
RiderToDriverFar ==
    [r \in Riders(cost) |->
        IF rowToCol[r] <= nD /\ cost[r][rowToCol[r]] \in 1..(Big - 1) THEN rowToCol[r] ELSE 0]

\* What Optimal returns: the real riders' columns, phantom drivers dropped.
RiderToDriver ==
    [r \in Riders(cost) |->
        IF rowToCol[r] <= nD /\ cost[r][rowToCol[r]] < Big THEN rowToCol[r] ELSE 0]

-------------------------------------------------------------------------------
\* The potentials never promise more than a pair costs, and exactly what it
\* costs for matched pairs: the certificate that makes the result a minimum.
\* Every Grow must move u, v and the slacks by the same delta to keep it, and
\* no row handled so far may be lost when a path is flipped.
Certified ==
    /\ \A r \in Rows, j \in Cols : u[r] + v[j] <= c(r, j)
    /\ \A j \in Cols : p[j] # 0 /\ at # "flip" => u[p[j]] + v[j] = c(p[j], j)
    /\ at \in {"row", "done"} =>
          \A r \in Rows : Cardinality({j \in Cols : p[j] = r}) = IF r < i THEN 1 ELSE 0

\* Optimal returns an assignment that serves as many riders as possible at the
\* least total distance, whatever the shape of the batch: padding with Big
\* never displaces a driver.
ReturnsBest == at = "done" => RiderToDriver \in Best(cost, nD)

\* Both loops, written without a bound, end: some column becomes reachable,
\* and way[] leads back to column 0.
Terminates == <>(at = "done")
===============================================================================
