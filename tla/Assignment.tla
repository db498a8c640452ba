------------------------------ MODULE Assignment ------------------------------
(***************************************************************************)
(* internal/match: assigning riders to drivers at known pickup distances.  *)
(* A cost matrix is a function from riders 1..nR to functions from drivers *)
(* 1..nD to naturals (metres, whole ones here and floats in the code); an  *)
(* assignment maps riders to drivers, 0 standing for the code's -1.        *)
(* Greedy is translated from the code.  Assignments and Best are the       *)
(* definition of what Optimal must return; module Hungarian is how it      *)
(* finds it.                                                               *)
(***************************************************************************)
EXTENDS Integers, FiniteSets, Functions, FiniteSetsExt

Riders(cost) == DOMAIN cost

\* The injective partial assignments of the riders of cost to drivers 1..nD.
Assignments(cost, nD) ==
    {f \in [Riders(cost) -> 0..nD] :
        \A r, s \in Riders(cost) : f[r] = f[s] /\ f[r] # 0 => r = s}

\* TotalCost: the metres driven to pick everybody up.
TotalCost(cost, f) ==
    SumFunction([r \in Riders(cost) |-> IF f[r] = 0 THEN 0 ELSE cost[r][f[r]]])

Served(f) == {r \in DOMAIN f : f[r] # 0}

\* As many riders served as there can be, and at the least total cost.
Fullest(cost, nD) ==
    {f \in Assignments(cost, nD) :
        \A g \in Assignments(cost, nD) : Cardinality(Served(g)) <= Cardinality(Served(f))}
Best(cost, nD) ==
    {f \in Fullest(cost, nD) :
        \A g \in Fullest(cost, nD) : TotalCost(cost, f) <= TotalCost(cost, g)}

\* Greedy's inner loop: the nearest driver not used yet, the first among
\* equals (the code compares with <), or 0 when all are used.
Nearest(row, nD, used) ==
    LET free == (1..nD) \ used
        near == {j \in free : \A k \in free : row[j] <= row[k]}
    IN  IF free = {} THEN 0 ELSE Min(near)

\* Greedy: each rider in turn takes the nearest driver still free.
Greedy(cost, nD) ==
    LET f[r \in Riders(cost)] ==
            Nearest(cost[r], nD, {f[s] : s \in 1..(r - 1)})
    IN  f
===============================================================================
