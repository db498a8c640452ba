---------------------------- MODULE MCBatchMatcher ----------------------------
(* Instances of BatchMatcher: riders and drivers along a street.             *)
EXTENDS BatchMatcher

CONSTANTS r1, r2, d1, d2

\* d1 is the nearest driver of r2, and as near to r1 as d2 is; d2 is far from r2.
\* Only giving d1 to r2 and d2 to r1 is optimal.
RidersClose == r1 :> 0 @@ r2 :> 1
TwoDrivers == d1 :> 2 @@ d2 :> -2

\* With radius 3 no driver is near r1, and two are near r2; or one driver, near
\* both, is all there is.
RidersApart == r1 :> 0 @@ r2 :> 5
DriversFar == d1 :> 5 @@ d2 :> 6
OneDriver == d1 :> 2

\* Who asks again after an answer.
Once == r1 :> 1 @@ r2 :> 1
FirstTwice == r1 :> 2 @@ r2 :> 1
===============================================================================
