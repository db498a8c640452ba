------------------------------ MODULE MCMatcher ------------------------------
(* Instances of Matcher for TLC. One unit of time stands for six seconds,   *)
(* rounded against the code: lockTTL 30 s is 5, the 3 s of pickupRoute is 1, *)
(* and dur, 3 s to 12 s, is 1 to 2.                                         *)
EXTENDS Matcher, TLC

CONSTANTS i1, i2, h1, h2

\* One goroutine each, or two goroutines of one process.
Apart == h1 :> i1 @@ h2 :> i2
Together == h1 :> i1 @@ h2 :> i1

Symmetry == Permutations(Driver) \union Permutations(Req)
===============================================================================
