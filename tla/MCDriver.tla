------------------------------ MODULE MCDriver ------------------------------
(* Instances of Driver for TLC; watts are scaled down. *)
EXTENDS Driver, TLC

CONSTANTS c1, c2

TwoCPUs   == {c1, c2}
CPUSwaps  == Permutations({c1, c2})
AppleMC   == <<8, 9>>
\* One request below the bootstrap limit, one above, one above Apple's.
AskedMC   == {<<4, 4>>, <<6, 7>>, <<8, 10>>}
AskedTwo  == {<<4, 4>>, <<6, 7>>}
AskedOne  == {<<6, 7>>}
=============================================================================
