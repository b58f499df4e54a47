------------------------------ MODULE MCSelection ------------------------------
(* What discovery publishes in the run of Selection: no server, two        *)
(* without weight, three of different weights and distances, and a list in *)
(* which one server is inactive and one belongs to another group.          *)
EXTENDS Selection, TLC

CONSTANTS s, t, v

Meta(w, d) == [weight |-> w, distance |-> d, inactive |-> FALSE, groups |-> {"g"}]
Inactive == [Meta(1, 1) EXCEPT !.inactive = TRUE]
Foreign == [Meta(2, 1) EXCEPT !.groups = {"other"}]

MCPairs ==
    {<<>>,
     s :> Meta(0, 1) @@ v :> Meta(0, 2),
     s :> Meta(1, 2) @@ t :> Meta(2, 1) @@ v :> Meta(1, 1),
     s :> Inactive @@ t :> Meta(2, 0) @@ v :> Foreign}
================================================================================
