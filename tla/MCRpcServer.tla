----------------------------- MODULE MCRpcServer -----------------------------
(* Small instances of RpcServer for TLC.                                   *)
EXTENDS RpcServer, TLC

CONSTANTS c1, c2, r1, r2, r3, u

(* What the clients send on one or two connections.                        *)
OneEach == (c1 :> <<r1>>) @@ (c2 :> <<r3>>)
Pair == (c1 :> <<r1, r2>>) @@ (c2 :> <<>>)

(* All requests are of user u.                                             *)
OneUser == [r \in Requests |-> u]

(* The hashes of the connections and of the user.                          *)
Hash == [k \in ({UserOf[r] : r \in Requests} \ {Nil}) \cup Conns |->
            IF k = c1 THEN 4 ELSE IF k = c2 THEN 5 ELSE 6]

(* The program stops the server once, by Shutdown or by Close, and one     *)
(* client connects. Neither is an action with fairness.                    *)
OneOfEach ==
    /\ ~(closed /\ inShutdown)
    /\ \A c, d \in Conns : cpc[c] # "none" /\ cpc[d] # "none" => c = d
=============================================================================
