---------------------------- MODULE MCRpcClient ----------------------------
(* Small instances of RpcClient for TLC.                                   *)
EXTENDS RpcClient, TLC

CONSTANTS a, b, h, o, w, r

(* Every caller has a context of its own ...                               *)
OwnContexts == [c \in Callers |-> c]
(* ... or all of them share one share.Context.                             *)
OneContext == [c \in Callers |-> "ctx"]

(* Numbers above the ones Client.send hands out.                           *)
HighRawSeq == [c \in Raws |-> IF c = w THEN MaxSeq + 1 ELSE MaxSeq]

(* Which calls are made together: two calls, or a Go and two SendRaw.      *)
Together ==
    LET made == {c \in Calls : cpc[c] # "idle" \/ c \in ctxDone}
    IN  made \subseteq Callers \/ made \subseteq Asyncs \cup Raws
=============================================================================
