----------------------------- MODULE MCDispatch -----------------------------
(* A small instance of Dispatch for TLC.                                   *)
EXTENDS Dispatch

CONSTANTS q, w, b, z, g, h, svc, m, f, u, v

(* All requests are for the method or function m of path svc.              *)
OnePath == [x \in Requests |-> svc]
OneName == [x \in Requests |-> m]

(* The two signatures share the type of their replies.                     *)
ArgTypes == [x \in Sigs |-> x]
ReplyTypes == [x \in Sigs |-> "Reply"]

(* u and v are registries and check calls; functions are announced by v.   *)
Hooks == [p \in Plugins |->
            IF p = u THEN {"Register", "PreCall"}
            ELSE {"Register", "RegisterFunction", "PreCall", "PostCall", "PostReadRequest",
                  "HeartbeatRequest"}]

(* g makes a service of methods or of functions; h replaces it, extends it *)
(* or replaces the function m by one with other types.                     *)
Op(kind, n, sig, suitable) == [kind |-> kind, path |-> svc, name |-> n, sig |-> sig, suitable |-> suitable]

SomeOps == [x \in Registrars |->
    IF x = g THEN {Op("Register", m, "M", TRUE), Op("RegisterFunction", m, "M", TRUE),
                   Op("RegisterFunction", f, "M", TRUE)}
    ELSE {Op("Register", m, "M", TRUE), Op("Register", m, "M", FALSE),
          Op("RegisterFunction", m, "F", TRUE), Op("RegisterFunction", m, "F", FALSE)}]

Scenario(plugs, reqs, regs, unreg, n) ==
    [plugins |-> plugs, requests |-> reqs, registrars |-> regs, unregister |-> unreg, changes |-> n]

(* Two requests use the pools while a registration replaces them; a        *)
(* request and two registrations; two registrations and UnregisterAll; a   *)
(* request, a registration and UnregisterAll; plugins change under a       *)
(* request or a heartbeat; a request for a handler of the router; two      *)
(* changes of the plugins, a registration and UnregisterAll.               *)
Few == {Scenario(<<u>>, {q, w}, {g}, FALSE, 0), Scenario(<<u>>, {q}, {g, h}, FALSE, 0),
        Scenario(<<u, v>>, {}, {g, h}, TRUE, 0), Scenario(<<u>>, {w}, {g}, TRUE, 0),
        Scenario(<<u, v>>, {q}, {g}, FALSE, 1), Scenario(<<u, v>>, {b}, {}, FALSE, 1),
        Scenario(<<u>>, {z}, {}, FALSE, 0), Scenario(<<u, v>>, {}, {g}, TRUE, 2)}
=============================================================================
