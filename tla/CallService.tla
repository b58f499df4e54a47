----------------------------- MODULE CallService -----------------------------
(***************************************************************************)
(* What a client promises its callers, without connections or sequence     *)
(* numbers: a call is answered at most once and only while the client is   *)
(* up, it succeeds only if it was answered (or needs no answer), it ends   *)
(* exactly once, and every open call ends once the client is down.         *)
(***************************************************************************)
CONSTANTS Calls, Oneway

VARIABLES phase, answer, outcome, up

vars == <<phase, answer, outcome, up>>

Init ==
    /\ phase = [c \in Calls |-> "idle"]
    /\ answer = [c \in Calls |-> "none"]
    /\ outcome = [c \in Calls |-> "none"]
    /\ up = TRUE

Begin(c) ==
    /\ phase[c] = "idle"
    /\ phase' = [phase EXCEPT ![c] = "open"]
    /\ UNCHANGED <<answer, outcome, up>>

(* The server's answer arrives, perhaps after the caller gave up.          *)
Answer(c) ==
    /\ up
    /\ phase[c] # "idle"
    /\ answer[c] = "none"
    /\ \E a \in {"ok", "error"} : answer' = [answer EXCEPT ![c] = a]
    /\ UNCHANGED <<phase, outcome, up>>

Succeed(c) ==
    /\ phase[c] = "open"
    /\ answer[c] = "ok" \/ c \in Oneway
    /\ phase' = [phase EXCEPT ![c] = "ended"]
    /\ outcome' = [outcome EXCEPT ![c] = "ok"]
    /\ UNCHANGED <<answer, up>>

(* The server's error, a cancelled context, or a failure of the client.    *)
Fail(c) ==
    /\ phase[c] = "open"
    /\ phase' = [phase EXCEPT ![c] = "ended"]
    /\ outcome' = [outcome EXCEPT ![c] = "fail"]
    /\ UNCHANGED <<answer, up>>

GoDown ==
    /\ up
    /\ up' = FALSE
    /\ UNCHANGED <<phase, answer, outcome>>

Next ==
    \/ \E c \in Calls : Begin(c) \/ Answer(c) \/ Succeed(c) \/ Fail(c)
    \/ GoDown

SafeSpec == Init /\ [][Next]_vars

Spec ==
    /\ SafeSpec
    /\ \A c \in Calls : WF_vars(~up /\ (Succeed(c) \/ Fail(c)))
=============================================================================
