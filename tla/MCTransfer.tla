----------------------------- MODULE MCTransfer -----------------------------
(* Small instances of Transfer for TLC.                                    *)
EXTENDS Transfer

CONSTANTS up, dn, st1, st2, c1, c2, c3, a1, a2, pl, geo, sel, cl

(* An upload and a download of the file service, two streams, and three    *)
(* users of the file service's XClient for other calls.                    *)
Kinds == [i \in Users |-> CASE i = up -> "SendFile" [] i = dn -> "DownloadFile"
             [] i \in {st1, st2} -> "Stream" [] OTHER -> "Call"]
ServiceOf == [i \in Users |-> IF i \in {st1, st2} THEN "stream" ELSE "file"]
Waiting == [i \in {"file", "stream"} |-> IF i = "file" THEN 1 ELSE 2]

Ops == [i \in Setters |-> CASE i \in {a1, a2} -> "Auth" [] i = pl -> "SetPlugins"
          [] i = geo -> "ConfigGeoSelector" [] i = sel -> "SetSelector" [] OTHER -> "Close"]
FilePath == [i \in Setters |-> "file"]

Scenario(us, gs) == [users |-> us, setters |-> gs]

(* Transfers on one service, or users and setters of the OneClients.       *)
Few ==
    {Scenario({up, dn}, {}), Scenario({st1, st2}, {}), Scenario({st1}, {cl})}
    \cup {Scenario({c1, c2, c3}, gs) : gs \in {{a1}, {geo, sel}}}
    \cup {Scenario({c1, c2}, gs) : gs \in {{pl, cl}, {a1, a2}}}
=============================================================================
