---------------------------- MODULE MCKeywordSet ----------------------------
(* Values for the constants of KeywordSet: a family of modes three deep, a *)
(* known mode below an unknown one, and an unrelated one.                  *)
EXTENDS KeywordSet

MCNames == {"network", "neighbor"}
Router == <<"config", "router">>
RouterAf == <<"config", "router", "af">>
RouterAfTopology == <<"config", "router", "af", "topology">>
ArchiveLogConfig == <<"config", "archive", "log", "config">>
MCSections == {Config, Router, RouterAf, RouterAfTopology, ArchiveLogConfig}
MCOverlay == [n \in MCNames |-> IF n = "network" THEN {Router} ELSE {}]
=============================================================================
