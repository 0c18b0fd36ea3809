-------------------------- MODULE MCOpenstackServers --------------------------
(* Instances of OpenstackServers for TLC: a search for "test" lists servers  *)
(* called "testvm" as well.                                                  *)
EXTENDS OpenstackServers

TwoImports == {"one", "two"}
AllServers == {"s1", "s2"}
AllNames == {"test", "testvm"}
Pattern == [n \in AllNames |-> IF n = "test" THEN AllNames ELSE {n}]
ByID == [by : {"id"}, to : AllServers]
ByName == [by : {"name"}, to : AllNames]
ByAny == ByID \cup ByName
AllMoves == {"create", "rename", "delete"}
=============================================================================
