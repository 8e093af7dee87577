--------------------------- MODULE MCDiscoveryRun ---------------------------
(* The monolith, which has code in flows, and one service, over two commits *)
(* of their production branches and the three scripts of package.json.      *)
EXTENDS DiscoveryRun

ScriptFlags == {{"apply"}, {"baseline"}, {"fail"}}
=============================================================================
