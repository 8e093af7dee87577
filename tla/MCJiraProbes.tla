---------------------------- MODULE MCJiraProbes ----------------------------
(* Four probes on three lanes over two slots, two attempts each: more lanes *)
(* than slots and more probes than lanes, as 45, 6 and 4 in the code.       *)
EXTENDS JiraProbes
=============================================================================
