---------------------------- MODULE MCResponseScan ----------------------------
(* An instance of ResponseScan for TLC: one page that matches a rule. *)
EXTENDS ResponseScan
CONSTANTS g1, b1, nobody
LeakingPages == [size : {"short"}, text : {TRUE}, matches : {{"detect"}, {"block"}}]
=============================================================================
