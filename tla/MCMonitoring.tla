---------------------------- MODULE MCMonitoring ----------------------------
(***************************************************************************)
(* Two handlers, two requests and two crashes in seven minutes; an alert is*)
(* due after two quiet minutes, and a window closes every two.             *)
(***************************************************************************)
EXTENDS Monitoring, TLC

HandlerSymmetry == Permutations(Handlers)
==============================================================================
