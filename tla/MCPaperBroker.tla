---------------------------- MODULE MCPaperBroker ----------------------------
(***************************************************************************)
(* PaperBroker and its properties for TLC.  Workers and orders are         *)
(* interchangeable in every action and in every safety property, so the    *)
(* safety runs explore one of each class of symmetric states.              *)
(***************************************************************************)
EXTENDS PaperBrokerProps, TLC

Symmetry == Permutations(Workers) \cup Permutations(Orders)
=============================================================================
