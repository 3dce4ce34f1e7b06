---------------------------- MODULE MCDashboard -----------------------------
(***************************************************************************)
(* An instance of Dashboard: one browser whose channel holds one frame, so *)
(* that frames queue, arrive out of order and are dropped.                 *)
(***************************************************************************)
EXTENDS Dashboard

CONSTANT b1

=============================================================================
