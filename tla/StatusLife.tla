----------------------------- MODULE StatusLife -----------------------------
(***************************************************************************)
(* The statuses of a request and the moves between them that the whole     *)
(* relay can make.  Relay is checked to make no other; SubmitWait takes    *)
(* the moves as what happens to the requests its callers wait for.         *)
(***************************************************************************)

(* StatusTimeout is declared by the code and never assigned: a timed-out   *)
(* command is an "error".                                                  *)
Status ==
  {"pending", "approved", "denied", "running", "complete", "error", "withdrawn"}

settled(status) == status \notin {"pending", "approved", "running"}

(* A deny that passed its pending check late can land on any status, and   *)
(* the execution it raced goes on from there.                              *)
StatusMoves ==
  {<<"pending", "approved">>, <<"pending", "withdrawn">>,
   <<"approved", "running">>, <<"denied", "running">>}
    \cup ({"running", "denied"} \X {"complete", "error"})
    \cup ((Status \ {"denied"}) \X {"denied"})

=============================================================================
