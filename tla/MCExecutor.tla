----------------------------- MODULE MCExecutor -----------------------------
(***************************************************************************)
(* An instance of PipelineExecutor: a limit that output can meet exactly   *)
(* and exceed, one descendant, timeouts below, between and above the       *)
(* default and the cap, and every pipeline of up to two steps.             *)
(***************************************************************************)
EXTENDS PipelineExecutor

CONSTANTS srv, tmp

AskedTimeouts == {-1, 1, 3}
AllPipelines  == {<< >>} \cup {<<s>> : s \in Step} \cup {<<s, t>> : s, t \in Step}
Allowed       == {<<srv>>, << >>}
Asked         == {<<srv, tmp>>, <<tmp>>}

=============================================================================
