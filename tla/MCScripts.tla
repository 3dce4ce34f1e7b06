----------------------------- MODULE MCScripts ------------------------------
(***************************************************************************)
(* Small instances of Scripts: a shell, a Python and a pipeline body, a    *)
(* flat name and two paths, one of which already holds a shell script.     *)
(***************************************************************************)
EXTENDS Scripts

CONSTANTS r1, r2, r3, f, p, q, sh, py, js

Detect == [b \in {sh, py, js} |-> IF b = sh THEN "sh" ELSE IF b = py THEN "py" ELSE "json"]

OneShell == [n \in {f, p, q} |->
               [e \in {"sh", "py", "json"} |-> IF n = q /\ e = "sh" THEN sh ELSE NoFile]]

=============================================================================
