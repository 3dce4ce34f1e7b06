----------------------------- MODULE MCTargets ------------------------------
(***************************************************************************)
(* An instance of Targets: two registry operations on two keys and one     *)
(* tool call.  The registrations differ in address, login, shell and key   *)
(* file and leave some blank; one address has relay SSH.  The calls are    *)
(* one or two of each tool, with the arguments that decide between targets *)
(* and those that are refused.                                             *)
(***************************************************************************)
EXTENDS Targets, TLC

CONSTANTS r1, r2, k1, k2, near, far, c1

Logins   == {"", "ops", "sys"}
KeyFiles == {"", "id_relay"}

Offer(kind, key, addr, user, ident, shell) ==
  [kind |-> kind, key |-> key,
   rec |-> [addr |-> addr, user |-> user, ident |-> ident, shell |-> shell]]

SomeOffers ==
  { Offer("containers", k1, near, "ops", "", ""), Offer("containers", k1, far, "", "", ""),
    Offer("containers", k2, near, "", "", ""),
    Offer("machines", k1, near, "ops", "id_relay", "powershell"),
    Offer("machines", k1, far, "sys", "", ""),
    Offer("machines", k2, far, "ops", "", "posix") }

Bare(tool) == [tool |-> tool, ctid |-> None, machine |-> None, host |-> None,
               source |-> FALSE, source_ctid |-> None, source_host |-> None]

SomeAsks ==
  { [Bare("request_command_for_host") EXCEPT !.host = far],
    [Bare("exec_container") EXCEPT !.ctid = k1],
    [Bare("exec_machine") EXCEPT !.machine = k1],
    [Bare("install_relay_ssh") EXCEPT !.ctid = k1],
    [Bare("install_ssh_key") EXCEPT !.ctid = k2, !.machine = k1],
    Bare("install_ssh_key"),
    [Bare("http_request") EXCEPT !.source = TRUE, !.source_ctid = k1],
    [Bare("http_request") EXCEPT !.source = TRUE],
    [Bare("write_file") EXCEPT !.ctid = k1, !.host = far],
    [Bare("write_file") EXCEPT !.machine = k1],
    Bare("write_file"),
    [Bare("write_file") EXCEPT !.source = TRUE, !.source_ctid = k1, !.ctid = k1],
    [Bare("write_file") EXCEPT !.source = TRUE, !.source_host = far, !.machine = k1] }

Perms == Permutations({r1, r2})

=============================================================================
