------------------------------ MODULE MCRelay -------------------------------
(***************************************************************************)
(* Small instances of Relay.                                               *)
(***************************************************************************)
EXTENDS Relay, TLC

CONSTANTS i1, i2, c1, c2, a1

Work(type, command, args, name, stdin) ==
  [Type |-> type, Command |-> command, Args |-> args,
   ScriptName |-> name, Stdin |-> stdin]

Command(cmd)     == Work("command", cmd, <<"x">>, "", "")
Create(n, stdin) == Work("script_create", "", <<>>, n, stdin)
RegistryOp       == Work("registry_op", "", <<>>, "", "")

Outcome(exit, code, stdout, headers) ==
  [ExitCode |-> exit, StatusCode |-> code, Stdout |-> stdout,
   Stderr |-> "", RespHeaders |-> headers]

RawResults == {Outcome(0, 0, "", "nil"), Outcome(1, 0, "out", "nil"),
               Outcome(0, 204, "", "map")}

(* A whitelisted command and a registry operation: decisions.              *)
DecisionContents == {Command("ls"), RegistryOp}
DecisionRules    == {whitelistKey(Command("ls"))}

(* Two bodies under one script name: the rules.                            *)
RuleContents == {Create("s", "b1"), Create("s", "b2")}
OneResult    == {Outcome(0, 0, "out", "nil")}
NoRules      == {}
NoActions    == {}

(* The condition of RelayProofs' theorem AutoApprovalIsReviewed holds of   *)
(* these contents.                                                         *)
ASSUME ContentsAssumption == KeysTellWorkApart

Perms == Permutations({c1, c2})

=============================================================================
