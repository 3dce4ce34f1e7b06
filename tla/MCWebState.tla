----------------------------- MODULE MCWebState -----------------------------
(***************************************************************************)
(* Small instances of the two parts of the web handler that operators      *)
(* change: the rules with their file (Whitelist) and the cooldown          *)
(* (Cooldown).  They share nothing, so a behaviour is one of either.       *)
(*                                                                         *)
(* Two handlers, three rules, and a file that holds one rule twice and one *)
(* that sets gate_output.  Three ticks a second, four a minute.            *)
(***************************************************************************)
EXTENDS Whitelist, Cooldown, TLC

CONSTANTS h1, h2, k1, k2, k3, c1

VARIABLE part

OldFile == [plain |-> [k \in Keys |-> IF k = k1 THEN 2 ELSE 0],
            gated |-> [k \in Keys |-> IF k = k2 THEN 1 ELSE 0]]

(* Missing, shorter than Base, longer, wrapped to a negative one, wrapped  *)
(* to a short one; missing, one minute, and more than the cap.             *)
PostedSecs == {0, 1, 4, 6, 11}
PostedMins == {0, 1, 3}

Perms == Permutations({h1, h2})

PartInit == part \in {"rules", "cooldown"} /\ Init /\ CooldownInit

PartNext ==
  \/ part = "rules" /\ Next /\ UNCHANGED <<part, cooldownVars>>
  \/ part = "cooldown" /\ CooldownNext /\ UNCHANGED <<part, vars>>

PartSpec == PartInit /\ [][PartNext]_<<part, vars, cooldownVars>>

=============================================================================
