--------------------------- MODULE MCCredentials ----------------------------
(***************************************************************************)
(* An instance of Credentials: two clients, two commands that may overlap  *)
(* each other and the relay, and environments with every kind of value and *)
(* of up to two entries, so that a variable can be missing, set once or    *)
(* set twice, and the approver's token can be nobody's, the auth token or  *)
(* a client's.  The two commands are alike.                                *)
(***************************************************************************)
EXTENDS Credentials, TLC

CONSTANTS n1, n2, p1, p2, auth, appr

Alike == Permutations({p1, p2})

Strings == {[cred |-> appr, padded |-> TRUE]} \cup {Bare(c) : c \in {appr, auth, 1}}

Entries ==
  [var : {"token"}, val : Texts({"empty", "spaces"}) \cup Strings]
    \cup [var : {"digest"}, val : Texts({"empty", "spaces", "junk"}) \cup Strings]

(* What the second entry of a block can do to the first.                   *)
Pairable == {e \in Entries : e.val \in Texts({"empty", "spaces"}) \cup {Bare(appr)}}

Environments ==
  {<< >>} \cup {<<e>> : e \in Entries} \cup {<<e, f>> : e, f \in Pairable}

=============================================================================
