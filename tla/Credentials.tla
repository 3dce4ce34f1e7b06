---------------------------- MODULE Credentials -----------------------------
(***************************************************************************)
(* How the relay comes up (main.go, approver_env.go, reexec_unix.go) and   *)
(* which tokens its two ports take afterwards (web/middleware.go,          *)
(* auth.Verifier), composed with the client registry: the approver's       *)
(* credential comes from the environment, the agents' from MHR_AUTH_TOKEN  *)
(* and from clients.json, and the two must stay apart over any sequence of *)
(* client commands, crashes and restarts.                                  *)
(*                                                                         *)
(* The block of environment entries the kernel keeps for the process is a  *)
(* sequence: a variable can be set twice.                                  *)
(***************************************************************************)
EXTENDS ClientRegistry, Sequences

CONSTANTS
  AuthToken,      \* MHR_AUTH_TOKEN
  ApproverToken,  \* a token nobody else holds
  Blocks,         \* the environments an operator starts the relay with
  NoDigest        \* no approver configured

Creds == Tokens \cup {AuthToken, ApproverToken}

(* A string of a credential's characters, perhaps with spaces around them. *)
(* It stands for its own SHA-256 too, which is one to one.                 *)
String == [cred : Creds, padded : BOOLEAN]
Bare(c) == [cred |-> c, padded |-> FALSE]

(* An entry of one of the two variables.  A value is empty, only spaces or *)
(* a string: the token itself, or the hex of its digest (spaces around the *)
(* hex are trimmed when it is read).  A digest can also be malformed.      *)
Texts(names) == [text : names]
Entry == [var : {"token"}, val : Texts({"empty", "spaces"}) \cup String]
           \cup [var : {"digest"}, val : Texts({"empty", "spaces", "junk"}) \cup String]

ASSUME CredentialsAssumption ==
  /\ AuthToken \notin Tokens /\ ApproverToken \notin Tokens /\ AuthToken # ApproverToken
  /\ Blocks \subseteq Seq(Entry)
  /\ NoDigest \notin String

VARIABLES
  boot,     \* "off", "main" (before the scrub), "scrubbed", "serving"
  block,    \* the kernel's copy of the process's environment
  given,    \* history: the block the operator started the relay with
  approver  \* the web port's approver digest

bootVars == <<boot, block, given, approver>>
allVars  == <<vars, bootVars>>

Text(v, t)  == "text" \in DOMAIN v /\ v.text = t
NonEmpty(v) == ~Text(v, "empty")

CredentialsInit ==
  /\ Init
  /\ boot = "off"
  /\ block = << >> /\ given = << >>
  /\ approver = NoDigest

-----------------------------------------------------------------------------
(***************************************************************************)
(* approver_env.go.                                                        *)
(***************************************************************************)
EntriesOf(b, var) == {i \in DOMAIN b : b[i].var = var}

Unset == [text |-> "empty"]

(* The value of a variable that appears at most once.                      *)
Lookup(b, var) ==
  IF EntriesOf(b, var) = {} THEN Unset ELSE b[CHOOSE i \in EntriesOf(b, var) : TRUE].val

(* A variable set twice, or to spaces only, is an error.                   *)
readApproverEnvFails(b) ==
  \/ \E i, j \in DOMAIN b : i # j /\ b[i].var = b[j].var
  \/ \E i \in DOMAIN b : Text(b[i].val, "spaces")

approverValuePresent(b) == \E i \in DOMAIN b : NonEmpty(b[i].val)

(* Every entry of either variable goes, and one digest is added.  A block  *)
(* here holds the entries of these two variables alone.                    *)
scrubbedApproverEnv(digest) == <<[var |-> "digest", val |-> digest]>>

-----------------------------------------------------------------------------
(* An operator starts the relay.                                           *)
Exec(b) ==
  /\ boot = "off"
  /\ relay.pc = "down"
  /\ boot' = "main"
  /\ block' = b /\ given' = b
  /\ UNCHANGED <<approver, vars>>

(* scrubPlaintextApproverToken: a plaintext token alone is swapped for its *)
(* digest by exec'ing the same binary again; if that fails the relay does  *)
(* not start.  Any other environment is left for approverDigestFromEnv.    *)
PlaintextAlone(b) ==
  /\ ~readApproverEnvFails(b)
  /\ NonEmpty(Lookup(b, "token")) /\ ~NonEmpty(Lookup(b, "digest"))

Exit ==
  /\ boot' = "off"
  /\ block' = << >> /\ given' = << >>
  /\ UNCHANGED <<approver, vars>>

(* Mutant: a failed exec is logged and the relay carries on.               *)
ScrubOrCarryOn ==
  /\ boot = "main"
  /\ boot' = "scrubbed"
  /\ \/ /\ PlaintextAlone(block)
        /\ block' = scrubbedApproverEnv(Lookup(block, "token"))
     \/ UNCHANGED block
  /\ UNCHANGED <<given, approver, vars>>

Scrub ==
  /\ boot = "main"
  /\ \/ /\ PlaintextAlone(block)
        /\ block' = scrubbedApproverEnv(Lookup(block, "token"))
        /\ UNCHANGED <<boot, given, approver, vars>>
     \/ PlaintextAlone(block) /\ Exit
     \/ /\ ~PlaintextAlone(block)
        /\ boot' = "scrubbed"
        /\ UNCHANGED <<block, given, approver, vars>>

-----------------------------------------------------------------------------
(* What approverDigestFromEnv returns: a digest, NoDigest for legacy mode, *)
(* or nothing, when it refuses to start.  It reads /proc/self/environ,     *)
(* which is assumed to be readable: where it is not, initialEnviron falls  *)
(* back on os.Environ, in which a repeated variable appears once.          *)
(* Mutant: os.Getenv, which returns the first of several entries.          *)
DigestFromGetenv(b) ==
  LET first(var) == IF EntriesOf(b, var) = {} THEN Unset
                    ELSE b[CHOOSE i \in EntriesOf(b, var) :
                             \A j \in EntriesOf(b, var) : i <= j].val
  IN IF first("token") \in String THEN {first("token")}
     ELSE IF first("digest") \in String THEN {first("digest")}
     ELSE IF NonEmpty(first("digest")) THEN {} ELSE {NoDigest}

approverDigestFromEnv(b) ==
  LET token  == Lookup(b, "token")
      digest == Lookup(b, "digest")
  IN IF readApproverEnvFails(b) THEN {}
     ELSE IF NonEmpty(token)
       THEN IF NonEmpty(digest) THEN {} ELSE {token}
     ELSE IF NonEmpty(digest)
       THEN IF Text(digest, "junk") THEN {} ELSE {digest}   \* ParseTokenDigest
     ELSE IF approverValuePresent(b) THEN {} ELSE {NoDigest}

(* MatchDigest: some client has this token, revoked or not.                *)
(* Mutant: only clients whose tokens still work.                           *)
MatchDigestLive(mem, d) ==
  \E n \in Names : mem[n] # NoRow /\ ~mem[n].revoked /\ d = Bare(mem[n].token)

MatchDigest(mem, d) ==
  \E n \in Names : mem[n] # NoRow /\ d = Bare(mem[n].token)

(* The rest of main: the registry is loaded, the approver read and         *)
(* compared with the agents' tokens, and both ports are served.            *)
(* Mutant: no comparison with the clients' tokens.                         *)
ServeUncompared ==
  /\ boot = "scrubbed"
  /\ RelayStart
  /\ \E d \in approverDigestFromEnv(block) :
       /\ d # Bare(AuthToken)
       /\ approver' = d
  /\ boot' = "serving"
  /\ UNCHANGED <<block, given>>

Serve ==
  /\ boot = "scrubbed"
  /\ RelayStart
  /\ \E d \in approverDigestFromEnv(block) :
       /\ d # Bare(AuthToken)
       /\ ~MatchDigest(file, d)
       /\ approver' = d
  /\ boot' = "serving"
  /\ UNCHANGED <<block, given>>

(* Any of the refusals, or a client command (handleClientCommand): the     *)
(* process that was started ends without serving.                          *)
Refuse ==
  /\ boot = "scrubbed"
  /\ Exit

Stop ==
  /\ boot = "serving"
  /\ RelayStops
  /\ boot' = "off"
  /\ block' = << >> /\ given' = << >>
  /\ approver' = NoDigest

-----------------------------------------------------------------------------
(***************************************************************************)
(* What the ports answer to a bearer token.  AuthMiddleware trims what it  *)
(* is sent, so a presented token has no spaces around it.                  *)
(***************************************************************************)
McpAccepts(c) == c = AuthToken \/ (c \in Tokens /\ Accepts(c))

(* VerifyRole on the web port: the approver first, then as on the MCP port.*)
IsApprover(c) == approver = Bare(c)
WebAccepts(c) == IsApprover(c) \/ McpAccepts(c)

(* Who may approve, deny, release or change rules: with an approver        *)
(* configured only that token, without one every token that is accepted.   *)
MayDecide(c) == IF approver = NoDigest THEN WebAccepts(c) ELSE IsApprover(c)

(* A bearer token that verifies as a client's marks the client as seen.    *)
AuthMiddleware(c) == c \in Tokens /\ ~IsApprover(c) /\ Verify(c)

RegistryStep ==
  /\ \/ \E c \in Creds : AuthMiddleware(c)
     \/ RelayTruncates \/ RelayWrites \/ FlushIntervalPasses
     \/ \E p \in Clis : Cli(p)
  /\ UNCHANGED bootVars

CredentialsNext ==
  \/ \E b \in Blocks : Exec(b)
  \/ Scrub \/ Serve \/ Refuse \/ Stop
  \/ RegistryStep

CredentialsSpec == CredentialsInit /\ [][CredentialsNext]_allVars

-----------------------------------------------------------------------------
Serving == boot = "serving"

(* "An operator who configured an approver must never get a relay where    *)
(* every agent token approves" (approverValuePresent): if the environment  *)
(* the relay was started with carries any approver value, whatever the     *)
(* duplicates, spaces and re-exec on the way, only an approver decides.    *)
ConfiguredGateIsUp ==
  Serving /\ approverValuePresent(given) => approver # NoDigest

(* While the relay can run commands, the environment block the kernel      *)
(* shows them holds no plaintext approver token.                           *)
PlaintextIsGone ==
  Serving => \A i \in DOMAIN block : block[i].var = "token" => ~NonEmpty(block[i].val)

(* With an approver configured, no token that the MCP port takes can       *)
(* decide: not the auth token, not a client's, and none minted later.      *)
AgentsCannotDecide ==
  Serving /\ approver # NoDigest => \A c \in Creds : McpAccepts(c) => ~MayDecide(c)

(* A token that a lone -client-revoke reported as revoked is taken by      *)
(* neither port, not even as the approver's, whichever commands have run   *)
(* beside a relay since.  A revocation beside a running relay can be lost  *)
(* (RevocationIsDurable), and that relay never reloads the file.           *)
RevokedTokenIsDead == Serving => \A t \in firm.revoked : ~WebAccepts(t)

=============================================================================
