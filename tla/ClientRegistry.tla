--------------------------- MODULE ClientRegistry ---------------------------
(***************************************************************************)
(* The registry of client tokens (auth/clients.go) and the two kinds of    *)
(* process that share its file: the relay, which loads it when it starts   *)
(* and rewrites it to record last_seen_at, and the command line            *)
(* (-client-add, -client-revoke in main.go), which loads, edits and        *)
(* rewrites it.  Registry.mu serialises the threads of one process and     *)
(* says nothing to another process.                                        *)
(*                                                                         *)
(* os.WriteFile truncates and then writes, so a process that is killed, or *)
(* whose write fails, in between leaves a file that does not parse; every  *)
(* later load refuses it.  A missing file is an empty registry.            *)
(*                                                                         *)
(* Nothing prevents an operator from running a command while the relay, or *)
(* another command, is running, and the README shows -client-add so.  A    *)
(* command whose run no other process's run overlaps is alone, and what it *)
(* reports is firm.                                                        *)
(***************************************************************************)
EXTENDS Naturals

CONSTANTS
  Names,       \* client names
  Clis,        \* command-line processes
  MaxTokens,   \* bound: tokens minted
  NoRow,       \* no client of that name
  Torn         \* a file that does not parse

Tokens == 1 .. MaxTokens
Row    == [token : Tokens, revoked : BOOLEAN]

ASSUME RegistryAssumption ==
  /\ Names # {}
  /\ MaxTokens \in Nat
  /\ NoRow \notin Row

Registry == [Names -> Row \cup {NoRow}]

ASSUME TornAssumption == Torn \notin Registry

VARIABLES
  file,      \* clients.json
  relay,     \* the relay process and its registry
  fresh,     \* the relay saved less than lastSeenFlushInterval ago
  cli,       \* per command: its process
  minted,    \* tokens minted so far; they are numbered in order
  \* history
  alone,     \* the commands under way that no other process has overlapped
  firm,      \* tokens that lone commands printed, and those they revoked
  revoking,  \* tokens a -client-revoke has set out to revoke
  revoked,   \* tokens whose -client-revoke exited 0
  known      \* revoked as it was when the relay last started

vars == <<file, relay, fresh, cli, minted, alone, firm, revoking, revoked, known>>
history == <<firm, revoking, revoked, known>>

Empty == [n \in Names |-> NoRow]

(* The file, the processes and their copies of it.                         *)
TypeOK ==
  /\ file \in Registry \cup {Torn}
  /\ relay \in [pc : {"down", "ready", "truncate", "write"}, mem : Registry]
  /\ fresh \in BOOLEAN
  /\ cli \in [Clis -> [pc : {"idle", "truncate", "write"},
                       op : {"add", "revoke"}, name : Names, mem : Registry]]
  /\ minted \in 0 .. MaxTokens
  /\ alone \subseteq Clis
  /\ firm \in [printed : SUBSET Tokens, revoked : SUBSET Tokens]
  /\ revoking \subseteq Tokens /\ revoked \subseteq Tokens /\ known \subseteq Tokens

Idle == [pc |-> "idle", op |-> "add", name |-> CHOOSE n \in Names : TRUE, mem |-> Empty]
Down == [pc |-> "down", mem |-> Empty]

Init ==
  /\ file = Empty
  /\ relay = Down
  /\ fresh = FALSE
  /\ cli = [p \in Clis |-> Idle]
  /\ minted = 0
  /\ alone = {} /\ revoking = {} /\ revoked = {} /\ known = {}
  /\ firm = [printed |-> {}, revoked |-> {}]

-----------------------------------------------------------------------------
(***************************************************************************)
(* The relay.                                                              *)
(***************************************************************************)

(* NewRegistry: a file that does not parse stops the relay.                *)
RelayStart ==
  /\ relay.pc = "down"
  /\ file # Torn
  /\ relay' = [pc |-> "ready", mem |-> file]
  /\ fresh' = FALSE
  /\ known' = revoked
  /\ alone' = {}
  /\ UNCHANGED <<file, cli, minted, firm, revoking, revoked>>

RelayStops ==
  /\ relay.pc # "down"
  /\ relay' = Down
  /\ UNCHANGED <<file, fresh, cli, minted, alone, history>>

Usable(row) == row # NoRow /\ ~row.revoked

Accepts(t) ==
  \E n \in Names : Usable(relay.mem[n]) /\ relay.mem[n].token = t

(* A write over what another process wrote since this one truncated the    *)
(* file leaves the longer text's tail behind.                              *)
Written(mem) == IF file = Torn THEN {mem} ELSE {mem, Torn}

(* Verify marks the client seen and saves, at most once per interval; the  *)
(* lock is held to the end of the save.  The result of the save is ignored.*)
Verify(t) ==
  /\ relay.pc = "ready"
  /\ Accepts(t)
  /\ ~fresh
  /\ relay' = [relay EXCEPT !.pc = "truncate"]
  /\ UNCHANGED <<file, fresh, cli, minted, alone, history>>

RelayTruncates ==
  /\ relay.pc = "truncate"
  /\ \/ file' = Torn /\ relay' = [relay EXCEPT !.pc = "write"]
     \/ file' = file /\ relay' = [relay EXCEPT !.pc = "ready"]    \* open failed
  /\ UNCHANGED <<fresh, cli, minted, alone, history>>

RelayWrites ==
  /\ relay.pc = "write"
  /\ \/ file' \in Written(relay.mem) /\ fresh' = TRUE
     \/ file' = Torn /\ UNCHANGED fresh                           \* write failed
  /\ relay' = [relay EXCEPT !.pc = "ready"]
  /\ UNCHANGED <<cli, minted, alone, history>>

FlushIntervalPasses ==
  /\ fresh
  /\ fresh' = FALSE
  /\ UNCHANGED <<file, relay, cli, minted, alone, history>>

-----------------------------------------------------------------------------
(***************************************************************************)
(* The command line.  A command that finds the file torn, the name taken   *)
(* (add) or unknown (revoke) exits 1 and changes nothing.                  *)
(***************************************************************************)
Quiet(p) == relay.pc = "down" /\ \A q \in Clis : q # p => cli[q].pc = "idle"

(* A revoked row keeps its name taken.                                     *)
Taken(name) == file[name] # NoRow

ClientAdd(p, name) ==
  /\ cli[p].pc = "idle"
  /\ file # Torn /\ ~Taken(name)
  /\ minted < MaxTokens
  /\ minted' = minted + 1
  /\ cli' = [cli EXCEPT ![p] = [pc |-> "truncate", op |-> "add", name |-> name,
               mem |-> [file EXCEPT ![name] = [token |-> minted + 1, revoked |-> FALSE]]]]
  /\ alone' = IF Quiet(p) THEN {p} ELSE {}
  /\ UNCHANGED <<file, relay, fresh, history>>

ClientRevoke(p, name) ==
  /\ cli[p].pc = "idle"
  /\ file # Torn /\ file[name] # NoRow
  /\ LET t == file[name].token IN
       \/ /\ file[name].revoked                  \* no-op, exit 0
          /\ revoked' = revoked \cup {t}
          /\ firm' = IF Quiet(p) THEN [firm EXCEPT !.revoked = @ \cup {t}] ELSE firm
          /\ alone' = {}
          /\ UNCHANGED <<cli, revoking>>
       \/ /\ ~file[name].revoked
          /\ revoking' = revoking \cup {t}
          /\ cli' = [cli EXCEPT ![p] = [pc |-> "truncate", op |-> "revoke", name |-> name,
                       mem |-> [file EXCEPT ![name].revoked = TRUE]]]
          /\ alone' = IF Quiet(p) THEN {p} ELSE {}
          /\ UNCHANGED <<revoked, firm>>
  /\ UNCHANGED <<file, relay, fresh, minted, known>>

CliTruncates(p) ==
  /\ cli[p].pc = "truncate"
  /\ file' = Torn
  /\ cli' = [cli EXCEPT ![p].pc = "write"]
  /\ UNCHANGED <<relay, fresh, minted, alone, history>>

(* The save succeeded: exit 0, and -client-add prints the token.           *)
CliWrites(p) ==
  /\ cli[p].pc = "write"
  /\ file' \in Written(cli[p].mem)
  /\ LET t == cli[p].mem[cli[p].name].token IN
       \/ /\ cli[p].op = "add"
          /\ firm' = IF p \in alone THEN [firm EXCEPT !.printed = @ \cup {t}] ELSE firm
          /\ UNCHANGED revoked
       \/ /\ cli[p].op = "revoke"
          /\ revoked' = revoked \cup {t}
          /\ firm' = IF p \in alone THEN [firm EXCEPT !.revoked = @ \cup {t}] ELSE firm
  /\ cli' = [cli EXCEPT ![p] = Idle]
  /\ alone' = alone \ {p}
  /\ UNCHANGED <<relay, fresh, minted, revoking, known>>

(* Mutant: a failed save is not reported.                                  *)
CliFailsQuietly(p) ==
  /\ cli[p].pc # "idle"
  /\ firm' = IF p \in alone
             THEN [firm EXCEPT !.printed = @ \cup {cli[p].mem[cli[p].name].token}] ELSE firm
  /\ cli' = [cli EXCEPT ![p] = Idle]
  /\ alone' = alone \ {p}
  /\ UNCHANGED <<file, relay, fresh, minted, revoking, revoked, known>>

(* The save failed, or the process was killed: the file is left as it is.  *)
CliFails(p) ==
  /\ cli[p].pc # "idle"
  /\ cli' = [cli EXCEPT ![p] = Idle]
  /\ alone' = alone \ {p}
  /\ UNCHANGED <<file, relay, fresh, minted, history>>

-----------------------------------------------------------------------------
Relay ==
  \/ RelayStart \/ RelayStops \/ (\E t \in Tokens : Verify(t))
  \/ RelayTruncates \/ RelayWrites \/ FlushIntervalPasses

Cli(p) ==
  \/ \E name \in Names : ClientAdd(p, name) \/ ClientRevoke(p, name)
  \/ CliTruncates(p) \/ CliWrites(p) \/ CliFails(p)

Next == Relay \/ \E p \in Clis : Cli(p)

Spec == Init /\ [][Next]_vars

-----------------------------------------------------------------------------
Up == relay.pc # "down"

(* A relay started after a successful revocation rejects the token.  False *)
(* when the command ran beside a relay: the relay's next flush of          *)
(* last_seen_at rewrites the file from its own memory, and the revocation  *)
(* is lost.                                                                *)
RevocationIsDurable == Up => \A t \in known : ~Accepts(t)

(* A relay accepts every token that a lone -client-add printed and nobody  *)
(* has tried to revoke, whatever crashed or failed since and whichever     *)
(* commands have run beside a relay since: a damaged file stops the relay, *)
(* it never loses clients quietly.  A client added beside a running relay  *)
(* is not among them: the relay's next flush of last_seen_at writes the    *)
(* file without it (maybeSaveLocked), and the printed token is lost.       *)
PrintedTokenAccepted == Up => \A t \in firm.printed \ revoking : Accepts(t)

=============================================================================
