------------------------- MODULE CredentialsProofs --------------------------
(***************************************************************************)
(* Proofs about the relay's start, its credentials and the client registry *)
(* (Credentials, which extends ClientRegistry), for every set of names,    *)
(* commands and environments and any number of tokens.                     *)
(*                                                                         *)
(* The start: what the operator configured is still in the block that is   *)
(* read in the end (ValueSurvives), and main goes past the scrub only with *)
(* no plaintext token on its own.  The registry: whatever overlaps what,   *)
(* every copy that can be written back, and the file itself unless it is   *)
(* torn, holds each token that a lone command printed and each revocation  *)
(* it reported (Sound), because while a command is alone there is no other *)
(* copy (LoneAreQuiet).                                                    *)
(***************************************************************************)
EXTENDS Credentials, TLAPS

-----------------------------------------------------------------------------
(***************************************************************************)
(* The inductive invariant of the client registry.                         *)
(***************************************************************************)

(* A copy of the registry in which live tokens are usable, dead ones are   *)
(* revoked, no two clients share a token, and none is newer than top.      *)
LiveIn(m, live) == \A t \in live : \E n \in Names : Usable(m[n]) /\ m[n].token = t
DeadIn(m, dead) ==
  \A t \in dead : \E n \in Names : m[n] # NoRow /\ m[n].token = t /\ m[n].revoked
Unique(m) ==
  \A n, q \in Names : m[n] # NoRow /\ m[q] # NoRow /\ m[n].token = m[q].token => n = q
Old(m, top) == \A n \in Names : m[n] # NoRow => m[n].token <= top

Sound(m, live, dead, top) ==
  LiveIn(m, live) /\ DeadIn(m, dead) /\ Unique(m) /\ Old(m, top)

IsSound(m) == Sound(m, firm.printed \ revoking, firm.revoked, minted)

(* A command that has begun holds the row it is about to save.             *)
CommandIsSound(p) ==
  cli[p].pc # "idle" =>
    /\ IsSound(cli[p].mem)
    /\ cli[p].op = "add" => Usable(cli[p].mem[cli[p].name])
    /\ cli[p].op = "revoke" => cli[p].mem[cli[p].name].revoked

LoneAreQuiet == \A p \in alone : Quiet(p)

FileIsSound  == file # Torn => IsSound(file)
RelayIsSound == relay.pc # "down" => IsSound(relay.mem)

Copies ==
  /\ LoneAreQuiet
  /\ FileIsSound
  /\ RelayIsSound
  /\ \A p \in Clis : CommandIsSound(p)

RowIsThere == \A p \in Clis : cli[p].pc # "idle" => cli[p].mem[cli[p].name] # NoRow

RegInv == TypeOK /\ RowIsThere /\ Copies

-----------------------------------------------------------------------------
(* -client-add: a new row with a new token.                                *)
LEMMA AddSound ==
  ASSUME NEW m \in Registry, NEW live, NEW dead, NEW top \in Nat,
         Sound(m, live, dead, top), NEW name \in Names, m[name] = NoRow,
         NEW row \in Row, row.token = top + 1
  PROVE  Sound([m EXCEPT ![name] = row], live, dead, top + 1)
<1>1. PICK n : n = [m EXCEPT ![name] = row]
  OBVIOUS
<1>2. n[name] = row /\ \A x \in Names : x # name => n[x] = m[x]
  BY <1>1 DEF Registry
<1>3. \A x \in Names : m[x] # NoRow => m[x].token \in Nat /\ m[x].token <= top
  BY RegistryAssumption DEF Sound, Old, Registry, Row, Tokens
<1>4. LiveIn(n, live)
  BY <1>2 DEF Sound, LiveIn, Usable
<1>5. DeadIn(n, dead)
  BY <1>2 DEF Sound, DeadIn
<1>6. Unique(n)
  BY <1>2, <1>3 DEF Sound, Unique
<1>7. Old(n, top + 1)
  BY <1>2, <1>3 DEF Sound, Old
<1> QED BY <1>1, <1>4, <1>5, <1>6, <1>7 DEF Sound

(* -client-revoke: the row is marked.                                      *)
LEMMA RevokeSound ==
  ASSUME NEW m \in Registry, NEW live, NEW dead, NEW top,
         Sound(m, live, dead, top), NEW name \in Names, m[name] # NoRow,
         NEW row \in Row, row.token = m[name].token, row.revoked
  PROVE  Sound([m EXCEPT ![name] = row], live \ {m[name].token}, dead, top)
<1>1. PICK n : n = [m EXCEPT ![name] = row]
  OBVIOUS
<1>2. n[name] = row /\ \A x \in Names : x # name => n[x] = m[x]
  BY <1>1 DEF Registry
<1>3. row # NoRow
  BY RegistryAssumption
<1>4. LiveIn(n, live \ {m[name].token})
  BY <1>2 DEF Sound, LiveIn, Usable
<1>5. DeadIn(n, dead)
  BY <1>2, <1>3 DEF Sound, DeadIn
<1>6. Unique(n)
  BY <1>2 DEF Sound, Unique
<1>7. Old(n, top)
  BY <1>2 DEF Sound, Old
<1> QED BY <1>1, <1>4, <1>5, <1>6, <1>7 DEF Sound

(* Less can be asked of a copy.                                            *)
LEMMA SoundWeakens ==
  ASSUME NEW m \in Registry, NEW live, NEW dead, NEW top \in Nat, Sound(m, live, dead, top),
         NEW fewer, fewer \subseteq live, NEW later \in Nat, top <= later
  PROVE  Sound(m, fewer, dead, later)
<1>1. \A x \in Names : m[x] # NoRow => m[x].token \in Nat
  BY RegistryAssumption DEF Registry, Row, Tokens
<1> QED BY <1>1 DEF Sound, LiveIn, Old

(* What a command reports is in the copy it saved.                         *)
LEMMA SoundWithAdded ==
  ASSUME NEW m, NEW live, NEW dead, NEW top, Sound(m, live, dead, top),
         NEW name \in Names, Usable(m[name])
  PROVE  Sound(m, live \cup {m[name].token}, dead, top)
BY DEF Sound, LiveIn

(* A revocation that is reported is in the copy that was saved.            *)
LEMMA SoundWithRevoked ==
  ASSUME NEW m, NEW live, NEW dead, NEW top, Sound(m, live, dead, top),
         NEW name \in Names, m[name] # NoRow, m[name].revoked
  PROVE  Sound(m, live, dead \cup {m[name].token}, top)
BY DEF Sound, DeadIn

-----------------------------------------------------------------------------
(***************************************************************************)
(* Types.                                                                  *)
(***************************************************************************)
Command == [pc : {"idle", "truncate", "write"}, op : {"add", "revoke"}, name : Names,
            mem : Registry]

(* The types of an idle command, of a stopped relay and of an empty        *)
(* registry.                                                               *)
LEMMA IdleType ==
  /\ Empty \in Registry /\ Idle \in Command
  /\ Down \in [pc : {"down", "ready", "truncate", "write"}, mem : Registry]
<1>1. Empty \in Registry
  BY DEF Empty, Registry
<1>2. (CHOOSE n \in Names : TRUE) \in Names
  BY RegistryAssumption
<1> QED BY <1>1, <1>2 DEF Idle, Down, Command

(* The types at the start.                                                 *)
LEMMA InitType == Init => TypeOK
<1> SUFFICES ASSUME Init PROVE TypeOK
  OBVIOUS
<1>1. fresh \in BOOLEAN
  BY DEF Init
<1>2. cli \in [Clis -> Command]
  BY IdleType DEF Init
<1>3. minted \in 0 .. MaxTokens
  BY RegistryAssumption DEF Init
<1>4. firm \in [printed : SUBSET Tokens, revoked : SUBSET Tokens]
  BY DEF Init
<1> QED BY <1>1, <1>2, <1>3, <1>4, IdleType DEF Init, TypeOK, Command

(* A step of the relay keeps the types.                                    *)
LEMMA RelayType == ASSUME TypeOK, Relay PROVE TypeOK'
<1>1. fresh' \in BOOLEAN
  BY DEF TypeOK, Relay, RelayStart, RelayStops, Verify, RelayTruncates, RelayWrites,
         FlushIntervalPasses
<1>2. /\ minted' \in 0 .. MaxTokens
      /\ alone' \subseteq Clis /\ firm' \in [printed : SUBSET Tokens, revoked : SUBSET Tokens]
      /\ revoking' \subseteq Tokens /\ revoked' \subseteq Tokens /\ known' \subseteq Tokens
      /\ cli' \in [Clis -> Command]
  BY DEF TypeOK, Relay, RelayStart, RelayStops, Verify, RelayTruncates, RelayWrites,
         FlushIntervalPasses, history, Command
<1>3. /\ file' \in Registry \cup {Torn}
      /\ relay' \in [pc : {"down", "ready", "truncate", "write"}, mem : Registry]
  <2>1. CASE RelayStart
    BY <2>1 DEF TypeOK, RelayStart
  <2>2. CASE RelayStops
    BY <2>2, IdleType DEF TypeOK, RelayStops
  <2>3. CASE \E t \in Tokens : Verify(t)
    BY <2>3 DEF TypeOK, Verify
  <2>4. CASE RelayTruncates
    BY <2>4 DEF TypeOK, RelayTruncates
  <2>5. CASE RelayWrites
    BY <2>5 DEF TypeOK, RelayWrites, Written
  <2>6. CASE FlushIntervalPasses
    BY <2>6 DEF TypeOK, FlushIntervalPasses
  <2> QED BY <2>1, <2>2, <2>3, <2>4, <2>5, <2>6 DEF Relay
<1> QED BY <1>1, <1>2, <1>3 DEF TypeOK, Command

(* -client-add reads the file, adds a row and is about to save it.         *)
LEMMA AddStep ==
  ASSUME TypeOK, NEW p \in Clis, NEW name \in Names, ClientAdd(p, name)
  PROVE  \E row \in Row : \E m \in Registry :
           /\ row.token = minted + 1 /\ ~row.revoked
           /\ file \in Registry /\ file[name] = NoRow
           /\ m = [file EXCEPT ![name] = row]
           /\ cli' = [cli EXCEPT ![p] = [pc |-> "truncate", op |-> "add",
                                         name |-> name, mem |-> m]]
<1>1. PICK no \in BOOLEAN : no = FALSE
  OBVIOUS
<1>2. minted + 1 \in Tokens
  BY RegistryAssumption DEF TypeOK, ClientAdd, Tokens
<1>3. PICK row : row = [token |-> minted + 1, revoked |-> no]
  OBVIOUS
<1>4. row \in Row /\ row.token = minted + 1
  BY <1>2, <1>3 DEF Row
<1>5. ~row.revoked
  BY <1>1, <1>3
<1>6. file \in Registry /\ file[name] = NoRow
  BY DEF TypeOK, ClientAdd, Taken
<1>7. PICK m : m = [file EXCEPT ![name] = row]
  OBVIOUS
<1>8. m \in Registry
  BY <1>4, <1>6, <1>7 DEF Registry
<1>9. cli' = [cli EXCEPT ![p] = [pc |-> "truncate", op |-> "add", name |-> name, mem |-> m]]
  BY <1>1, <1>3, <1>7 DEF ClientAdd
<1> QED BY <1>4, <1>5, <1>6, <1>7, <1>8, <1>9

(* -client-revoke of a client that is not revoked yet marks its row.       *)
LEMMA RevokeStep ==
  ASSUME TypeOK, NEW p \in Clis, NEW name \in Names, ClientRevoke(p, name),
         ~file[name].revoked
  PROVE  \E row \in Row : \E m \in Registry :
           /\ row.token = file[name].token /\ row.revoked
           /\ m = [file EXCEPT ![name] = row]
           /\ cli' = [cli EXCEPT ![p] = [pc |-> "truncate", op |-> "revoke",
                                         name |-> name, mem |-> m]]
<1>1. PICK yes \in BOOLEAN : yes = TRUE
  OBVIOUS
<1>2. file \in Registry /\ file[name] \in Row
  BY DEF TypeOK, ClientRevoke, Registry
<1>3. PICK row : row = [file[name] EXCEPT !.revoked = yes]
  OBVIOUS
<1>4. row \in Row /\ row.token = file[name].token
  BY <1>2, <1>3 DEF Row
<1>5. row.revoked = yes
  BY <1>2, <1>3 DEF Row
<1>6. row.revoked
  BY <1>1, <1>5
<1>7. PICK m : m = [file EXCEPT ![name] = row]
  OBVIOUS
<1>8. m \in Registry
  BY <1>2, <1>4, <1>7 DEF Registry
<1>9. cli' = [cli EXCEPT ![p] = [pc |-> "truncate", op |-> "revoke", name |-> name, mem |-> m]]
  <2>1. m = [file EXCEPT ![name].revoked = TRUE]
    BY <1>1, <1>3, <1>7
  <2> QED BY <2>1 DEF ClientRevoke
<1> QED BY <1>4, <1>6, <1>7, <1>8, <1>9

(* The token in the row that a command saves.                              *)
LEMMA RowToken ==
  ASSUME NEW m \in Registry, NEW name \in Names, m[name] # NoRow
  PROVE  m[name] \in Row /\ m[name].token \in Tokens
BY DEF Registry, Row

(* One more token among those that a lone command printed or revoked.      *)
LEMMA FirmGrows ==
  ASSUME NEW f \in [printed : SUBSET Tokens, revoked : SUBSET Tokens], NEW t \in Tokens
  PROVE  /\ [f EXCEPT !.printed = @ \cup {t}] \in [printed : SUBSET Tokens, revoked : SUBSET Tokens]
         /\ [f EXCEPT !.revoked = @ \cup {t}] \in [printed : SUBSET Tokens, revoked : SUBSET Tokens]
         /\ [f EXCEPT !.printed = @ \cup {t}].printed = f.printed \cup {t}
         /\ [f EXCEPT !.printed = @ \cup {t}].revoked = f.revoked
         /\ [f EXCEPT !.revoked = @ \cup {t}].printed = f.printed
         /\ [f EXCEPT !.revoked = @ \cup {t}].revoked = f.revoked \cup {t}
OBVIOUS

(* A step of a command keeps the types.                                    *)
LEMMA CliType ==
  ASSUME TypeOK, NEW p \in Clis, Cli(p), cli[p].pc # "idle" => cli[p].mem[cli[p].name] # NoRow
  PROVE  TypeOK'
<1>1. fresh' \in BOOLEAN
  BY DEF TypeOK, Cli, ClientAdd, ClientRevoke, CliTruncates, CliWrites, CliFails
<1>2. cli \in [Clis -> Command]
  BY DEF TypeOK, Command
<1>3. relay' = relay /\ known' = known /\ alone' \subseteq Clis
  BY DEF TypeOK, Cli, ClientAdd, ClientRevoke, CliTruncates, CliWrites, CliFails, history
<1> DEFINE Moved ==
      /\ file' \in Registry \cup {Torn} /\ minted' \in 0 .. MaxTokens
      /\ firm' \in [printed : SUBSET Tokens, revoked : SUBSET Tokens]
      /\ revoking' \subseteq Tokens /\ revoked' \subseteq Tokens
      /\ cli' \in [Clis -> Command]
<1>4. Moved
  <2>1. ASSUME NEW name \in Names, ClientAdd(p, name) PROVE  Moved
    <3>1. cli' \in [Clis -> Command]
      BY <1>2, <2>1, AddStep DEF Command
    <3>2. minted' \in 0 .. MaxTokens
      BY <2>1, RegistryAssumption DEF TypeOK, ClientAdd
    <3> QED BY <2>1, <3>1, <3>2 DEF TypeOK, ClientAdd, history
  <2>2. ASSUME NEW name \in Names, ClientRevoke(p, name) PROVE  Moved
    <3>1. file[name].token \in Tokens
      BY <2>2, RowToken DEF TypeOK, ClientRevoke
    <3>2. cli' \in [Clis -> Command]
      <4>1. CASE file[name].revoked
        BY <1>2, <2>2, <4>1 DEF ClientRevoke
      <4>2. CASE ~file[name].revoked
        BY <1>2, <2>2, <4>2, RevokeStep DEF Command
      <4> QED BY <4>1, <4>2
    <3>3. firm' \in [printed : SUBSET Tokens, revoked : SUBSET Tokens]
      BY <2>2, <3>1, FirmGrows DEF TypeOK, ClientRevoke
    <3> QED BY <2>2, <3>1, <3>2, <3>3 DEF TypeOK, ClientRevoke
  <2>3. CASE CliTruncates(p)
    BY <1>2, <2>3 DEF TypeOK, CliTruncates, history, Command
  <2>4. CASE CliWrites(p)
    <3>1. cli[p].mem \in Registry /\ cli[p].mem[cli[p].name].token \in Tokens
      BY <1>2, <2>4, RowToken DEF CliWrites, Command
    <3>2. file' \in Registry \cup {Torn}
      BY <2>4, <3>1 DEF CliWrites, Written
    <3>3. cli' \in [Clis -> Command]
      BY <1>2, <2>4, IdleType DEF CliWrites
    <3>4. firm' \in [printed : SUBSET Tokens, revoked : SUBSET Tokens]
      BY <2>4, <3>1, FirmGrows DEF TypeOK, CliWrites
    <3> QED BY <2>4, <3>1, <3>2, <3>3, <3>4 DEF TypeOK, CliWrites
  <2>5. CASE CliFails(p)
    BY <1>2, <2>5, IdleType DEF TypeOK, CliFails, history
  <2> QED BY <2>1, <2>2, <2>3, <2>4, <2>5 DEF Cli
<1> QED BY <1>1, <1>3, <1>4 DEF TypeOK, Command

-----------------------------------------------------------------------------
(***************************************************************************)
(* The registry's invariant, step by step.                                 *)
(***************************************************************************)

(* An empty registry, and nobody has a copy.                               *)
LEMMA InitRegInv == Init => RegInv
<1> SUFFICES ASSUME Init PROVE RegInv
  OBVIOUS
<1>1. \A p \in Clis : cli[p].pc = "idle"
  BY DEF Init, Idle
<1>2. relay.pc = "down" /\ alone = {}
  BY DEF Init, Down
<1>3. FileIsSound
  BY DEF Init, FileIsSound, IsSound, Sound, LiveIn, DeadIn, Unique, Old, Empty
<1> QED BY <1>1, <1>2, <1>3, InitType
        DEF RegInv, Copies, LoneAreQuiet, RelayIsSound, CommandIsSound, RowIsThere

(* The relay and what it reports to nobody: tokens and rows stay, and a    *)
(* relay that starts ends every command's solitude.                        *)
LEMMA RelayRegInv == ASSUME RegInv, Relay PROVE RegInv'
<1>1. TypeOK'
  BY RelayType DEF RegInv
<1>2. UNCHANGED <<cli, minted, firm, revoking>>
  BY DEF Relay, RelayStart, RelayStops, Verify, RelayTruncates, RelayWrites,
         FlushIntervalPasses, history
<1>3. RowIsThere'
  BY <1>2 DEF RegInv, RowIsThere
<1>4. \A p \in Clis : CommandIsSound(p)'
  BY <1>2 DEF RegInv, Copies, CommandIsSound, IsSound
<1>5. \/ relay' = Down /\ file' = file
      \/ relay'.pc # "down" /\ relay'.mem = relay.mem /\ relay.pc # "down"
           /\ file' \in {file, Torn, relay.mem}
      \/ relay' = relay /\ file' = file
      \/ relay'.pc # "down" /\ relay'.mem = file /\ file # Torn /\ file' = file
  <2>1. CASE RelayStart
    BY <2>1 DEF RelayStart
  <2>2. CASE RelayStops
    BY <2>2 DEF RelayStops
  <2>3. CASE \E t \in Tokens : Verify(t)
    BY <2>3 DEF Verify, RegInv, TypeOK
  <2>4. CASE RelayTruncates
    BY <2>4 DEF RelayTruncates, RegInv, TypeOK
  <2>5. CASE RelayWrites
    BY <2>5 DEF RelayWrites, Written, RegInv, TypeOK
  <2>6. CASE FlushIntervalPasses
    BY <2>6 DEF FlushIntervalPasses
  <2> QED BY <2>1, <2>2, <2>3, <2>4, <2>5, <2>6 DEF Relay
<1>6. LoneAreQuiet'
  <2>1. \/ alone' = {}
        \/ alone' = alone /\ (relay.pc = "down" => relay'.pc = "down")
    BY DEF Relay, RelayStart, RelayStops, Verify, RelayTruncates, RelayWrites,
           FlushIntervalPasses
  <2> QED BY <1>2, <2>1 DEF RegInv, Copies, LoneAreQuiet, Quiet
<1>7. file' # Torn => IsSound(file')
  BY <1>5 DEF RegInv, Copies, FileIsSound, RelayIsSound
<1>8. relay'.pc # "down" => IsSound(relay'.mem)
  BY <1>5 DEF RegInv, Copies, FileIsSound, RelayIsSound, Down
<1>9. FileIsSound' /\ RelayIsSound'
  BY <1>2, <1>7, <1>8 DEF FileIsSound, RelayIsSound, IsSound
<1> QED BY <1>1, <1>3, <1>4, <1>6, <1>9 DEF RegInv, Copies

(* What a sound copy is asked for after a step, it had before.             *)
Kept == \A m \in Registry : IsSound(m) => IsSound(m)'

(* Unless more is asked, or with no other copy about, only the file and    *)
(* the command's own copy are to be looked at.                             *)
LEMMA OthersAreSound ==
  ASSUME RegInv, NEW p \in Clis, Cli(p), Kept \/ Quiet(p), CommandIsSound(p)'
  PROVE  RelayIsSound' /\ \A q \in Clis : CommandIsSound(q)'
<1>1. cli \in [Clis -> Command] /\ relay.mem \in Registry
  BY DEF RegInv, TypeOK, Command
<1>2. relay' = relay
  BY DEF Cli, ClientAdd, ClientRevoke, CliTruncates, CliWrites, CliFails
<1>3. \A q \in Clis : q # p => cli'[q] = cli[q]
  BY <1>1 DEF Cli, ClientAdd, ClientRevoke, CliTruncates, CliWrites, CliFails
<1>4. RelayIsSound'
  BY <1>1, <1>2 DEF RegInv, Copies, RelayIsSound, Kept, Quiet, IsSound
<1>5. ASSUME NEW q \in Clis, q # p PROVE CommandIsSound(q)'
  <2>1. cli'[q] = cli[q] /\ cli[q].mem \in Registry
    BY <1>1, <1>3, <1>5 DEF Command
  <2>2. CASE cli[q].pc = "idle"
    BY <2>1, <2>2 DEF CommandIsSound
  <2>3. CASE cli[q].pc # "idle"
    <3>1. Kept /\ CommandIsSound(q)
      BY <1>5, <2>3 DEF Quiet, RegInv, Copies
    <3>2. IsSound(cli[q].mem) /\ (IsSound(cli[q].mem) => Sound(cli[q].mem,
            firm'.printed \ revoking', firm'.revoked, minted'))
      BY <2>1, <2>3, <3>1 DEF Kept, CommandIsSound, IsSound
    <3> QED BY <2>1, <2>3, <3>1, <3>2 DEF CommandIsSound, IsSound
  <2> QED BY <2>2, <2>3
<1> QED BY <1>4, <1>5

(* A command that has been alone so far still is, unless another starts.   *)
LEMMA LoneStayQuiet ==
  ASSUME RegInv, NEW p \in Clis, Cli(p)
  PROVE  LoneAreQuiet'
<1>1. cli \in [Clis -> Command]
  BY DEF RegInv, TypeOK, Command
<1>2. relay' = relay /\ \A q \in Clis : q # p => cli'[q] = cli[q]
  BY <1>1 DEF Cli, ClientAdd, ClientRevoke, CliTruncates, CliWrites, CliFails
<1>3. \/ alone' \subseteq {p} /\ (alone' # {} => Quiet(p))
      \/ alone' = alone /\ cli[p].pc # "idle"
      \/ alone' = alone \ {p} /\ cli'[p].pc = "idle"
  BY <1>1 DEF Cli, ClientAdd, ClientRevoke, CliTruncates, CliWrites, CliFails, Idle
<1> SUFFICES ASSUME NEW q \in alone' PROVE Quiet(q)'
  BY DEF LoneAreQuiet
<1>4. CASE alone' \subseteq {p} /\ Quiet(p)
  BY <1>2, <1>4 DEF Quiet
<1>5. CASE alone' = alone /\ cli[p].pc # "idle"
  <2>1. Quiet(q)
    BY <1>5 DEF RegInv, Copies, LoneAreQuiet
  <2> QED BY <1>2, <1>5, <2>1 DEF Quiet
<1>6. CASE alone' = alone \ {p} /\ cli'[p].pc = "idle"
  <2>1. Quiet(q)
    BY <1>6 DEF RegInv, Copies, LoneAreQuiet
  <2> QED BY <1>2, <1>6, <2>1 DEF Quiet
<1> QED BY <1>3, <1>4, <1>5, <1>6

(* -client-add: the new row is in the copy alone, with a token newer than  *)
(* any in the file.                                                        *)
LEMMA ClientAddSound ==
  ASSUME RegInv, NEW p \in Clis, NEW name \in Names, ClientAdd(p, name)
  PROVE  Kept /\ FileIsSound' /\ CommandIsSound(p)'
<1>1. PICK row \in Row, m \in Registry :
        /\ row.token = minted + 1 /\ ~row.revoked
        /\ file \in Registry /\ file[name] = NoRow
        /\ m = [file EXCEPT ![name] = row]
        /\ cli' = [cli EXCEPT ![p] = [pc |-> "truncate", op |-> "add",
                                      name |-> name, mem |-> m]]
  BY AddStep DEF RegInv
<1>2. /\ cli'[p].pc = "truncate" /\ cli'[p].op = "add" /\ cli'[p].name = name
      /\ cli'[p].mem = m
  BY <1>1 DEF RegInv, TypeOK
<1>3. UNCHANGED <<file, firm, revoking>> /\ minted' = minted + 1
  BY DEF ClientAdd, history
<1>4. minted \in Nat /\ file # Torn
  BY RegistryAssumption DEF RegInv, TypeOK, ClientAdd
<1>5. PICK live, dead : live = firm.printed \ revoking /\ dead = firm.revoked
  OBVIOUS
<1>6. Sound(file, live, dead, minted)
  BY <1>4, <1>5 DEF RegInv, Copies, FileIsSound, IsSound
<1>7. Sound(m, live, dead, minted + 1)
  BY <1>1, <1>4, <1>6, AddSound
<1>8. \A x \in Registry : Sound(x, live, dead, minted) => Sound(x, live, dead, minted + 1)
  BY <1>4, SoundWeakens
<1>9. Usable(m[name])
  <2>1. m[name] = row /\ row # NoRow
    BY <1>1, RegistryAssumption DEF Registry
  <2> QED BY <1>1, <2>1 DEF Usable
<1>10. Kept
  BY <1>3, <1>5, <1>8 DEF Kept, IsSound
<1>11. FileIsSound'
  BY <1>1, <1>3, <1>5, <1>6, <1>8 DEF FileIsSound, IsSound
<1>12. CommandIsSound(p)'
  BY <1>2, <1>3, <1>5, <1>7, <1>9 DEF CommandIsSound, IsSound
<1> QED BY <1>10, <1>11, <1>12

(* -client-revoke: from here on the token is nobody's to count on, and the *)
(* copy has it revoked; a client that is revoked already changes nothing.  *)
LEMMA ClientRevokeSound ==
  ASSUME RegInv, NEW p \in Clis, NEW name \in Names, ClientRevoke(p, name)
  PROVE  (Kept \/ Quiet(p)) /\ FileIsSound' /\ CommandIsSound(p)'
<1>1. UNCHANGED <<file, minted>> /\ file # Torn /\ file[name] # NoRow
  BY DEF ClientRevoke
<1>2. /\ file \in Registry /\ minted \in Nat /\ cli \in [Clis -> Command]
      /\ firm \in [printed : SUBSET Tokens, revoked : SUBSET Tokens]
  BY <1>1, RegistryAssumption DEF RegInv, TypeOK, Command
<1>3. PICK live, dead : live = firm.printed \ revoking /\ dead = firm.revoked
  OBVIOUS
<1>4. Sound(file, live, dead, minted)
  BY <1>1, <1>3 DEF RegInv, Copies, FileIsSound, IsSound
<1>5. PICK t \in Tokens : t = file[name].token
  BY <1>1, <1>2, RowToken
<1>6. CASE file[name].revoked
  <2>1. /\ UNCHANGED <<cli, revoking>> /\ cli[p].pc = "idle"
        /\ firm' = IF Quiet(p) THEN [firm EXCEPT !.revoked = @ \cup {t}] ELSE firm
    BY <1>5, <1>6 DEF ClientRevoke
  <2>2. CommandIsSound(p)'
    BY <2>1 DEF CommandIsSound
  <2>3. CASE Quiet(p)
    <3>1. firm'.printed = firm.printed /\ firm'.revoked = firm.revoked \cup {t}
      BY <1>2, <2>1, <2>3, FirmGrows
    <3>2. Sound(file, live, dead \cup {t}, minted)
      BY <1>1, <1>4, <1>5, <1>6, SoundWithRevoked
    <3>3. FileIsSound'
      BY <1>1, <1>3, <2>1, <3>1, <3>2 DEF FileIsSound, IsSound
    <3> QED BY <2>2, <2>3, <3>3
  <2>4. CASE ~Quiet(p)
    <3>1. UNCHANGED <<file, minted, firm, revoking>>
      BY <1>1, <2>1, <2>4
    <3>2. Kept /\ FileIsSound'
      BY <1>3, <1>4, <3>1 DEF Kept, FileIsSound, IsSound
    <3> QED BY <2>2, <3>2
  <2> QED BY <2>3, <2>4
<1>7. CASE ~file[name].revoked
  <2>1. revoking' = revoking \cup {t} /\ UNCHANGED firm
    BY <1>5, <1>7 DEF ClientRevoke
  <2>2. PICK row \in Row, m \in Registry :
          /\ row.token = file[name].token /\ row.revoked
          /\ m = [file EXCEPT ![name] = row]
          /\ cli' = [cli EXCEPT ![p] = [pc |-> "truncate", op |-> "revoke",
                                        name |-> name, mem |-> m]]
    BY <1>7, RevokeStep DEF RegInv
  <2>3. /\ cli'[p].pc = "truncate" /\ cli'[p].op = "revoke" /\ cli'[p].name = name
        /\ cli'[p].mem = m /\ m[name] = row
    BY <1>2, <2>2 DEF Registry
  <2>4. Sound(m, live \ {t}, dead, minted)
    BY <1>1, <1>2, <1>4, <1>5, <2>2, RevokeSound
  <2>5. firm'.printed \ revoking' = live \ {t} /\ firm'.revoked = dead
    BY <1>3, <2>1
  <2>6. \A x \in Registry : Sound(x, live, dead, minted) => Sound(x, live \ {t}, dead, minted)
    BY <1>2, SoundWeakens
  <2>7. Kept
    BY <1>1, <1>3, <2>5, <2>6 DEF Kept, IsSound
  <2>8. FileIsSound'
    BY <1>1, <1>2, <1>4, <2>5, <2>6 DEF FileIsSound, IsSound
  <2>9. CommandIsSound(p)'
    BY <1>1, <2>2, <2>3, <2>4, <2>5 DEF CommandIsSound, IsSound
  <2> QED BY <2>7, <2>8, <2>9
<1> QED BY <1>6, <1>7

(* The file is torn until the command has written its copy.                *)
LEMMA CliTruncatesSound ==
  ASSUME RegInv, NEW p \in Clis, CliTruncates(p)
  PROVE  Kept /\ FileIsSound' /\ CommandIsSound(p)'
<1>1. cli \in [Clis -> Command]
  BY DEF RegInv, TypeOK, Command
<1>2. /\ cli'[p].op = cli[p].op /\ cli'[p].name = cli[p].name /\ cli'[p].mem = cli[p].mem
      /\ cli[p].pc # "idle"
  BY <1>1 DEF CliTruncates, Command
<1>3. UNCHANGED <<minted, firm, revoking>> /\ file' = Torn
  BY DEF CliTruncates, history
<1>4. CommandIsSound(p)
  BY DEF RegInv, Copies
<1> QED BY <1>2, <1>3, <1>4 DEF Kept, FileIsSound, CommandIsSound, IsSound

(* The token a lone command reports is in the file it has written, and     *)
(* there is no other copy.                                                 *)
LEMMA CliWritesSound ==
  ASSUME RegInv, NEW p \in Clis, CliWrites(p)
  PROVE  (Kept \/ Quiet(p)) /\ FileIsSound' /\ CommandIsSound(p)'
<1>1. /\ cli \in [Clis -> Command] /\ minted \in Nat
      /\ firm \in [printed : SUBSET Tokens, revoked : SUBSET Tokens]
  BY RegistryAssumption DEF RegInv, TypeOK, Command
<1>2. PICK m \in Registry, name \in Names : m = cli[p].mem /\ name = cli[p].name
  BY <1>1 DEF Command
<1>3. PICK live, dead : live = firm.printed \ revoking /\ dead = firm.revoked
  OBVIOUS
<1>4. /\ Sound(m, live, dead, minted) /\ m[name] # NoRow
      /\ cli[p].op = "add" => Usable(m[name])
      /\ cli[p].op = "revoke" => m[name].revoked
  BY <1>2, <1>3 DEF RegInv, Copies, RowIsThere, CommandIsSound, CliWrites, IsSound
<1>5. file' \in {m, Torn} /\ UNCHANGED <<minted, revoking>>
  BY <1>2 DEF CliWrites, Written
<1>6. CommandIsSound(p)'
  BY <1>1 DEF CliWrites, CommandIsSound, Idle
<1>7. PICK t \in Tokens : t = m[name].token
  BY <1>4, RowToken
<1>8. CASE p \notin alone
  <2>1. UNCHANGED firm
    BY <1>8 DEF CliWrites
  <2> QED BY <1>3, <1>4, <1>5, <1>6, <2>1 DEF Kept, FileIsSound, IsSound
<1>9. CASE p \in alone
  <2>1. Quiet(p)
    BY <1>9 DEF RegInv, Copies, LoneAreQuiet
  <2>2. CASE cli[p].op = "add"
    <3>1. firm' = [firm EXCEPT !.printed = @ \cup {t}]
      BY <1>2, <1>7, <1>9, <2>2 DEF CliWrites
    <3>2. firm'.printed = firm.printed \cup {t} /\ firm'.revoked = dead
      BY <1>1, <1>3, <3>1, FirmGrows
    <3>3. Sound(m, live \cup {t}, dead, minted)
      BY <1>4, <1>7, <2>2, SoundWithAdded
    <3>4. Sound(m, firm'.printed \ revoking, dead, minted)
      BY <1>1, <1>3, <3>2, <3>3, SoundWeakens
    <3> QED BY <1>5, <1>6, <2>1, <3>2, <3>4 DEF FileIsSound, IsSound
  <2>3. CASE cli[p].op = "revoke"
    <3>1. firm' = [firm EXCEPT !.revoked = @ \cup {t}]
      BY <1>2, <1>7, <1>9, <2>3 DEF CliWrites
    <3>2. firm'.printed = firm.printed /\ firm'.revoked = dead \cup {t}
      BY <1>1, <1>3, <3>1, FirmGrows
    <3>3. Sound(m, live, dead \cup {t}, minted)
      BY <1>4, <1>7, <2>3, SoundWithRevoked
    <3> QED BY <1>3, <1>5, <1>6, <2>1, <3>2, <3>3 DEF FileIsSound, IsSound
  <2> QED BY <1>1, <2>2, <2>3 DEF Command
<1> QED BY <1>8, <1>9

(* A command that fails leaves a file that is torn or as it was.           *)
LEMMA CliFailsSound ==
  ASSUME RegInv, NEW p \in Clis, CliFails(p)
  PROVE  Kept /\ FileIsSound' /\ CommandIsSound(p)'
<1>1. cli'[p].pc = "idle"
  BY DEF RegInv, TypeOK, CliFails, Idle
<1>2. UNCHANGED <<file, minted, firm, revoking>>
  BY DEF CliFails, history
<1> QED BY <1>1, <1>2 DEF RegInv, Copies, Kept, FileIsSound, CommandIsSound, IsSound

(* A command, alone or not.                                                *)
LEMMA CliRegInv == ASSUME RegInv, NEW p \in Clis, Cli(p) PROVE RegInv'
<1>1. TypeOK'
  BY CliType DEF RegInv, RowIsThere
<1>2. (Kept \/ Quiet(p)) /\ FileIsSound' /\ CommandIsSound(p)'
  BY ClientAddSound, ClientRevokeSound, CliTruncatesSound, CliWritesSound, CliFailsSound DEF Cli
<1>3. cli \in [Clis -> Command]
  BY DEF RegInv, TypeOK, Command
<1>4. RowIsThere'
  <2>1. \A q \in Clis : q # p => cli'[q] = cli[q]
    BY <1>3 DEF Cli, ClientAdd, ClientRevoke, CliTruncates, CliWrites, CliFails
  <2>2. cli'[p].pc # "idle" => cli'[p].mem[cli'[p].name] # NoRow
    <3>1. ASSUME NEW name \in Names, ClientAdd(p, name), NEW m \in Registry, NEW row \in Row,
                 m = [file EXCEPT ![name] = row], file \in Registry,
                 cli' = [cli EXCEPT ![p] = [pc |-> "truncate", op |-> "add",
                                            name |-> name, mem |-> m]]
          PROVE  cli'[p].mem[cli'[p].name] # NoRow
      BY <1>3, <3>1, RegistryAssumption DEF Registry
    <3>2. ASSUME NEW name \in Names, ClientRevoke(p, name), NEW m \in Registry, NEW row \in Row,
                 m = [file EXCEPT ![name] = row], file \in Registry,
                 cli' = [cli EXCEPT ![p] = [pc |-> "truncate", op |-> "revoke",
                                            name |-> name, mem |-> m]]
          PROVE  cli'[p].mem[cli'[p].name] # NoRow
      BY <1>3, <3>2, RegistryAssumption DEF Registry
    <3>3. ASSUME NEW name \in Names, ClientAdd(p, name)
          PROVE  cli'[p].mem[cli'[p].name] # NoRow
      BY <3>1, <3>3, AddStep DEF RegInv
    <3>4. ASSUME NEW name \in Names, ClientRevoke(p, name), ~file[name].revoked
          PROVE  cli'[p].mem[cli'[p].name] # NoRow
      <4>1. file \in Registry
        BY <3>4 DEF RegInv, TypeOK, ClientRevoke
      <4> QED BY <3>2, <3>4, <4>1, RevokeStep DEF RegInv
    <3>5. ASSUME NEW name \in Names, ClientRevoke(p, name), file[name].revoked
          PROVE  cli'[p].pc = "idle"
      BY <3>5 DEF ClientRevoke
    <3>6. CASE CliTruncates(p)
      BY <1>3, <3>6 DEF CliTruncates, RegInv, RowIsThere, Command
    <3>7. CASE CliWrites(p) \/ CliFails(p)
      BY <1>3, <3>7 DEF CliWrites, CliFails, Idle
    <3> QED BY <3>3, <3>4, <3>5, <3>6, <3>7 DEF Cli
  <2> QED BY <2>1, <2>2 DEF RegInv, RowIsThere
<1> QED BY <1>1, <1>2, <1>4, OthersAreSound, LoneStayQuiet DEF RegInv, Copies

(* A step of the registry.                                                 *)
LEMMA RegistryRegInv ==
  ASSUME RegInv, [Next]_vars
  PROVE  RegInv'
<1>1. CASE UNCHANGED vars
  <2>1. UNCHANGED <<file, relay, fresh, cli, minted, alone, firm, revoking, revoked, known>>
    BY <1>1 DEF vars
  <2> QED BY <2>1 DEF RegInv, TypeOK, RowIsThere, Copies, LoneAreQuiet, Quiet, FileIsSound,
                      RelayIsSound, CommandIsSound, IsSound
<1>2. CASE Relay
  BY <1>2, RelayRegInv
<1>3. ASSUME NEW p \in Clis, Cli(p) PROVE RegInv'
  BY <1>3, CliRegInv
<1> QED BY <1>1, <1>2, <1>3 DEF Next

-----------------------------------------------------------------------------
(***************************************************************************)
(* The start of the relay.                                                 *)
(***************************************************************************)
Values == Texts({"empty", "spaces", "junk"}) \cup String

(* The block keeps a value if the operator gave one; main is past the      *)
(* scrub only with no plaintext token on its own.                          *)
BootType ==
  /\ boot \in {"off", "main", "scrubbed", "serving"}
  /\ block \in Seq(Entry) /\ given \in Seq(Entry)
  /\ approver \in String \cup {NoDigest}

ValueSurvives    == approverValuePresent(given) => approverValuePresent(block)
ScrubIsDone      == boot = "scrubbed" => ~PlaintextAlone(block)
RelayIsServing   == relay.pc # "down" <=> boot = "serving"
ApproverIsApart  ==
  boot = "serving" => approver # Bare(AuthToken) /\ ~MatchDigest(relay.mem, approver)

CrInv ==
  /\ RegInv /\ BootType /\ ValueSurvives /\ ScrubIsDone /\ RelayIsServing
  /\ ConfiguredGateIsUp /\ PlaintextIsGone /\ ApproverIsApart

(* A value that is neither empty, nor spaces, nor junk is a string.        *)
LEMMA ValueIsString ==
  ASSUME NEW v \in Values, NonEmpty(v), ~Text(v, "spaces"), ~Text(v, "junk")
  PROVE  v \in String
BY DEF Values, Texts, NonEmpty, Text

(* What Lookup finds in a block that readApproverEnv accepts.              *)
LEMMA LookupFinds ==
  ASSUME NEW b \in Seq(Entry), ~readApproverEnvFails(b), NEW var \in {"token", "digest"}
  PROVE  /\ Lookup(b, var) \in Values
         /\ ~Text(Lookup(b, var), "spaces")
         /\ var = "token" => ~Text(Lookup(b, var), "junk")
         /\ \A i \in DOMAIN b : b[i].var = var => Lookup(b, var) = b[i].val
<1>1. \A i \in DOMAIN b : b[i] \in Entry
  OBVIOUS
<1>2. CASE EntriesOf(b, var) = {}
  <2>1. Lookup(b, var) = Unset
    BY <1>2 DEF Lookup
  <2>2. Unset \in Values /\ ~Text(Unset, "spaces") /\ ~Text(Unset, "junk")
    BY DEF Unset, Values, Texts, Text
  <2> QED BY <1>2, <2>1, <2>2 DEF EntriesOf
<1>3. CASE EntriesOf(b, var) # {}
  <2>1. PICK i \in DOMAIN b : b[i].var = var /\ Lookup(b, var) = b[i].val
    BY <1>3 DEF EntriesOf, Lookup
  <2>2. \A j \in DOMAIN b : b[j].var = var => j = i
    BY <2>1 DEF readApproverEnvFails
  <2>3. ~Text(b[i].val, "spaces")
    BY DEF readApproverEnvFails
  <2>4. b[i] \in Entry
    BY <1>1
  <2>5. PICK e : e = b[i]
    OBVIOUS
  <2>6. e.val \in Values
    BY <2>4, <2>5 DEF Entry, Values, Texts
  <2>7. e.var = "token" => ~Text(e.val, "junk")
    <3>1. CASE e.val \in Texts({"empty", "spaces"})
      BY <3>1 DEF Texts, Text
    <3>2. CASE e.val \in String
      <4>1. DOMAIN e.val = {"cred", "padded"}
        BY <3>2 DEF String
      <4> QED BY <4>1 DEF Text
    <3> QED BY <2>4, <2>5, <3>1, <3>2 DEF Entry
  <2> QED BY <2>1, <2>2, <2>3, <2>5, <2>6, <2>7
<1> QED BY <1>2, <1>3

(* The approver that main reads: a string if there is any value, and no    *)
(* plaintext token beside a digest.                                        *)
LEMMA DigestIsRead ==
  ASSUME NEW b \in Seq(Entry), NEW d \in approverDigestFromEnv(b)
  PROVE  /\ d \in String \cup {NoDigest}
         /\ approverValuePresent(b) => d # NoDigest
         /\ ~PlaintextAlone(b) =>
              \A i \in DOMAIN b : b[i].var = "token" => ~NonEmpty(b[i].val)
<1>1. ~readApproverEnvFails(b)
  BY DEF approverDigestFromEnv
<1>2. PICK token : token = Lookup(b, "token")
  OBVIOUS
<1>3. PICK digest : digest = Lookup(b, "digest")
  OBVIOUS
<1>4. /\ token \in Values /\ ~Text(token, "spaces") /\ ~Text(token, "junk")
      /\ \A i \in DOMAIN b : b[i].var = "token" => token = b[i].val
  BY <1>1, <1>2, LookupFinds
<1>5. digest \in Values /\ ~Text(digest, "spaces")
  BY <1>1, <1>3, LookupFinds
<1>6. \/ NonEmpty(token) /\ ~NonEmpty(digest) /\ d = token
      \/ ~NonEmpty(token) /\ NonEmpty(digest) /\ ~Text(digest, "junk") /\ d = digest
      \/ ~NonEmpty(token) /\ ~approverValuePresent(b) /\ d = NoDigest
  BY <1>1, <1>2, <1>3 DEF approverDigestFromEnv
<1>7. NoDigest \notin String
  BY CredentialsAssumption
<1>8. CASE NonEmpty(token)
  <2>1. d \in String
    BY <1>4, <1>6, <1>8, ValueIsString
  <2>2. PlaintextAlone(b)
    BY <1>1, <1>2, <1>3, <1>6, <1>8 DEF PlaintextAlone
  <2> QED BY <1>7, <2>1, <2>2
<1>9. CASE ~NonEmpty(token)
  <2>1. \A i \in DOMAIN b : b[i].var = "token" => ~NonEmpty(b[i].val)
    BY <1>4, <1>9
  <2>2. CASE NonEmpty(digest) /\ ~Text(digest, "junk") /\ d = digest
    BY <1>5, <1>7, <2>1, <2>2, ValueIsString
  <2>3. CASE ~approverValuePresent(b) /\ d = NoDigest
    BY <2>1, <2>3
  <2> QED BY <1>6, <1>9, <2>2, <2>3
<1> QED BY <1>8, <1>9

-----------------------------------------------------------------------------
(* Nothing is started yet.                                                 *)
LEMMA InitCrInv == CredentialsInit => CrInv
<1> SUFFICES ASSUME CredentialsInit PROVE CrInv
  OBVIOUS
<1>1. RegInv
  BY InitRegInv DEF CredentialsInit
<1>2. boot = "off" /\ block = << >> /\ given = << >> /\ approver = NoDigest
  BY DEF CredentialsInit
<1>3. relay.pc = "down"
  BY DEF CredentialsInit, Init, Down
<1>4. ~approverValuePresent(given)
  BY <1>2 DEF approverValuePresent
<1> QED BY <1>1, <1>2, <1>3, <1>4
        DEF CrInv, BootType, ValueSurvives, ScrubIsDone, RelayIsServing, ConfiguredGateIsUp,
            PlaintextIsGone, ApproverIsApart, Serving

(* A step of the composition is a step of the registry, or leaves it.      *)
LEMMA StepOfRegistry ==
  ASSUME [CredentialsNext]_allVars
  PROVE  [Next]_vars
BY DEF CredentialsNext, allVars, Exec, Scrub, Serve, Refuse, Stop, Exit, RegistryStep,
       AuthMiddleware, Next, Relay

(* A relay is started with a block of entries.                             *)
LEMMA ExecCrInv == ASSUME CrInv, RegInv', NEW b \in Blocks, Exec(b) PROVE CrInv'
<1>1. b \in Seq(Entry)
  BY CredentialsAssumption
<1>2. boot' = "main" /\ block' = b /\ given' = b /\ approver' = approver /\ relay' = relay
  BY DEF Exec, vars
<1>3. relay.pc = "down"
  BY DEF Exec
<1> QED BY <1>1, <1>2, <1>3
        DEF CrInv, BootType, ValueSurvives, ScrubIsDone, RelayIsServing, ConfiguredGateIsUp,
            PlaintextIsGone, ApproverIsApart, Serving

(* A process that does not serve ends.                                     *)
LEMMA ExitCrInv == ASSUME CrInv, RegInv', boot # "serving", Exit PROVE CrInv'
<1>1. boot' = "off" /\ block' = << >> /\ given' = << >> /\ approver' = approver /\ relay' = relay
  BY DEF Exit, vars
<1>2. ~approverValuePresent(given')
  BY <1>1 DEF approverValuePresent
<1>3. relay.pc = "down"
  BY DEF CrInv, RelayIsServing
<1>4. << >> \in Seq(Entry)
  OBVIOUS
<1>5. ValueSurvives'
  BY <1>2 DEF ValueSurvives, approverValuePresent
<1> QED BY <1>1, <1>3, <1>4, <1>5
        DEF CrInv, BootType, ScrubIsDone, RelayIsServing, ConfiguredGateIsUp,
            PlaintextIsGone, ApproverIsApart, Serving

(* The digest takes the place of the token, and is not empty either.       *)
LEMMA ScrubCrInv == ASSUME CrInv, RegInv', Scrub PROVE CrInv'
<1>1. boot = "main" /\ relay.pc = "down"
  BY DEF Scrub, CrInv, RelayIsServing
<1>2. CASE PlaintextAlone(block) /\ Exit
  BY <1>1, <1>2, ExitCrInv
<1>3. CASE /\ PlaintextAlone(block) /\ block' = scrubbedApproverEnv(Lookup(block, "token"))
           /\ UNCHANGED <<boot, given, approver, vars>>
  <2>1. PICK token : token = Lookup(block, "token")
    OBVIOUS
  <2>2. token \in Values /\ ~Text(token, "spaces") /\ ~Text(token, "junk") /\ NonEmpty(token)
    BY <1>3, <2>1, LookupFinds DEF CrInv, BootType, PlaintextAlone
  <2>3. PICK e : e = [var |-> "digest", val |-> token]
    OBVIOUS
  <2>4. e \in Entry /\ e.val = token
    BY <2>2, <2>3 DEF Entry, Values, Texts
  <2>5. block' = <<e>>
    BY <1>3, <2>1, <2>3 DEF scrubbedApproverEnv
  <2>6. block' \in Seq(Entry) /\ 1 \in DOMAIN block' /\ block'[1] = e
    BY <2>4, <2>5
  <2>7. ValueSurvives'
    BY <2>2, <2>4, <2>6 DEF ValueSurvives, approverValuePresent
  <2>8. boot' = "main" /\ given' = given /\ approver' = approver /\ relay' = relay
    BY <1>1, <1>3 DEF vars
  <2> QED BY <1>1, <2>6, <2>7, <2>8
          DEF CrInv, BootType, ScrubIsDone, RelayIsServing, ConfiguredGateIsUp,
              PlaintextIsGone, ApproverIsApart, Serving
<1>4. CASE ~PlaintextAlone(block) /\ boot' = "scrubbed" /\ UNCHANGED <<block, given, approver, vars>>
  <2>1. /\ boot' = "scrubbed" /\ block' = block /\ given' = given /\ approver' = approver
        /\ relay' = relay
    BY <1>4 DEF vars
  <2>2. ScrubIsDone' /\ ValueSurvives'
    BY <1>4, <2>1 DEF CrInv, ScrubIsDone, ValueSurvives
  <2> QED BY <1>1, <2>1, <2>2
          DEF CrInv, BootType, RelayIsServing, ConfiguredGateIsUp, PlaintextIsGone,
              ApproverIsApart, Serving
<1> QED BY <1>2, <1>3, <1>4 DEF Scrub

(* main reads the approver from the block, compares it with the agents'    *)
(* tokens and serves.                                                      *)
LEMMA ServeCrInv == ASSUME CrInv, RegInv', Serve PROVE CrInv'
<1>1. PICK d \in approverDigestFromEnv(block) :
        d # Bare(AuthToken) /\ ~MatchDigest(file, d) /\ approver' = d
  BY DEF Serve
<1>2. /\ boot = "scrubbed" /\ boot' = "serving" /\ block' = block /\ given' = given
      /\ relay'.pc = "ready" /\ relay'.mem = file
  BY DEF Serve, RelayStart
<1>3. ~PlaintextAlone(block) /\ block \in Seq(Entry)
  BY <1>2 DEF CrInv, ScrubIsDone, BootType
<1>4. /\ d \in String \cup {NoDigest}
      /\ approverValuePresent(block) => d # NoDigest
      /\ \A i \in DOMAIN block : block[i].var = "token" => ~NonEmpty(block[i].val)
  BY <1>1, <1>3, DigestIsRead
<1>5. BootType' /\ ValueSurvives' /\ ScrubIsDone' /\ RelayIsServing'
  BY <1>1, <1>2, <1>4 DEF CrInv, BootType, ValueSurvives, ScrubIsDone, RelayIsServing
<1>6. ConfiguredGateIsUp'
  BY <1>1, <1>2, <1>4 DEF CrInv, ValueSurvives, ConfiguredGateIsUp
<1>7. PlaintextIsGone'
  BY <1>2, <1>4 DEF PlaintextIsGone
<1>8. ApproverIsApart'
  BY <1>1, <1>2 DEF ApproverIsApart
<1> QED BY <1>5, <1>6, <1>7, <1>8 DEF CrInv

(* The relay stops or is killed.                                           *)
LEMMA StopCrInv == ASSUME CrInv, RegInv', Stop PROVE CrInv'
<1>1. /\ boot' = "off" /\ block' = << >> /\ given' = << >> /\ approver' = NoDigest
      /\ relay'.pc = "down"
  BY DEF Stop, RelayStops, Down
<1>2. ValueSurvives'
  BY <1>1 DEF ValueSurvives, approverValuePresent
<1> QED BY <1>1, <1>2
        DEF CrInv, BootType, ScrubIsDone, RelayIsServing, ConfiguredGateIsUp,
            PlaintextIsGone, ApproverIsApart, Serving

(* A running relay's copy of the registry changes only when it starts.     *)
LEMMA RegistryStepCrInv == ASSUME CrInv, RegInv', RegistryStep PROVE CrInv'
<1>1. boot' = boot /\ block' = block /\ given' = given /\ approver' = approver
  BY DEF RegistryStep, bootVars
<1>2. relay'.mem = relay.mem /\ (relay'.pc = "down" <=> relay.pc = "down")
  BY DEF RegistryStep, AuthMiddleware, Verify, RelayTruncates, RelayWrites, FlushIntervalPasses,
         Cli, ClientAdd, ClientRevoke, CliTruncates, CliWrites, CliFails, CrInv, RegInv, TypeOK
<1> QED BY <1>1, <1>2
        DEF CrInv, BootType, ValueSurvives, ScrubIsDone, RelayIsServing, ConfiguredGateIsUp,
            PlaintextIsGone, ApproverIsApart, Serving

(* Every step of the composition.                                          *)
LEMMA NextCrInv == ASSUME CrInv, [CredentialsNext]_allVars PROVE CrInv'
<1>1. RegInv'
  BY StepOfRegistry, RegistryRegInv DEF CrInv
<1>2. CASE UNCHANGED allVars
  <2>1. UNCHANGED <<relay, boot, block, given, approver>>
    BY <1>2 DEF allVars, bootVars, vars
  <2> QED BY <1>1, <2>1
          DEF CrInv, BootType, ValueSurvives, ScrubIsDone, RelayIsServing, ConfiguredGateIsUp,
              PlaintextIsGone, ApproverIsApart, Serving
<1>3. CASE Refuse
  BY <1>1, <1>3, ExitCrInv DEF Refuse
<1> QED BY <1>1, <1>2, <1>3, ExecCrInv, ScrubCrInv, ServeCrInv, StopCrInv, RegistryStepCrInv
        DEF CredentialsNext

-----------------------------------------------------------------------------
(* The start and the registry keep their inductive invariant.              *)
THEOREM CredentialsInvariant == CredentialsSpec => []CrInv
<1>1. CredentialsInit => CrInv
  BY InitCrInv
<1>2. CrInv /\ [CredentialsNext]_allVars => CrInv'
  BY NextCrInv
<1> QED BY <1>1, <1>2, PTL DEF CredentialsSpec

(* An approver value in the environment the relay was started with,        *)
(* however often or badly it is set, never ends in a relay without an      *)
(* approver.                                                               *)
THEOREM GateIsUp == CredentialsSpec => []ConfiguredGateIsUp
<1>1. CrInv => ConfiguredGateIsUp
  BY DEF CrInv
<1> QED BY <1>1, CredentialsInvariant, PTL

(* No plaintext approver token is in the environment of a serving relay.   *)
THEOREM NoPlaintextWhileServing == CredentialsSpec => []PlaintextIsGone
<1>1. CrInv => PlaintextIsGone
  BY DEF CrInv
<1> QED BY <1>1, CredentialsInvariant, PTL

(* A token that the MCP port takes is never the approver's, whatever       *)
(* clients are added, whether or not the relay is running.                 *)
THEOREM AgentsNeverDecide == CredentialsSpec => []AgentsCannotDecide
<1>1. CrInv => AgentsCannotDecide
  <2> SUFFICES ASSUME CrInv, Serving, approver # NoDigest, NEW c \in Creds, McpAccepts(c)
               PROVE  approver # Bare(c)
    BY DEF AgentsCannotDecide, MayDecide, IsApprover
  <2>1. approver # Bare(AuthToken) /\ ~MatchDigest(relay.mem, approver)
    BY DEF CrInv, ApproverIsApart, Serving
  <2>2. CASE c = AuthToken
    BY <2>1, <2>2
  <2>3. CASE Accepts(c)
    BY <2>1, <2>3 DEF Accepts, Usable, MatchDigest
  <2> QED BY <2>2, <2>3 DEF McpAccepts
<1> QED BY <1>1, CredentialsInvariant, PTL

(* A token that a lone command revoked is taken by no port, not even as    *)
(* the approver's, whatever runs beside what afterwards.                   *)
THEOREM RevokedStaysDead == CredentialsSpec => []RevokedTokenIsDead
<1>1. CrInv => RevokedTokenIsDead
  <2> SUFFICES ASSUME CrInv, Serving, NEW t \in firm.revoked
               PROVE  ~WebAccepts(t)
    BY DEF RevokedTokenIsDead
  <2>1. DeadIn(relay.mem, firm.revoked) /\ Unique(relay.mem)
    BY DEF CrInv, RegInv, Copies, RelayIsSound, IsSound, Sound, RelayIsServing, Serving
  <2>2. PICK n \in Names : relay.mem[n] # NoRow /\ relay.mem[n].token = t /\ relay.mem[n].revoked
    BY <2>1 DEF DeadIn
  <2>3. ~Accepts(t)
    BY <2>1, <2>2 DEF Unique, Accepts, Usable
  <2>4. ~IsApprover(t)
    BY <2>2 DEF CrInv, ApproverIsApart, Serving, MatchDigest, IsApprover
  <2>5. t # AuthToken
    BY CredentialsAssumption DEF CrInv, RegInv, TypeOK
  <2> QED BY <2>3, <2>4, <2>5 DEF WebAccepts, McpAccepts
<1> QED BY <1>1, CredentialsInvariant, PTL

(* A relay takes every token that a lone command printed and that nobody   *)
(* set out to revoke, whatever runs beside what afterwards.                *)
THEOREM PrintedIsAccepted == CredentialsSpec => []PrintedTokenAccepted
<1>1. CrInv => PrintedTokenAccepted
  <2> SUFFICES ASSUME CrInv, Up, NEW t \in firm.printed \ revoking
               PROVE  Accepts(t)
    BY DEF PrintedTokenAccepted
  <2>1. LiveIn(relay.mem, firm.printed \ revoking)
    BY DEF CrInv, RegInv, Copies, RelayIsSound, IsSound, Sound, Up
  <2> QED BY <2>1 DEF LiveIn, Accepts
<1> QED BY <1>1, CredentialsInvariant, PTL

=============================================================================
