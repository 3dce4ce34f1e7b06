----------------------------- MODULE Registries -----------------------------
(***************************************************************************)
(* The container and machine registries (containers/store.go,              *)
(* machines/store.go) and the requests that change them: register_* and    *)
(* delete_* queue a registry_op (mcp/tools.go), and executeRegistryOp      *)
(* (web/handler.go) applies it once it is approved.  A registry's mutex is *)
(* held from the change of its map to the end of the save, so operations   *)
(* on one registry are one after the other; the two registries have a      *)
(* mutex and a file each.                                                  *)
(*                                                                         *)
(* os.WriteFile truncates and then writes: a crash or an error in between  *)
(* leaves a file that NewStore refuses.  A failed save leaves the map      *)
(* changed and is reported as a failed request.                            *)
(***************************************************************************)
EXTENDS Naturals

CONSTANTS
  Reqs,        \* registry_op requests
  Keys,        \* CTIDs and machine names
  Addrs,       \* addresses
  Users,       \* login users; "" is none given
  Idents,      \* identity files; "" is none given
  Offers,      \* the registrations agents ask for
  NoRecord,    \* nothing registered
  Unsure,      \* an operation that failed or was cut short
  Torn         \* a file that does not parse

Kinds  == {"containers", "machines"}
Shells == {"", "posix", "powershell"}

(* The address stands for every field that a caller always gives: the IP   *)
(* or host, the host name and has_relay_ssh.                               *)
Record == [addr : Addrs, user : Users, ident : Idents, shell : Shells]

ASSUME RegistriesAssumption ==
  /\ Keys # {} /\ Addrs # {}
  /\ "" \in Users \cap Idents
  /\ Offers \subseteq [kind : Kinds, key : Keys, rec : Record]
  /\ NoRecord \notin Record
  /\ Unsure \notin Record \cup {NoRecord}

Registry == [Keys -> Record \cup {NoRecord}]

ASSUME RegistryTornAssumption == Torn \notin Registry

VARIABLES
  up,       \* the relay is running
  mem,      \* per registry: its map
  file,     \* per registry: its file
  req,      \* per request: what it asks for and how far it has got
  \* history
  promised  \* per registry and key: the record the last operation on it
            \* reported, or Unsure when it failed or was cut short

vars == <<up, mem, file, req, promised>>

Empty  == [k \in Keys |-> NoRecord]
AnyRec == CHOOSE r \in Record : TRUE
Blank  == [pc |-> "none", kind |-> "machines", op |-> "delete",
           key |-> CHOOSE k \in Keys : TRUE, rec |-> AnyRec]

Pc == {"none", "pending", "approved", "truncate", "write", "success", "failure"}

(* The registries, their files, the requests and the promises.             *)
TypeOK ==
  /\ up \in BOOLEAN
  /\ mem \in [Kinds -> Registry]
  /\ file \in [Kinds -> Registry \cup {Torn}]
  /\ req \in [Reqs -> [pc : Pc, kind : Kinds, op : {"register", "delete"},
                       key : Keys, rec : Record]]
  /\ promised \in [Kinds -> [Keys -> Record \cup {NoRecord, Unsure}]]

Init ==
  /\ up = FALSE
  /\ mem = [kind \in Kinds |-> Empty]
  /\ file = [kind \in Kinds |-> Empty]
  /\ req = [r \in Reqs |-> Blank]
  /\ promised = [kind \in Kinds |-> Empty]

-----------------------------------------------------------------------------
(* NewStore for both registries: a file that does not parse stops the      *)
(* relay.  Mutant: the error is dropped, and the relay starts with an      *)
(* empty registry.                                                         *)
NewStoreForgiving ==
  /\ ~up
  /\ up' = TRUE
  /\ mem' = [kind \in Kinds |-> IF file[kind] = Torn THEN Empty ELSE file[kind]]
  /\ UNCHANGED <<file, req, promised>>

NewStore ==
  /\ ~up
  /\ \A kind \in Kinds : file[kind] # Torn
  /\ up' = TRUE
  /\ mem' = file
  /\ UNCHANGED <<file, req, promised>>

(* The relay stops or is killed.  The queue of requests is in memory.      *)
Crash ==
  /\ up
  /\ up' = FALSE
  /\ mem' = [kind \in Kinds |-> Empty]
  /\ req' = [r \in Reqs |-> IF req[r].pc = "none" THEN req[r]
                            ELSE [req[r] EXCEPT !.pc = "failure"]]
  /\ promised' = [kind \in Kinds |-> [k \in Keys |->
                    IF \E r \in Reqs : /\ req[r].kind = kind /\ req[r].key = k
                                       /\ req[r].pc \in {"truncate", "write"}
                    THEN Unsure ELSE promised[kind][k]]]
  /\ UNCHANGED file

-----------------------------------------------------------------------------
(***************************************************************************)
(* The tools queue a request; register_machine insists on a user, and a    *)
(* container has neither shell nor identity file.                          *)
(***************************************************************************)
Queue(r, kind, op, key, rec) ==
  /\ up
  /\ req[r].pc = "none"
  /\ req' = [req EXCEPT ![r] = [pc |-> "pending", kind |-> kind, op |-> op,
                                key |-> key, rec |-> rec]]
  /\ UNCHANGED <<up, mem, file, promised>>

registerContainer(r, o) ==
  /\ o.kind = "containers" /\ o.rec.shell = "" /\ o.rec.ident = ""
  /\ Queue(r, "containers", "register", o.key, o.rec)

registerMachine(r, o) ==
  /\ o.kind = "machines" /\ o.rec.user # ""
  /\ Queue(r, "machines", "register", o.key, o.rec)

deleteContainer(r, key) == Queue(r, "containers", "delete", key, AnyRec)
deleteMachine(r, key)   == Queue(r, "machines", "delete", key, AnyRec)

(* A human approves, and executeRequest calls executeRegistryOp.           *)
Approve(r) ==
  /\ up
  /\ req[r].pc = "pending"
  /\ req' = [req EXCEPT ![r].pc = "approved"]
  /\ UNCHANGED <<up, mem, file, promised>>

-----------------------------------------------------------------------------
(* Nobody holds the mutex of the registry.                                 *)
Free(kind) ==
  \A r \in Reqs : req[r].kind = kind => req[r].pc \notin {"truncate", "write"}

(* Register's upsert: what the caller left blank is kept.                  *)
(* Mutant: the caller's record replaces the old one.                       *)
UpsertPlain(kind, old, rec) ==
  [rec EXCEPT !.shell = IF kind = "machines" /\ rec.shell = "" THEN "posix" ELSE rec.shell]

Upsert(kind, old, rec) ==
  LET kept(field) == IF rec[field] = "" /\ old # NoRecord THEN old[field] ELSE rec[field]
  IN [rec EXCEPT
        !.user  = kept("user"),
        !.ident = kept("ident"),
        !.shell = IF kind = "machines" /\ kept("shell") = "" THEN "posix" ELSE kept("shell")]

Change(r, value) ==
  /\ mem' = [mem EXCEPT ![req[r].kind][req[r].key] = value]
  /\ req' = [req EXCEPT ![r].pc = "truncate"]
  /\ UNCHANGED <<up, file, promised>>

Register(r) ==
  /\ req[r].pc = "approved" /\ req[r].op = "register"
  /\ Free(req[r].kind)
  /\ Change(r, Upsert(req[r].kind, mem[req[r].kind][req[r].key], req[r].rec))

(* Deleting what is not there fails and changes nothing.                   *)
Delete(r) ==
  /\ req[r].pc = "approved" /\ req[r].op = "delete"
  /\ Free(req[r].kind)
  /\ IF mem[req[r].kind][req[r].key] # NoRecord THEN Change(r, NoRecord)
     ELSE /\ req' = [req EXCEPT ![r].pc = "failure"]
          /\ UNCHANGED <<up, mem, file, promised>>

(* save.                                                                   *)
Truncate(r) ==
  /\ req[r].pc = "truncate"
  /\ file' = [file EXCEPT ![req[r].kind] = Torn]
  /\ req' = [req EXCEPT ![r].pc = "write"]
  /\ UNCHANGED <<up, mem, promised>>

(* A completed os.WriteFile: the operation succeeds.                       *)
Write(r) ==
  /\ req[r].pc = "write"
  /\ file' = [file EXCEPT ![req[r].kind] = mem[req[r].kind]]
  /\ req' = [req EXCEPT ![r].pc = "success"]
  /\ promised' = [promised EXCEPT ![req[r].kind][req[r].key] =
                    mem[req[r].kind][req[r].key]]
  /\ UNCHANGED <<up, mem>>

(* os.WriteFile fails: the request fails and the map stays as it is.       *)
SaveFails(r) ==
  /\ req[r].pc \in {"truncate", "write"}
  /\ req' = [req EXCEPT ![r].pc = "failure"]
  /\ promised' = [promised EXCEPT ![req[r].kind][req[r].key] = Unsure]
  /\ UNCHANGED <<up, mem, file>>

-----------------------------------------------------------------------------
Agent(r) ==
  \/ \E o \in Offers : registerContainer(r, o) \/ registerMachine(r, o)
  \/ \E key \in Keys : deleteContainer(r, key) \/ deleteMachine(r, key)

executeRegistryOp(r) ==
  Register(r) \/ Delete(r) \/ Truncate(r) \/ Write(r) \/ SaveFails(r)

Next ==
  \/ NewStore \/ Crash
  \/ \E r \in Reqs : Agent(r) \/ Approve(r) \/ executeRegistryOp(r)

Spec == Init /\ [][Next]_vars

-----------------------------------------------------------------------------
(* What an approved operation reported is what the registry holds, after   *)
(* any crash and restart and any failure of another operation's save, until*)
(* another operation on the same key: a damaged file stops the relay       *)
(* instead of losing records.                                              *)
SuccessIsDurable ==
  up => \A kind \in Kinds, k \in Keys :
          \/ promised[kind][k] \in {Unsure, mem[kind][k]}
          \/ \E r \in Reqs : /\ req[r].kind = kind /\ req[r].key = k
                             /\ req[r].pc \in {"truncate", "write"}

(* "A partial re-register doesn't blank fields" (machines.Store.Register): *)
(* a field of a record that stays registered changes only to a value that  *)
(* an approved request for that record gave.                               *)
FieldsSurvive ==
  [][\A kind \in Kinds, k \in Keys, field \in {"user", "ident", "shell"} :
       LET old == mem[kind][k]
           new == mem'[kind][k]
       IN NoRecord \notin {old, new} /\ new[field] # old[field]
            => \E r \in Reqs : /\ req[r].pc = "approved" /\ req[r].op = "register"
                               /\ req[r].kind = kind /\ req[r].key = k
                               /\ req[r].rec[field] = new[field]
                               /\ new[field] # ""]_vars

=============================================================================
