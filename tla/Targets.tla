------------------------------ MODULE Targets -------------------------------
(***************************************************************************)
(* The tools that send something to a registered container or machine, or  *)
(* to a host (mcp/tools.go), composed with the registries whose records    *)
(* say where that is.  A tool picks its target from its arguments, looks   *)
(* it up, builds the ssh command and the text the reviewer sees from the   *)
(* record, asks the target whether the file exists (write_file), and       *)
(* queues a request; what is approved later is that command, whatever the  *)
(* registry says by then.                                                  *)
(*                                                                         *)
(* Get returns a pointer into the registry and the tool reads the record's *)
(* fields after the registry's lock is released, while an approved         *)
(* registration may be under way.                                          *)
(***************************************************************************)
EXTENDS Registries, Sequences

CONSTANTS
  Calls,       \* tool calls
  RelaySSH,    \* the addresses whose records have has_relay_ssh
  HostIP,      \* the Proxmox host
  None,        \* an argument that is not given
  Asks         \* the calls agents make: a tool and its arguments

Hosts  == Addrs \cup {HostIP}
Tools  == {"request_command_for_host", "exec_container", "exec_machine",
           "install_relay_ssh", "install_ssh_key", "http_request", "write_file"}

(* The arguments that name a target or a source; source: a source_path is  *)
(* given (for http_request it always is: form_file's).                     *)
Ask == [tool : Tools, ctid : Keys \cup {None}, machine : Keys \cup {None},
        host : Hosts \cup {None}, source : BOOLEAN,
        source_ctid : Keys \cup {None}, source_host : Hosts \cup {None}]

ASSUME TargetsAssumption ==
  /\ RelaySSH \subseteq Addrs
  /\ HostIP \notin Addrs
  /\ None \notin Keys \cup Hosts
  /\ Asks \subseteq Ask

VARIABLES
  call    \* per call: its progress, the record it holds and what it built

targetVars == <<vars, call>>

(* sides: the ends the call talks to.  held: the record Get pointed to.    *)
(* routes, probed: per side, the command's route and the probe's.  from,   *)
(* asked: history, the records they were made from.                        *)
Fresh == [pc |-> "none", tool |-> "write_file", sides |-> << >>, held |-> NoRecord,
          direct |-> FALSE, routes |-> << >>, from |-> << >>, probed |-> << >>,
          asked |-> << >>]

TargetsInit ==
  /\ Init
  /\ call = [c \in Calls |-> Fresh]

-----------------------------------------------------------------------------
(***************************************************************************)
(* What each tool takes its arguments to mean: the sides it looks up, in   *)
(* order.  No side: the call is refused.                                   *)
(***************************************************************************)
Container(key) == [kind |-> "containers", at |-> key]
Machine(key)   == [kind |-> "machines", at |-> key]
Host(host)     == [kind |-> "host", at |-> IF host = None THEN HostIP ELSE host]

requestCommandForHost(a) == <<Host(a.host)>>

execContainer(a)   == IF a.ctid = None THEN << >> ELSE <<Container(a.ctid)>>
execMachine(a)     == IF a.machine = None THEN << >> ELSE <<Machine(a.machine)>>
installRelaySSH(a) == IF a.ctid = None THEN << >> ELSE <<Container(a.ctid)>>

installSSHKey(a) == IF a.machine # None THEN execMachine(a) ELSE execContainer(a)

TwoSources(a) == a.source_ctid # None /\ a.source_host # None
SourceSide(a) == IF a.source_ctid # None THEN Container(a.source_ctid) ELSE Host(a.source_host)

buildFormFile(a) == IF TwoSources(a) THEN << >> ELSE <<SourceSide(a)>>

(* The destination is the container or a host, the Proxmox host if neither *)
(* is given; a machine is not looked at.                                   *)
writeFileFromSource(a) ==
  <<SourceSide(a), IF a.ctid # None THEN Container(a.ctid) ELSE Host(a.host)>>

writeFile(a) ==
  IF a.source THEN IF TwoSources(a) THEN << >> ELSE writeFileFromSource(a)
  ELSE IF a.source_ctid # None \/ a.source_host # None THEN << >>
  ELSE IF a.machine # None THEN <<Machine(a.machine)>>
  ELSE IF a.ctid # None    THEN <<Container(a.ctid)>>
  ELSE IF a.host # None    THEN <<Host(a.host)>>
  ELSE << >>                                         \* no target

Sides(a) ==
  CASE a.tool = "request_command_for_host" -> requestCommandForHost(a)
    [] a.tool = "exec_container"    -> execContainer(a)
    [] a.tool = "exec_machine"      -> execMachine(a)
    [] a.tool = "install_relay_ssh" -> installRelaySSH(a)
    [] a.tool = "install_ssh_key"   -> installSSHKey(a)
    [] a.tool = "http_request"      -> buildFormFile(a)
    [] a.tool = "write_file"        -> writeFile(a)

-----------------------------------------------------------------------------
(***************************************************************************)
(* Where an ssh command goes: a login at an address, with a key file, and  *)
(* for a container without relay SSH the container that pct enters there.  *)
(***************************************************************************)
Direct(rec) == rec.addr \in RelaySSH

HostRoute(host) == [user |-> "root", addr |-> host, ident |-> "", pct |-> None]
PctRoute(ctid)  == [HostRoute(HostIP) EXCEPT !.pct = ctid]

DirectRoute(rec) ==
  [HostRoute(rec.addr) EXCEPT !.user = IF rec.user = "" THEN @ ELSE rec.user]

machineSSHBase(rec) ==
  [user |-> rec.user, addr |-> rec.addr, ident |-> rec.ident, pct |-> None]

(* has_relay_ssh, then the rest of the record.                             *)
RouteVia(side, direct, rec) ==
  CASE side.kind = "host"     -> HostRoute(side.at)
    [] side.kind = "machines" -> machineSSHBase(rec)
    [] OTHER -> IF direct THEN DirectRoute(rec) ELSE PctRoute(side.at)

(* defaultWriteFileCheck, which looks the container up by itself.          *)
(* Mutant: it takes the login to be root.                                  *)
ProbeRouteAsRoot(side, rec) ==
  CASE side.kind = "host" -> HostRoute(side.at)
    [] side.kind # "host" /\ Direct(rec) -> HostRoute(rec.addr)
    [] OTHER -> PctRoute(side.at)

ProbeRoute(side, rec) ==
  CASE side.kind = "host" -> HostRoute(side.at)
    [] side.kind # "host" /\ Direct(rec) -> DirectRoute(rec)
    [] OTHER -> PctRoute(side.at)

-----------------------------------------------------------------------------
(***************************************************************************)
(* A call, step by step.                                                   *)
(***************************************************************************)
Current(c) == call[c].sides[Len(call[c].routes) + 1]

(* Get waits for the lock that an operation holds.                         *)
CanGet(side) == side.kind = "host" \/ Free(side.kind)
Get(side)    == IF side.kind = "host" THEN NoRecord ELSE mem[side.kind][side.at]

Begin(c, a) ==
  /\ up
  /\ call[c].pc = "none"
  /\ call' = [call EXCEPT ![c] =
       [Fresh EXCEPT !.pc = IF Sides(a) = << >> THEN "refused" ELSE "get",
                     !.tool = a.tool, !.sides = Sides(a)]]

(* A key that is not registered ends the call; install_relay_ssh goes on.  *)
LookUp(c) ==
  LET rec  == Get(Current(c))
      goes == \/ rec # NoRecord
              \/ Current(c).kind = "host"
              \/ call[c].tool = "install_relay_ssh"
  IN /\ call[c].pc = "get" /\ CanGet(Current(c))
     /\ call' = [call EXCEPT ![c].pc = IF goes THEN "route" ELSE "refused",
                             ![c].held = rec, ![c].from = Append(@, rec)]

(* install_relay_ssh always takes the way through the Proxmox host.        *)
ChooseRoute(c) ==
  /\ call[c].pc = "route"
  /\ call' = [call EXCEPT
       ![c].pc = "build",
       ![c].direct = /\ Current(c).kind = "containers"
                     /\ call[c].tool # "install_relay_ssh"
                     /\ Direct(call[c].held)]

(* write_file asks about its files, but not on a machine.                  *)
AfterBuild(c) ==
  IF Len(call[c].routes) + 1 < Len(call[c].sides) THEN "get"
  ELSE IF call[c].tool = "write_file" /\ Current(c).kind # "machines" THEN "probe"
  ELSE "add"

Build(c) ==
  /\ call[c].pc = "build"
  /\ call' = [call EXCEPT
       ![c].routes = Append(@, RouteVia(Current(c), call[c].direct, call[c].held)),
       ![c].held = NoRecord,
       ![c].pc = AfterBuild(c)]

(* The probe of the next side is answered, or it fails (the container is   *)
(* gone, ssh fails, the timeout passes) and the call goes on without it; a *)
(* source that does not exist ends the call.                               *)
Probed(c, route, rec, next) ==
  call' = [call EXCEPT ![c].probed = Append(@, route), ![c].asked = Append(@, rec),
                       ![c].pc = next]

Probe(c) ==
  LET i    == Len(call[c].probed) + 1
      side == call[c].sides[i]
      rec  == Get(side)
      next == IF i < Len(call[c].sides) THEN "probe" ELSE "add"
  IN /\ call[c].pc = "probe" /\ CanGet(side)
     /\ \/ Probed(c, None, NoRecord, next)
        \/ /\ side.kind = "host" \/ rec # NoRecord
           /\ \/ Probed(c, ProbeRoute(side, rec), rec, next)
              \/ next = "probe" /\ Probed(c, ProbeRoute(side, rec), rec, "refused")

(* The request is queued with the command as it was built.                 *)
AddRequest(c) ==
  /\ call[c].pc = "add"
  /\ call' = [call EXCEPT ![c].pc = "queued"]

ToolCall(c) ==
  /\ \/ \E a \in Asks : Begin(c, a)
     \/ LookUp(c) \/ ChooseRoute(c) \/ Build(c) \/ Probe(c) \/ AddRequest(c)
  /\ UNCHANGED vars

-----------------------------------------------------------------------------
(* Register makes a new record and puts it in the map: a record that a     *)
(* call holds never changes.                                               *)
(* Mutant: it edits the record that is there.                              *)
EditInPlace ==
  call' = [c \in Calls |->
    IF call[c].held # NoRecord /\ mem'[Current(c).kind][Current(c).at] # NoRecord
    THEN [call[c] EXCEPT !.held = mem'[Current(c).kind][Current(c).at]]
    ELSE call[c]]

ReplaceRecord == UNCHANGED call

(* A crash takes the calls with it.                                        *)
CallsEnd ==
  call' = [c \in Calls |-> IF call[c].pc \in {"none", "queued"} THEN call[c]
                           ELSE [Fresh EXCEPT !.pc = "refused"]]

TargetsNext ==
  \/ \E c \in Calls : ToolCall(c)
  \/ \E r \in Reqs : executeRegistryOp(r) /\ ReplaceRecord
  \/ \E r \in Reqs : (Agent(r) \/ Approve(r)) /\ UNCHANGED call
  \/ NewStore /\ UNCHANGED call
  \/ Crash /\ CallsEnd

TargetsSpec == TargetsInit /\ [][TargetsNext]_targetVars

-----------------------------------------------------------------------------
(* The command a human is asked to approve was built from the record that  *)
(* was registered when its side was looked up, and from that record alone, *)
(* even if the target is registered anew while the tool is at work: never  *)
(* the login of one registration at the address of another.                *)
TargetIsOneRecord ==
  \A c \in Calls : \A i \in DOMAIN call[c].routes :
    LET side == call[c].sides[i]
        rec  == call[c].from[i]
    IN call[c].routes[i] = RouteVia(side, /\ side.kind = "containers"
                                          /\ call[c].tool # "install_relay_ssh"
                                          /\ Direct(rec), rec)

(* "mirroring the write's routing" (defaultWriteFileCheck): the place that *)
(* was asked about a file is the place its command goes to, unless the     *)
(* target was registered anew between the two lookups.                     *)
ProbeMirrorsWrite ==
  \A c \in Calls : \A i \in DOMAIN call[c].probed :
    call[c].probed[i] # None /\ call[c].asked[i] = call[c].from[i]
      => call[c].probed[i] = call[c].routes[i]

=============================================================================
