----------------------------- MODULE HostNetwork -----------------------------
(***************************************************************************)
(* The host network: the Hyper-V Internal switch, the address of its       *)
(* adapter and the firewall rules for the guests, as create-host-network   *)
(* and delete-host-network (src/hostNetwork) leave them when a PowerShell  *)
(* call fails or the command is cut off.  One isolation name; another      *)
(* name's switch and rules are not touched.                                *)
(*                                                                         *)
(* A firewall rule is bound to an adapter, not to its alias: the adapter   *)
(* of a switch created later is another one.  Rules of one display name    *)
(* are told apart by the command that made them.                           *)
(***************************************************************************)
EXTENDS Naturals, FiniteSets, Sequences

CONSTANTS
  Subnets,              \* addresses 192.168.n.1 a new switch may get
  NatAddresses,         \* addresses of the Default Switch adapter
  None,
  MaxCommands,          \* bound: commands the operator gives
  MaxLeft               \* bound: rules one sweep fails to remove

ASSUME HostNetworkAssumption ==
  /\ None \notin Subnets \cup NatAddresses
  /\ MaxCommands \in Nat /\ MaxLeft \in Nat

VARIABLES
  adapter,              \* the switch's adapter: the command that made it, 0 without a switch
  address,              \* its IPv4 address, or None
  rules,                \* the firewall rules for the guests
  prompts,              \* rules a firewall prompt made for the dedicated node.exe
  attached,             \* VMs are attached to the switch
  nat,                  \* address of the NAT adapter, or None
  taken,                \* subnets other adapters use
  count,                \* commands given so far
  cmd                   \* the last network command, finished or not

networkVars == <<adapter, address, rules, prompts, attached, nat, taken, count, cmd>>

Commands == 0..MaxCommands
NatAdapter == 0
RuleNames == {"envoy", "dns", "dhcp", "smb"}
\* The adapter and the local address a rule is restricted to (none for DHCP's broadcasts).
Rule == [name: RuleNames, on: Commands, local: Subnets \cup NatAddresses \cup {None}, by: Commands]
Prompts == {"query user"}

CreateSteps == {"find switch", "new switch", "new address", "sweep names", "sweep prompts", "add rules"}
DeleteSteps == {"check attached", "sweep adapter", "sweep prompts", "sweep smb", "remove switch", "report"}
Ended == {"ok", "error", "cut off"}

\* seen: the interfaces as read at the start; to: hostIp; added: rules created so far;
\* failed: some step of a delete failed; silent: a call failed without saying so;
\* orphans (history): rules on no adapter of the host when the command started.
Seen == [nat: NatAddresses \cup {None}, address: Subnets \cup {None}, taken: SUBSET Subnets]
Command == [kind: {"create", "delete", "none"}, step: CreateSteps \cup DeleteSteps \cup Ended,
            seen: Seen, to: Subnets \cup {None}, added: 0..5, failed: BOOLEAN, silent: BOOLEAN,
            orphans: SUBSET Rule]

NetworkTypeOK ==
  /\ adapter \in Commands
  /\ address \in Subnets \cup {None}
  /\ rules \in SUBSET Rule
  /\ prompts \in SUBSET Prompts
  /\ attached \in BOOLEAN
  /\ nat \in NatAddresses \cup {None}
  /\ taken \in SUBSET Subnets
  /\ count \in Commands
  /\ cmd \in Command

Orphans == {r \in rules : r.on \notin {NatAdapter, adapter}}

Begun(kind, step) ==
  [kind |-> kind, step |-> step, to |-> None, added |-> 0, failed |-> FALSE,
   seen |-> [nat |-> nat, address |-> address, taken |-> taken], silent |-> FALSE,
   orphans |-> Orphans]

NetworkInit ==
  /\ adapter = 0 /\ address = None
  /\ rules = {}
  /\ prompts \in SUBSET Prompts
  /\ attached = FALSE
  /\ nat \in NatAddresses \cup {None}
  /\ taken \in SUBSET Subnets
  /\ count = 0
  /\ cmd = Begun("none", "ok")

-----------------------------------------------------------------------------
Resting == cmd.step \in Ended
At(kind, step) == cmd.kind = kind /\ cmd.step = step
GoTo(step) == cmd' = [cmd EXCEPT !.step = step]

\* Without a NAT address nothing is touched.
StartCreate ==
  /\ Resting /\ count < MaxCommands
  /\ count' = count + 1
  /\ cmd' = Begun("create", IF nat = None THEN "error" ELSE "find switch")
  /\ UNCHANGED <<adapter, address, rules, prompts, attached, nat, taken>>

StartDelete ==
  /\ Resting /\ count < MaxCommands
  /\ count' = count + 1
  /\ cmd' = Begun("delete", "check attached")
  /\ UNCHANGED <<adapter, address, rules, prompts, attached, nat, taken>>

\* The process is killed or its terminal closed between two calls.
CutOff ==
  /\ ~Resting
  /\ GoTo("cut off")
  /\ UNCHANGED <<adapter, address, rules, prompts, attached, nat, taken, count>>

\* A sweep removes what it matches, except what is `left`, which it counts as failed; or
\* PowerShell fails as a whole, which parseSweepResult reads as nothing removed or failed.
SweepResults(matched) ==
  {[left |-> s, failed |-> s # {}, silent |-> FALSE] :
     s \in {x \in SUBSET matched : Cardinality(x) <= MaxLeft}}
  \cup {[left |-> matched, failed |-> FALSE, silent |-> matched # {}]}

\* In a create, a failed removal ends the command.
AfterSweep(s, next) ==
  cmd' = [cmd EXCEPT !.step = IF s.failed THEN "error" ELSE next, !.silent = @ \/ s.silent]

\* In a delete, it is reported at the end and the next step is tried.
AfterTry(s, next) ==
  cmd' = [cmd EXCEPT !.step = next, !.failed = @ \/ s.failed, !.silent = @ \/ s.silent]

-----------------------------------------------------------------------------
\* create-host-network.

\* An existing switch keeps its address; for a new one a subnet is given or prompted for.
\* (Left out: an existing switch that the query does not show, next to which another of the
\* same name is made.)
FindSwitch ==
  /\ At("create", "find switch")
  /\ \/ /\ adapter # 0
        /\ cmd' = [cmd EXCEPT !.to = cmd.seen.address,
                              !.step = IF cmd.seen.address = None THEN "error" ELSE "sweep names"]
     \/ /\ adapter = 0
        /\ \E n \in Subnets \ cmd.seen.taken : cmd' = [cmd EXCEPT !.to = n, !.step = "new switch"]
     \/ GoTo("error")
  /\ UNCHANGED <<adapter, address, rules, prompts, attached, nat, taken, count>>

NewSwitch ==
  /\ At("create", "new switch")
  /\ \/ adapter' = count /\ GoTo("new address")
     \/ adapter' = adapter /\ GoTo("error")
  /\ UNCHANGED <<address, rules, prompts, attached, nat, taken, count>>

NewAddress ==
  /\ At("create", "new address")
  /\ \/ address' = cmd.to /\ GoTo("sweep names")
     \/ address' = address /\ GoTo("error")
  /\ UNCHANGED <<adapter, rules, prompts, attached, nat, taken, count>>

\* mutant: a rule that could not be removed does not end the command.
SweepNamesAnyway ==
  /\ At("create", "sweep names")
  /\ \E s \in SweepResults(rules) :
       /\ rules' = s.left
       /\ AfterSweep([s EXCEPT !.failed = FALSE], "sweep prompts")
  /\ UNCHANGED <<adapter, address, prompts, attached, nat, taken, count>>

\* All four names, whatever adapter the rules are on.
SweepNames ==
  /\ At("create", "sweep names")
  /\ \E s \in SweepResults(rules) : rules' = s.left /\ AfterSweep(s, "sweep prompts")
  /\ UNCHANGED <<adapter, address, prompts, attached, nat, taken, count>>

SweepPrompts ==
  /\ At("create", "sweep prompts")
  /\ \E s \in SweepResults(prompts) : prompts' = s.left /\ AfterSweep(s, "add rules")
  /\ UNCHANGED <<adapter, address, rules, attached, nat, taken, count>>

\* The rules of a create, in the order it makes them.
Made(name, on, local) == [name |-> name, on |-> on, local |-> local, by |-> count]
NewRules ==
  <<Made("envoy", adapter, cmd.to), Made("dns", adapter, cmd.to), Made("dhcp", adapter, None),
    Made("smb", adapter, cmd.to), Made("smb", NatAdapter, cmd.seen.nat)>>

AddRule ==
  /\ At("create", "add rules")
  /\ \/ /\ rules' = rules \cup {NewRules[cmd.added + 1]}
        /\ cmd' = [cmd EXCEPT !.added = @ + 1, !.step = IF cmd.added = 4 THEN "ok" ELSE @]
     \/ rules' = rules /\ GoTo("error")
  /\ UNCHANGED <<adapter, address, prompts, attached, nat, taken, count>>

-----------------------------------------------------------------------------
\* delete-host-network: each sweep and the removal is tried whatever became of the others.

\* A query that fails is read as nothing found, or its output is not what can be parsed.
CheckAttached ==
  /\ At("delete", "check attached")
  /\ \/ GoTo(IF attached THEN "error" ELSE "sweep adapter")
     \/ attached /\ cmd' = [cmd EXCEPT !.step = "sweep adapter", !.silent = TRUE]
     \/ GoTo("error")
  /\ UNCHANGED <<adapter, address, rules, prompts, attached, nat, taken, count>>

OnAdapter == {r \in rules : adapter # 0 /\ r.on = adapter}

SweepAdapter ==
  /\ At("delete", "sweep adapter")
  /\ \E s \in SweepResults(OnAdapter) :
       rules' = (rules \ OnAdapter) \cup s.left /\ AfterTry(s, "sweep prompts")
  /\ UNCHANGED <<adapter, address, prompts, attached, nat, taken, count>>

SweepPromptsToo ==
  /\ At("delete", "sweep prompts")
  /\ \E s \in SweepResults(prompts) : prompts' = s.left /\ AfterTry(s, "sweep smb")
  /\ UNCHANGED <<adapter, address, rules, attached, nat, taken, count>>

Shares == {r \in rules : r.name = "smb"}

SweepShares ==
  /\ At("delete", "sweep smb")
  /\ \E s \in SweepResults(Shares) :
       rules' = (rules \ Shares) \cup s.left /\ AfterTry(s, "remove switch")
  /\ UNCHANGED <<adapter, address, prompts, attached, nat, taken, count>>

\* The switch is queried again and removed; VMs attached meanwhile lose it.
RemoveSwitch ==
  /\ At("delete", "remove switch")
  /\ \/ /\ adapter' = 0 /\ address' = None /\ attached' = FALSE
        /\ GoTo("report")
     \/ /\ adapter # 0
        /\ \/ cmd' = [cmd EXCEPT !.step = "report", !.failed = TRUE]
           \/ cmd' = [cmd EXCEPT !.step = "report", !.silent = TRUE]
        /\ UNCHANGED <<adapter, address, attached>>
     \/ GoTo("error") /\ UNCHANGED <<adapter, address, attached>>
  /\ UNCHANGED <<rules, prompts, nat, taken, count>>

\* mutant: only the removal of the switch is reported.
ReportSwitchOnly ==
  /\ At("delete", "report")
  /\ GoTo(IF adapter # 0 THEN "error" ELSE "ok")
  /\ UNCHANGED <<adapter, address, rules, prompts, attached, nat, taken, count>>

Report ==
  /\ At("delete", "report")
  /\ GoTo(IF cmd.failed THEN "error" ELSE "ok")
  /\ UNCHANGED <<adapter, address, rules, prompts, attached, nat, taken, count>>

-----------------------------------------------------------------------------
\* The host (external): VMs come and go, the Default Switch has another address after a
\* restart.  Bound: the address changes between commands.
AttachVm ==
  /\ adapter # 0
  /\ attached' = ~attached
  /\ UNCHANGED <<adapter, address, rules, prompts, nat, taken, count, cmd>>

NatMoves ==
  /\ Resting
  /\ nat' \in NatAddresses \cup {None}
  /\ UNCHANGED <<adapter, address, rules, prompts, attached, taken, count, cmd>>

NetworkNext ==
  \/ StartCreate \/ StartDelete
  \/ FindSwitch \/ NewSwitch \/ NewAddress \/ SweepNames \/ SweepPrompts \/ AddRule
  \/ CheckAttached \/ SweepAdapter \/ SweepPromptsToo \/ SweepShares \/ RemoveSwitch \/ Report
  \/ CutOff \/ AttachVm \/ NatMoves

NetworkSpec == NetworkInit /\ [][NetworkNext]_networkVars

-----------------------------------------------------------------------------
\* After a create that succeeds there is exactly one rule of each kind, on the adapter and
\* the address of the switch as it now is, whatever failed or interrupted commands had left
\* behind (createHostNetwork.ts:100-103, "a surviving stale rule would make ... a duplicate").
CreateIsExact ==
  At("create", "ok") /\ ~cmd.silent =>
    rules = {[name |-> "envoy", on |-> adapter, local |-> address, by |-> count],
             [name |-> "dns", on |-> adapter, local |-> address, by |-> count],
             [name |-> "dhcp", on |-> adapter, local |-> None, by |-> count],
             [name |-> "smb", on |-> adapter, local |-> address, by |-> count],
             [name |-> "smb", on |-> NatAdapter, local |-> cmd.seen.nat, by |-> count]}
      /\ adapter # 0 /\ address # None /\ prompts = {}

\* What a delete that reports success does achieve: no switch, no prompt's rule, and no rule but
\* some of the three other names that were on no adapter when it began (deleteHostNetwork.ts:51
\* "each sweep ... is attempted regardless of the others' outcome").  Those are the finding below.
DeleteLeavesOrphans ==
  At("delete", "ok") /\ ~cmd.silent =>
    /\ adapter = 0 /\ prompts = {}
    /\ rules \subseteq cmd.orphans /\ \A r \in rules : r.name # "smb"

\* Deletion is "both an undo operation and recovery from partial host state" (docs/adr/0023:3),
\* and the command that createHostNetwork.ts:117-120 names for rules it could not remove: one
\* that reports success has left no rule for the guests.
DeleteLeavesNoRule == At("delete", "ok") /\ ~cmd.silent => rules = {}

=============================================================================
