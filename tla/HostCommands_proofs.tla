-------------------------- MODULE HostCommands_proofs --------------------------
(***************************************************************************)
(* What the operator's commands guarantee for any number of them, cut off  *)
(* or failing anywhere, proved by TLAPS: the rules on the host, the root   *)
(* key and the certificates made of it, run-hosting's ports, exit code and *)
(* alert, and the script folders of the shares.  The first part is about   *)
(* create-host-network and delete-host-network alone (HostNetwork), the    *)
(* second about all of HostCommands, the third about update-shares         *)
(* (ShareSwap).                                                            *)
(***************************************************************************)
EXTENDS HostCommands, ShareSwap, SequenceTheorems, TLAPS

(***************************************************************************)
(* create-host-network and delete-host-network, for any subnets and any    *)
(* number of rules that a sweep fails to remove.                           *)
(***************************************************************************)

\* On the NAT adapter there is nothing but the share's rule.
NatRules == \A r \in rules : r.on = NatAdapter => r.name = "smb"

\* What a create has established when it comes to a step.
Creating ==
  cmd.kind = "create" =>
    /\ count # 0 /\ cmd.step \in CreateSteps \cup Ended
    /\ cmd.step \in CreateSteps \ {"add rules"} => cmd.added = 0
    /\ cmd.step = "add rules" => cmd.added \in 0..4
    /\ cmd.step = "find switch" => cmd.seen.address = address
    /\ cmd.step \in {"new switch", "new address"} => cmd.to \in Subnets
    /\ cmd.step = "new address" => adapter # 0
    /\ cmd.step \in {"sweep names", "sweep prompts", "add rules", "ok"} =>
         adapter # 0 /\ address = cmd.to /\ cmd.to # None

\* The rules it has made are all there are, unless a sweep failed silently.
Adding ==
  cmd.kind = "create" /\ ~cmd.silent =>
    /\ cmd.step = "sweep prompts" => rules = {}
    /\ cmd.step = "add rules" => prompts = {} /\ rules = {NewRules[i] : i \in 1..cmd.added}
    /\ cmd.step = "ok" => prompts = {} /\ rules = {NewRules[i] : i \in 1..5}

\* What a delete has not swept yet: orphans, and rules of the adapters that exist.
Reachable ==
  At("delete", "check attached") \/ At("delete", "sweep adapter") \/ At("delete", "sweep prompts")
  \/ At("delete", "sweep smb") \/ At("delete", "remove switch") =>
    \A r \in rules : r \in cmd.orphans \/ r.on = NatAdapter \/ r.on = adapter

\* What a delete has removed when it comes to a step, unless something failed.
Deleting ==
  cmd.kind = "delete" =>
    /\ cmd.step \in DeleteSteps \cup Ended
    /\ cmd.step = "ok" => ~cmd.failed
    /\ ~cmd.failed /\ ~cmd.silent =>
         /\ cmd.step \in {"sweep prompts", "sweep smb", "remove switch"} =>
              \A r \in rules : r.on = NatAdapter \/ r.on # adapter
         /\ cmd.step \in {"sweep smb", "remove switch", "report", "ok"} => prompts = {}
         /\ cmd.step \in {"remove switch", "report", "ok"} => \A r \in rules : r.name # "smb"
         /\ cmd.step \in {"report", "ok"} => adapter = 0 /\ rules \subseteq cmd.orphans

NetworkInv == NetworkTypeOK /\ NatRules /\ Creating /\ Adding /\ Reachable /\ Deleting

-----------------------------------------------------------------------------
\* A sweep that did not fail, openly or silently, left nothing.
LEMMA SweepClean ==
  ASSUME NEW matched, NEW s \in SweepResults(matched)
  PROVE  /\ s.left \subseteq matched
         /\ s.failed \in BOOLEAN /\ s.silent \in BOOLEAN
         /\ ~s.failed /\ ~s.silent => s.left = {}
<1>1. CASE s \in {[left |-> x, failed |-> x # {}, silent |-> FALSE] :
                    x \in {y \in SUBSET matched : Cardinality(y) <= MaxLeft}}
  <2>1. PICK x \in SUBSET matched : s = [left |-> x, failed |-> x # {}, silent |-> FALSE]
    BY <1>1
  <2> QED BY <2>1
<1>2. CASE s = [left |-> matched, failed |-> FALSE, silent |-> matched # {}]
  BY <1>2
<1> QED BY <1>1, <1>2 DEF SweepResults

\* The rules of a create are rules, and only the last is on the NAT adapter.
LEMMA NewRuleIsRule ==
  ASSUME NetworkTypeOK, HostNetworkAssumption, NEW i \in 1..5
  PROVE  /\ NewRules[i] \in Rule
         /\ adapter # 0 /\ NewRules[i].on = NatAdapter => NewRules[i].name = "smb"
<1>1. cmd.to \in Subnets \cup {None} /\ cmd.seen.nat \in NatAddresses \cup {None}
  BY DEF NetworkTypeOK, Command, Seen
<1>2. count \in Commands /\ adapter \in Commands /\ NatAdapter \in Commands
  BY DEF NetworkTypeOK, Commands, NatAdapter, HostNetworkAssumption
<1>3. \A n \in RuleNames, on \in Commands, l \in Subnets \cup NatAddresses \cup {None} :
        Made(n, on, l) \in Rule /\ Made(n, on, l).name = n /\ Made(n, on, l).on = on
  BY <1>2 DEF Made, Rule
<1>4. i = 1 \/ i = 2 \/ i = 3 \/ i = 4 \/ i = 5
  OBVIOUS
<1>5. /\ NewRules[1] = Made("envoy", adapter, cmd.to) /\ NewRules[2] = Made("dns", adapter, cmd.to)
      /\ NewRules[3] = Made("dhcp", adapter, None) /\ NewRules[4] = Made("smb", adapter, cmd.to)
      /\ NewRules[5] = Made("smb", NatAdapter, cmd.seen.nat)
  BY DEF NewRules
<1>6. \A j \in 1..4 : NewRules[j] \in Rule /\ NewRules[j].on = adapter
  BY <1>1, <1>2, <1>3, <1>5 DEF RuleNames
<1>7. NewRules[5] \in Rule /\ NewRules[5].name = "smb"
  BY <1>1, <1>2, <1>3, <1>5 DEF RuleNames
<1> QED BY <1>4, <1>6, <1>7 DEF NatAdapter

\* A command begins as a command, with the orphans of the moment.
LEMMA BegunIsCommand ==
  ASSUME NetworkTypeOK, NEW k \in {"create", "delete", "none"}, NEW st \in CreateSteps \cup DeleteSteps \cup Ended
  PROVE  Begun(k, st) \in Command
<1>1. [nat |-> nat, address |-> address, taken |-> taken] \in Seen
  BY DEF NetworkTypeOK, Seen
<1>2. Orphans \in SUBSET Rule
  BY DEF NetworkTypeOK, Orphans
<1> QED BY <1>1, <1>2 DEF Begun, Command

LEMMA CountGoesOn ==
  ASSUME HostNetworkAssumption, count \in Commands, count < MaxCommands
  PROVE  count + 1 \in Commands /\ count + 1 # 0
BY DEF HostNetworkAssumption, Commands

-----------------------------------------------------------------------------
LEMMA InitNetworkInv == HostNetworkAssumption /\ NetworkInit => NetworkInv
<1> SUFFICES ASSUME HostNetworkAssumption, NetworkInit PROVE NetworkInv
  OBVIOUS
<1>1. /\ adapter \in Commands /\ address \in Subnets \cup {None} /\ rules \in SUBSET Rule
      /\ prompts \in SUBSET Prompts /\ attached \in BOOLEAN /\ nat \in NatAddresses \cup {None}
      /\ taken \in SUBSET Subnets /\ count \in Commands
  <2>1. 0 \in Commands
    BY DEF HostNetworkAssumption, Commands
  <2>2. adapter \in Commands /\ count \in Commands /\ rules \in SUBSET Rule
    BY <2>1 DEF NetworkInit
  <2> QED BY <2>2 DEF NetworkInit
<1>2. cmd \in Command
  <2>1. [nat |-> nat, address |-> address, taken |-> taken] \in Seen
    BY <1>1 DEF Seen
  <2>2. Orphans \in SUBSET Rule
    BY <1>1 DEF Orphans
  <2> QED BY <2>1, <2>2 DEF NetworkInit, Begun, Command, Ended
<1>3. rules = {} /\ cmd.kind = "none"
  BY DEF NetworkInit, Begun
<1> QED BY <1>1, <1>2, <1>3 DEF NetworkInv, NetworkTypeOK, NatRules, Creating, Adding, Reachable, Deleting, At

\* Between the steps of a create.
LEMMA StartCreateInv == ASSUME HostNetworkAssumption, NetworkInv, StartCreate PROVE NetworkInv'
<1>1. NetworkTypeOK'
  <2>1. Begun("create", IF nat = None THEN "error" ELSE "find switch") \in Command
    BY BegunIsCommand DEF NetworkInv, CreateSteps, Ended
  <2>2. count' \in Commands
    BY CountGoesOn DEF StartCreate, NetworkInv, NetworkTypeOK
  <2> QED BY <2>1, <2>2 DEF NetworkInv, NetworkTypeOK, StartCreate
<1>2. /\ cmd'.kind = "create" /\ cmd'.step \in {"find switch", "error"} /\ cmd'.added = 0
      /\ cmd'.seen.address = address
  BY DEF StartCreate, Begun
<1>3. count' # 0 /\ rules' = rules /\ address' = address
  BY CountGoesOn DEF StartCreate, NetworkInv, NetworkTypeOK
<1>4. NatRules'
  BY <1>3 DEF NetworkInv, NatRules, NatAdapter
<1>5. Creating' /\ Adding'
  BY <1>2, <1>3 DEF Creating, Adding, CreateSteps, Ended
<1>6. Reachable' /\ Deleting'
  BY <1>2 DEF Reachable, Deleting, At
<1> QED BY <1>1, <1>4, <1>5, <1>6 DEF NetworkInv

LEMMA StartDeleteInv == ASSUME HostNetworkAssumption, NetworkInv, StartDelete PROVE NetworkInv'
<1>1. NetworkTypeOK'
  <2>1. Begun("delete", "check attached") \in Command
    BY BegunIsCommand DEF NetworkInv, DeleteSteps
  <2>2. count' \in Commands
    BY CountGoesOn DEF StartDelete, NetworkInv, NetworkTypeOK
  <2> QED BY <2>1, <2>2 DEF NetworkInv, NetworkTypeOK, StartDelete
<1>2. cmd'.kind = "delete" /\ cmd'.step = "check attached" /\ cmd'.orphans = Orphans
  BY DEF StartDelete, Begun
<1>3. rules' = rules /\ adapter' = adapter
  BY DEF StartDelete
<1>4. NatRules'
  BY <1>3 DEF NetworkInv, NatRules, NatAdapter
<1>5. Creating' /\ Adding'
  BY <1>2 DEF Creating, Adding
<1>6. Reachable'
  BY <1>2, <1>3 DEF Reachable, Orphans
<1>7. Deleting'
  BY <1>2 DEF Deleting, DeleteSteps
<1> QED BY <1>1, <1>4, <1>5, <1>6, <1>7 DEF NetworkInv

\* Ending at once, and what happens beside the commands.
LEMMA CutOffInv == ASSUME NetworkInv, CutOff PROVE NetworkInv'
<1>1. cmd' = [cmd EXCEPT !.step = "cut off"] /\ cmd \in Command
  BY DEF CutOff, GoTo, NetworkInv, NetworkTypeOK
<1>2. cmd' \in Command /\ cmd'.step = "cut off" /\ cmd'.kind = cmd.kind
  BY <1>1 DEF Command, Ended
<1>3. NetworkTypeOK' /\ NatRules'
  BY <1>2 DEF CutOff, NetworkInv, NetworkTypeOK, NatRules, NatAdapter
<1>4. Creating' /\ Adding'
  BY <1>2 DEF CutOff, NetworkInv, Creating, Adding, CreateSteps, Ended
<1>5. Reachable' /\ Deleting'
  BY <1>2 DEF Reachable, Deleting, At, Ended
<1> QED BY <1>3, <1>4, <1>5 DEF NetworkInv

LEMMA BesideInv == ASSUME NetworkInv, AttachVm \/ NatMoves PROVE NetworkInv'
<1>1. UNCHANGED <<adapter, address, rules, prompts, taken, count, cmd>>
  BY DEF AttachVm, NatMoves
<1>2. NetworkTypeOK'
  BY <1>1 DEF AttachVm, NatMoves, NetworkInv, NetworkTypeOK
<1>3. NatRules' /\ Creating' /\ Reachable' /\ Deleting'
  BY <1>1, ZenonT(40) DEF NetworkInv, NatRules, Creating, Reachable, Deleting, At
<1>4. Adding'
  BY <1>1, ZenonT(90) DEF NetworkInv, Adding, NewRules, Made
<1> QED BY <1>2, <1>3, <1>4 DEF NetworkInv

\* Rules are added one after the other.
LEMMA OneMore ==
  ASSUME NEW n \in 0..4
  PROVE  /\ n + 1 \in 1..5 /\ n + 1 \in 0..5
         /\ n # 4 => n + 1 \in 0..4
         /\ n = 4 => n + 1 = 5
         /\ 1..(n + 1) = (1..n) \cup {n + 1}
OBVIOUS

\* An action of a create leaves what is said of a delete alone, and the other way round.
LEMMA OnlyCreating ==
  ASSUME cmd'.kind = "create"
  PROVE  Reachable' /\ Deleting'
BY DEF Reachable, Deleting, At

LEMMA OnlyDeleting ==
  ASSUME cmd'.kind = "delete"
  PROVE  Creating' /\ Adding'
BY DEF Creating, Adding

-----------------------------------------------------------------------------
\* The steps of a create.
LEMMA FindSwitchInv == ASSUME NetworkInv, FindSwitch PROVE NetworkInv'
<1>1. cmd \in Command /\ cmd.kind = "create" /\ cmd.step = "find switch" /\ cmd.added = 0
  BY DEF NetworkInv, NetworkTypeOK, FindSwitch, At, Creating, CreateSteps
<1>2. cmd.seen.address = address /\ address \in Subnets \cup {None}
  BY <1>1 DEF NetworkInv, NetworkTypeOK, Creating
<1>3. UNCHANGED <<adapter, address, rules, prompts, attached, nat, taken, count>>
  BY DEF FindSwitch
<1>4. /\ cmd' \in Command /\ cmd'.kind = "create" /\ cmd'.added = 0
      /\ \/ cmd'.step = "error"
         \/ cmd'.step = "sweep names" /\ adapter # 0 /\ cmd'.to = address /\ address # None
         \/ cmd'.step = "new switch" /\ cmd'.to \in Subnets
  <2>1. CASE adapter # 0 /\ cmd' = [cmd EXCEPT !.to = cmd.seen.address,
                    !.step = IF cmd.seen.address = None THEN "error" ELSE "sweep names"]
    BY <1>1, <1>2, <2>1 DEF Command, CreateSteps, Ended
  <2>2. CASE \E n \in Subnets \ cmd.seen.taken : cmd' = [cmd EXCEPT !.to = n, !.step = "new switch"]
    BY <1>1, <2>2 DEF Command, CreateSteps
  <2>3. CASE GoTo("error")
    BY <1>1, <2>3 DEF GoTo, Command, Ended
  <2> QED BY <2>1, <2>2, <2>3 DEF FindSwitch
<1>5. NetworkTypeOK' /\ NatRules'
  BY <1>3, <1>4 DEF NetworkInv, NetworkTypeOK, NatRules, NatAdapter
<1>6. Creating' /\ Adding'
  BY <1>1, <1>3, <1>4 DEF NetworkInv, Creating, Adding, CreateSteps, Ended
<1> QED BY <1>4, <1>5, <1>6, OnlyCreating DEF NetworkInv

LEMMA NewSwitchInv == ASSUME NetworkInv, NewSwitch PROVE NetworkInv'
<1>1. cmd \in Command /\ cmd.kind = "create" /\ cmd.step = "new switch" /\ cmd.added = 0
  BY DEF NetworkInv, NetworkTypeOK, NewSwitch, At, Creating, CreateSteps
<1>2. count # 0 /\ cmd.to \in Subnets
  BY <1>1 DEF NetworkInv, Creating
<1>3. UNCHANGED <<address, rules, prompts, attached, nat, taken, count>>
  BY DEF NewSwitch
<1>4. /\ cmd' \in Command /\ cmd'.kind = "create" /\ cmd'.added = 0 /\ cmd'.to = cmd.to
      /\ \/ cmd'.step = "new address" /\ adapter' = count
         \/ cmd'.step = "error" /\ adapter' = adapter
  <2>1. CASE adapter' = count /\ GoTo("new address")
    BY <1>1, <2>1 DEF GoTo, Command, CreateSteps
  <2>2. CASE adapter' = adapter /\ GoTo("error")
    BY <1>1, <2>2 DEF GoTo, Command, Ended
  <2> QED BY <2>1, <2>2 DEF NewSwitch
<1>5. NetworkTypeOK' /\ NatRules'
  BY <1>3, <1>4 DEF NetworkInv, NetworkTypeOK, NatRules, NatAdapter
<1>6. Creating' /\ Adding'
  BY <1>2, <1>3, <1>4 DEF Creating, Adding, CreateSteps, Ended
<1> QED BY <1>4, <1>5, <1>6, OnlyCreating DEF NetworkInv

LEMMA NewAddressInv == ASSUME HostNetworkAssumption, NetworkInv, NewAddress PROVE NetworkInv'
<1>1. cmd \in Command /\ cmd.kind = "create" /\ cmd.step = "new address" /\ cmd.added = 0
  BY DEF NetworkInv, NetworkTypeOK, NewAddress, At, Creating, CreateSteps
<1>2. count # 0 /\ cmd.to \in Subnets /\ cmd.to # None /\ adapter # 0
  BY <1>1 DEF NetworkInv, Creating, HostNetworkAssumption
<1>3. UNCHANGED <<adapter, rules, prompts, attached, nat, taken, count>>
  BY DEF NewAddress
<1>4. /\ cmd' \in Command /\ cmd'.kind = "create" /\ cmd'.added = 0 /\ cmd'.to = cmd.to
      /\ \/ cmd'.step = "sweep names" /\ address' = cmd.to
         \/ cmd'.step = "error" /\ address' = address
  <2>1. CASE address' = cmd.to /\ GoTo("sweep names")
    BY <1>1, <2>1 DEF GoTo, Command, CreateSteps
  <2>2. CASE address' = address /\ GoTo("error")
    BY <1>1, <2>2 DEF GoTo, Command, Ended
  <2> QED BY <2>1, <2>2 DEF NewAddress
<1>5. NetworkTypeOK' /\ NatRules'
  BY <1>2, <1>3, <1>4 DEF NetworkInv, NetworkTypeOK, NatRules, NatAdapter
<1>6. Creating' /\ Adding'
  BY <1>2, <1>3, <1>4 DEF Creating, Adding, CreateSteps, Ended
<1> QED BY <1>4, <1>5, <1>6, OnlyCreating DEF NetworkInv

LEMMA SweepNamesInv == ASSUME NetworkInv, SweepNames PROVE NetworkInv'
<1>1. /\ cmd \in Command /\ cmd.kind = "create" /\ cmd.step = "sweep names" /\ cmd.added = 0
      /\ count # 0 /\ adapter # 0 /\ address = cmd.to /\ cmd.to # None
  BY DEF NetworkInv, NetworkTypeOK, SweepNames, At, Creating, CreateSteps
<1>2. PICK s \in SweepResults(rules) : rules' = s.left /\ AfterSweep(s, "sweep prompts")
  BY DEF SweepNames
<1>3. UNCHANGED <<adapter, address, prompts, attached, nat, taken, count>>
  BY DEF SweepNames
<1>4. /\ s.left \subseteq rules /\ s.failed \in BOOLEAN /\ s.silent \in BOOLEAN
      /\ ~s.failed /\ ~s.silent => s.left = {}
  BY SweepClean
<1>5. /\ cmd' \in Command /\ cmd'.kind = "create" /\ cmd'.added = 0 /\ cmd'.to = cmd.to
      /\ cmd'.step = IF s.failed THEN "error" ELSE "sweep prompts"
      /\ cmd'.silent = (cmd.silent \/ s.silent)
  BY <1>1, <1>2, <1>4 DEF AfterSweep, Command, CreateSteps, Ended
<1>6. NetworkTypeOK' /\ NatRules'
  BY <1>2, <1>3, <1>4, <1>5 DEF NetworkInv, NetworkTypeOK, NatRules, NatAdapter
<1>7. Creating' /\ Adding'
  BY <1>1, <1>2, <1>3, <1>4, <1>5 DEF Creating, Adding, CreateSteps, Ended
<1> QED BY <1>5, <1>6, <1>7, OnlyCreating DEF NetworkInv

LEMMA SweepPromptsInv == ASSUME NetworkInv, SweepPrompts PROVE NetworkInv'
<1>1. /\ cmd \in Command /\ cmd.kind = "create" /\ cmd.step = "sweep prompts" /\ cmd.added = 0
      /\ count # 0 /\ adapter # 0 /\ address = cmd.to /\ cmd.to # None
      /\ ~cmd.silent => rules = {}
  BY DEF NetworkInv, NetworkTypeOK, SweepPrompts, At, Creating, Adding, CreateSteps
<1>2. PICK s \in SweepResults(prompts) : prompts' = s.left /\ AfterSweep(s, "add rules")
  BY DEF SweepPrompts
<1>3. UNCHANGED <<adapter, address, rules, attached, nat, taken, count>>
  BY DEF SweepPrompts
<1>4. /\ s.left \subseteq prompts /\ s.failed \in BOOLEAN /\ s.silent \in BOOLEAN
      /\ ~s.failed /\ ~s.silent => s.left = {}
  BY SweepClean
<1>5. /\ cmd' \in Command /\ cmd'.kind = "create" /\ cmd'.added = 0 /\ cmd'.to = cmd.to
      /\ cmd'.step = IF s.failed THEN "error" ELSE "add rules"
      /\ cmd'.silent = (cmd.silent \/ s.silent)
  BY <1>1, <1>2, <1>4 DEF AfterSweep, Command, CreateSteps, Ended
<1>6. NetworkTypeOK' /\ NatRules'
  BY <1>2, <1>3, <1>4, <1>5 DEF NetworkInv, NetworkTypeOK, NatRules, NatAdapter
<1>7. Creating'
  <2>1. 0 \in 0..4
    OBVIOUS
  <2> QED BY <1>1, <1>3, <1>5, <2>1 DEF Creating, CreateSteps, Ended
<1>8. Adding'
  <2>1. {NewRules'[i] : i \in 1..0} = {}
    OBVIOUS
  <2> QED BY <1>1, <1>2, <1>3, <1>4, <1>5, <2>1 DEF Adding
<1> QED BY <1>5, <1>6, <1>7, <1>8, OnlyCreating DEF NetworkInv

LEMMA AddRuleInv == ASSUME HostNetworkAssumption, NetworkInv, AddRule PROVE NetworkInv'
<1>1. /\ cmd \in Command /\ cmd.kind = "create" /\ cmd.step = "add rules" /\ cmd.added \in 0..4
      /\ count # 0 /\ adapter # 0 /\ address = cmd.to /\ cmd.to # None
  BY DEF NetworkInv, NetworkTypeOK, AddRule, At, Creating
<1>2. UNCHANGED <<adapter, address, prompts, attached, nat, taken, count>>
  BY DEF AddRule
<1>3. CASE rules' = rules /\ GoTo("error")
  <2>1. cmd' \in Command /\ cmd'.kind = "create" /\ cmd'.step = "error"
    BY <1>1, <1>3 DEF GoTo, Command, Ended
  <2>2. NetworkTypeOK' /\ NatRules'
    BY <1>2, <1>3, <2>1 DEF NetworkInv, NetworkTypeOK, NatRules, NatAdapter
  <2>3. Creating' /\ Adding'
    BY <1>1, <1>2, <2>1 DEF Creating, Adding, CreateSteps, Ended
  <2> QED BY <2>1, <2>2, <2>3, OnlyCreating DEF NetworkInv
<1>4. CASE /\ rules' = rules \cup {NewRules[cmd.added + 1]}
           /\ cmd' = [cmd EXCEPT !.added = @ + 1, !.step = IF cmd.added = 4 THEN "ok" ELSE @]
  <2>1. /\ cmd' \in Command /\ cmd'.kind = "create" /\ cmd'.added = cmd.added + 1
        /\ cmd'.step = IF cmd.added = 4 THEN "ok" ELSE "add rules"
        /\ cmd'.to = cmd.to /\ cmd'.silent = cmd.silent /\ cmd'.seen = cmd.seen
    BY <1>1, <1>4, OneMore DEF Command, Ended
  <2>2. cmd.added + 1 \in 1..5
    BY <1>1, OneMore
  <2>3. /\ NewRules[cmd.added + 1] \in Rule
        /\ NewRules[cmd.added + 1].on = NatAdapter => NewRules[cmd.added + 1].name = "smb"
    BY <1>1, <2>2, NewRuleIsRule DEF NetworkInv
  <2>4. NetworkTypeOK'
    <3>1. rules' \in SUBSET Rule
      BY <1>4, <2>3 DEF NetworkInv, NetworkTypeOK
    <3> QED BY <1>2, <2>1, <3>1 DEF NetworkInv, NetworkTypeOK
  <2>5. NatRules'
    <3> SUFFICES ASSUME NEW r \in rules', r.on = NatAdapter PROVE r.name = "smb"
      BY DEF NatRules, NatAdapter
    <3> QED BY <1>4, <2>3 DEF NetworkInv, NatRules
  <2>6. Creating'
    <3>1. cmd.added # 4 => cmd'.added \in 0..4
      BY <1>1, <2>1, OneMore
    <3> QED BY <1>1, <1>2, <2>1, <3>1 DEF Creating, CreateSteps, Ended
  <2>7. Adding'
    <3> SUFFICES ASSUME ~cmd.silent
                 PROVE  prompts' = {} /\ rules' = {NewRules'[i] : i \in 1..(cmd.added + 1)}
      BY <1>1, <2>1, OneMore DEF Adding
    <3>1. prompts = {} /\ rules = {NewRules[i] : i \in 1..cmd.added}
      BY <1>1 DEF NetworkInv, Adding
    <3>2. NewRules' = NewRules
      BY <1>2, <2>1 DEF NewRules, Made
    <3>3. 1..(cmd.added + 1) = (1..cmd.added) \cup {cmd.added + 1}
      BY <1>1, OneMore
    <3> QED BY <1>2, <1>4, <3>1, <3>2, <3>3
  <2> QED BY <2>1, <2>4, <2>5, <2>6, <2>7, OnlyCreating DEF NetworkInv
<1> QED BY <1>3, <1>4 DEF AddRule

-----------------------------------------------------------------------------
\* The steps of a delete.
LEMMA CheckAttachedInv == ASSUME NetworkInv, CheckAttached PROVE NetworkInv'
<1>1. cmd \in Command /\ cmd.kind = "delete" /\ cmd.step = "check attached"
  BY DEF NetworkInv, NetworkTypeOK, CheckAttached, At
<1>2. UNCHANGED <<adapter, address, rules, prompts, attached, nat, taken, count>>
  BY DEF CheckAttached
<1>3. /\ cmd' \in Command /\ cmd'.kind = "delete" /\ cmd'.orphans = cmd.orphans
      /\ cmd'.step \in {"error", "sweep adapter"}
  BY <1>1 DEF CheckAttached, GoTo, Command, DeleteSteps, Ended
<1>4. NetworkTypeOK' /\ NatRules'
  BY <1>2, <1>3 DEF NetworkInv, NetworkTypeOK, NatRules, NatAdapter
<1>5. Reachable' /\ Deleting'
  BY <1>1, <1>2, <1>3 DEF NetworkInv, Reachable, Deleting, At, DeleteSteps, Ended
<1> QED BY <1>3, <1>4, <1>5, OnlyDeleting DEF NetworkInv

LEMMA SweepAdapterInv == ASSUME NetworkInv, SweepAdapter PROVE NetworkInv'
<1>1. cmd \in Command /\ cmd.kind = "delete" /\ cmd.step = "sweep adapter"
  BY DEF NetworkInv, NetworkTypeOK, SweepAdapter, At
<1>2. PICK s \in SweepResults(OnAdapter) :
        rules' = (rules \ OnAdapter) \cup s.left /\ AfterTry(s, "sweep prompts")
  BY DEF SweepAdapter
<1>3. UNCHANGED <<adapter, address, prompts, attached, nat, taken, count>>
  BY DEF SweepAdapter
<1>4. /\ s.left \subseteq OnAdapter /\ s.failed \in BOOLEAN /\ s.silent \in BOOLEAN
      /\ ~s.failed /\ ~s.silent => s.left = {}
  BY SweepClean
<1>5. /\ cmd' \in Command /\ cmd'.kind = "delete" /\ cmd'.orphans = cmd.orphans
      /\ cmd'.step = "sweep prompts"
      /\ cmd'.failed = (cmd.failed \/ s.failed) /\ cmd'.silent = (cmd.silent \/ s.silent)
  BY <1>1, <1>2, <1>4 DEF AfterTry, Command, DeleteSteps
<1>6. rules' \subseteq rules
  BY <1>2, <1>4 DEF OnAdapter
<1>7. NetworkTypeOK' /\ NatRules'
  BY <1>3, <1>5, <1>6 DEF NetworkInv, NetworkTypeOK, NatRules, NatAdapter
<1>8. Reachable'
  BY <1>1, <1>3, <1>5, <1>6 DEF NetworkInv, Reachable, At
<1>9. Deleting'
  <2> SUFFICES ASSUME ~cmd'.failed, ~cmd'.silent, NEW r \in rules'
               PROVE  r.on = NatAdapter \/ r.on # adapter
    BY <1>3, <1>5 DEF Deleting, DeleteSteps, Ended, NatAdapter
  <2> QED BY <1>2, <1>4, <1>5 DEF OnAdapter, NatAdapter
<1> QED BY <1>5, <1>7, <1>8, <1>9, OnlyDeleting DEF NetworkInv

LEMMA SweepPromptsTooInv == ASSUME NetworkInv, SweepPromptsToo PROVE NetworkInv'
<1>1. cmd \in Command /\ cmd.kind = "delete" /\ cmd.step = "sweep prompts"
  BY DEF NetworkInv, NetworkTypeOK, SweepPromptsToo, At
<1>2. PICK s \in SweepResults(prompts) : prompts' = s.left /\ AfterTry(s, "sweep smb")
  BY DEF SweepPromptsToo
<1>3. UNCHANGED <<adapter, address, rules, attached, nat, taken, count>>
  BY DEF SweepPromptsToo
<1>4. /\ s.left \subseteq prompts /\ s.failed \in BOOLEAN /\ s.silent \in BOOLEAN
      /\ ~s.failed /\ ~s.silent => s.left = {}
  BY SweepClean
<1>5. /\ cmd' \in Command /\ cmd'.kind = "delete" /\ cmd'.orphans = cmd.orphans
      /\ cmd'.step = "sweep smb"
      /\ cmd'.failed = (cmd.failed \/ s.failed) /\ cmd'.silent = (cmd.silent \/ s.silent)
  BY <1>1, <1>2, <1>4 DEF AfterTry, Command, DeleteSteps
<1>6. NetworkTypeOK' /\ NatRules'
  BY <1>2, <1>3, <1>4, <1>5 DEF NetworkInv, NetworkTypeOK, NatRules, NatAdapter
<1>7. Reachable' /\ Deleting'
  BY <1>1, <1>2, <1>3, <1>4, <1>5 DEF NetworkInv, Reachable, Deleting, At, DeleteSteps, Ended, NatAdapter
<1> QED BY <1>5, <1>6, <1>7, OnlyDeleting DEF NetworkInv

LEMMA SweepSharesInv == ASSUME NetworkInv, SweepShares PROVE NetworkInv'
<1>1. cmd \in Command /\ cmd.kind = "delete" /\ cmd.step = "sweep smb"
  BY DEF NetworkInv, NetworkTypeOK, SweepShares, At
<1>2. PICK s \in SweepResults(Shares) :
        rules' = (rules \ Shares) \cup s.left /\ AfterTry(s, "remove switch")
  BY DEF SweepShares
<1>3. UNCHANGED <<adapter, address, prompts, attached, nat, taken, count>>
  BY DEF SweepShares
<1>4. /\ s.left \subseteq Shares /\ s.failed \in BOOLEAN /\ s.silent \in BOOLEAN
      /\ ~s.failed /\ ~s.silent => s.left = {}
  BY SweepClean
<1>5. /\ cmd' \in Command /\ cmd'.kind = "delete" /\ cmd'.orphans = cmd.orphans
      /\ cmd'.step = "remove switch"
      /\ cmd'.failed = (cmd.failed \/ s.failed) /\ cmd'.silent = (cmd.silent \/ s.silent)
  BY <1>1, <1>2, <1>4 DEF AfterTry, Command, DeleteSteps
<1>6. rules' \subseteq rules
  BY <1>2, <1>4 DEF Shares
<1>7. NetworkTypeOK' /\ NatRules'
  BY <1>3, <1>5, <1>6 DEF NetworkInv, NetworkTypeOK, NatRules, NatAdapter
<1>8. Reachable'
  BY <1>1, <1>3, <1>5, <1>6 DEF NetworkInv, Reachable, At
<1>9. Deleting'
  <2> SUFFICES ASSUME ~cmd'.failed, ~cmd'.silent
               PROVE  /\ \A r \in rules' : r.on = NatAdapter \/ r.on # adapter
                      /\ prompts = {} /\ \A r \in rules' : r.name # "smb"
    BY <1>3, <1>5 DEF Deleting, DeleteSteps, Ended, NatAdapter
  <2>1. prompts = {} /\ \A r \in rules : r.on = NatAdapter \/ r.on # adapter
    BY <1>1, <1>5 DEF NetworkInv, Deleting
  <2>2. \A r \in rules' : r.name # "smb"
    BY <1>2, <1>4, <1>5 DEF Shares
  <2> QED BY <1>6, <2>1, <2>2
<1> QED BY <1>5, <1>7, <1>8, <1>9, OnlyDeleting DEF NetworkInv

LEMMA RemoveSwitchInv == ASSUME HostNetworkAssumption, NetworkInv, RemoveSwitch PROVE NetworkInv'
<1>1. cmd \in Command /\ cmd.kind = "delete" /\ cmd.step = "remove switch"
  BY DEF NetworkInv, NetworkTypeOK, RemoveSwitch, At
<1>2. UNCHANGED <<rules, prompts, nat, taken, count>>
  BY DEF RemoveSwitch
<1>3. /\ cmd' \in Command /\ cmd'.kind = "delete" /\ cmd'.orphans = cmd.orphans
      /\ cmd'.step \in {"report", "error"}
      /\ cmd.failed => cmd'.failed
      /\ cmd.silent => cmd'.silent
      /\ cmd'.step = "report" /\ ~cmd'.failed /\ ~cmd'.silent => adapter' = 0
  <2>1. CASE adapter' = 0 /\ GoTo("report")
    BY <1>1, <2>1 DEF GoTo, Command, DeleteSteps
  <2>2. CASE cmd' = [cmd EXCEPT !.step = "report", !.failed = TRUE]
    BY <1>1, <2>2 DEF Command, DeleteSteps
  <2>3. CASE cmd' = [cmd EXCEPT !.step = "report", !.silent = TRUE]
    BY <1>1, <2>3 DEF Command, DeleteSteps
  <2>4. CASE GoTo("error")
    BY <1>1, <2>4 DEF GoTo, Command, Ended
  <2> QED BY <2>1, <2>2, <2>3, <2>4 DEF RemoveSwitch
<1>4. adapter' \in {0, adapter} /\ address' \in {None, address} /\ attached' \in {FALSE, attached}
  BY DEF RemoveSwitch
<1>5. NetworkTypeOK' /\ NatRules'
  <2>1. 0 \in Commands
    BY DEF HostNetworkAssumption, Commands
  <2> QED BY <1>2, <1>3, <1>4, <2>1 DEF NetworkInv, NetworkTypeOK, NatRules, NatAdapter
<1>6. Reachable'
  BY <1>3 DEF Reachable, At
<1>7. Deleting'
  <2> SUFFICES ASSUME ~cmd'.failed, ~cmd'.silent, cmd'.step = "report"
               PROVE  prompts = {} /\ (\A r \in rules : r.name # "smb") /\ rules \subseteq cmd.orphans
    BY <1>2, <1>3 DEF Deleting, DeleteSteps, Ended
  <2>1. ~cmd.failed /\ ~cmd.silent
    BY <1>1, <1>3 DEF Command
  <2>2. /\ prompts = {} /\ \A r \in rules : r.name # "smb"
        /\ \A r \in rules : r.on = NatAdapter \/ r.on # adapter
    BY <1>1, <2>1 DEF NetworkInv, Deleting
  <2>3. \A r \in rules : r.on # NatAdapter
    BY <2>2 DEF NetworkInv, NatRules
  <2>4. \A r \in rules : r \in cmd.orphans
    BY <1>1, <2>2, <2>3 DEF NetworkInv, Reachable, At
  <2> QED BY <2>2, <2>4
<1> QED BY <1>3, <1>5, <1>6, <1>7, OnlyDeleting DEF NetworkInv

LEMMA ReportInv == ASSUME NetworkInv, Report PROVE NetworkInv'
<1>1. cmd \in Command /\ cmd.kind = "delete" /\ cmd.step = "report"
  BY DEF NetworkInv, NetworkTypeOK, Report, At
<1>2. UNCHANGED <<adapter, address, rules, prompts, attached, nat, taken, count>>
  BY DEF Report
<1>3. /\ cmd' \in Command /\ cmd'.kind = "delete" /\ cmd'.orphans = cmd.orphans
      /\ cmd'.step = IF cmd.failed THEN "error" ELSE "ok"
      /\ cmd'.failed = cmd.failed /\ cmd'.silent = cmd.silent
  BY <1>1 DEF Report, GoTo, Command, Ended
<1>4. NetworkTypeOK' /\ NatRules'
  BY <1>2, <1>3 DEF NetworkInv, NetworkTypeOK, NatRules, NatAdapter
<1>5. Reachable'
  BY <1>3 DEF Reachable, At
<1>6. Deleting'
  BY <1>1, <1>2, <1>3 DEF NetworkInv, Deleting, DeleteSteps, Ended
<1> QED BY <1>3, <1>4, <1>5, <1>6, OnlyDeleting DEF NetworkInv

-----------------------------------------------------------------------------
LEMMA NextNetworkInv == ASSUME HostNetworkAssumption, NetworkInv, NetworkNext PROVE NetworkInv'
BY StartCreateInv, StartDeleteInv, CutOffInv, BesideInv, FindSwitchInv, NewSwitchInv, NewAddressInv,
   SweepNamesInv, SweepPromptsInv, AddRuleInv, CheckAttachedInv, SweepAdapterInv,
   SweepPromptsTooInv, SweepSharesInv, RemoveSwitchInv, ReportInv DEF NetworkNext

LEMMA StutterNetworkInv == ASSUME NetworkInv, UNCHANGED networkVars PROVE NetworkInv'
<1>1. UNCHANGED <<adapter, address, rules, prompts, attached, nat, taken, count, cmd>>
  BY DEF networkVars
<1>2. NetworkTypeOK'
  BY <1>1 DEF NetworkInv, NetworkTypeOK
<1>3. NatRules' /\ Creating' /\ Reachable' /\ Deleting'
  BY <1>1, ZenonT(40) DEF NetworkInv, NatRules, Creating, Reachable, Deleting, At
<1>4. Adding'
  BY <1>1, ZenonT(90) DEF NetworkInv, Adding, NewRules, Made
<1> QED BY <1>2, <1>3, <1>4 DEF NetworkInv

\* The invariant gives what the commands promise.
LEMMA ExactlyTheRules == ASSUME HostNetworkAssumption, NetworkInv PROVE CreateIsExact
<1> SUFFICES ASSUME cmd.kind = "create", cmd.step = "ok", ~cmd.silent
    PROVE /\ rules = {Made("envoy", adapter, address), Made("dns", adapter, address),
                      Made("dhcp", adapter, None), Made("smb", adapter, address),
                      Made("smb", NatAdapter, cmd.seen.nat)}
          /\ adapter # 0 /\ address # None /\ prompts = {}
  BY DEF CreateIsExact, At, Made
<1>1. adapter # 0 /\ address = cmd.to /\ address # None
  BY DEF NetworkInv, Creating
<1>2. prompts = {} /\ rules = {NewRules[i] : i \in 1..5}
  BY DEF NetworkInv, Adding
<1>3. \A i : i \in 1..5 <=> i = 1 \/ i = 2 \/ i = 3 \/ i = 4 \/ i = 5
  OBVIOUS
<1>4. rules = {NewRules[1], NewRules[2], NewRules[3], NewRules[4], NewRules[5]}
  BY <1>2, <1>3
<1>5. /\ NewRules[1] = Made("envoy", adapter, address) /\ NewRules[2] = Made("dns", adapter, address)
      /\ NewRules[3] = Made("dhcp", adapter, None) /\ NewRules[4] = Made("smb", adapter, address)
      /\ NewRules[5] = Made("smb", NatAdapter, cmd.seen.nat)
  BY <1>1 DEF NewRules
<1> QED BY <1>1, <1>2, <1>4, <1>5

LEMMA OnlyOrphansStay == ASSUME NetworkInv PROVE DeleteLeavesOrphans
BY DEF NetworkInv, Deleting, DeleteLeavesOrphans, At

-----------------------------------------------------------------------------
LEMMA AlwaysNetworkInv == NetworkSpec => []NetworkInv
<1>1. NetworkInit => NetworkInv
  BY InitNetworkInv, HostNetworkAssumption
<1>2. NetworkInv /\ [NetworkNext]_networkVars => NetworkInv'
  BY NextNetworkInv, StutterNetworkInv, HostNetworkAssumption
<1> QED BY <1>1, <1>2, PTL DEF NetworkSpec

\* The state of the host network and its commands has its type.
THEOREM NetworkTypes == NetworkSpec => []NetworkTypeOK
<1>1. NetworkInv => NetworkTypeOK
  BY DEF NetworkInv
<1> QED BY <1>1, AlwaysNetworkInv, PTL

(***************************************************************************)
(* generate-ca and run-hosting, next to them.                              *)
(***************************************************************************)

\* A generate-ca makes one root at most, and the first key may be older than all of them.
Numbered ==
  /\ roots <= issued + 1
  /\ gca.step \in {"look", "unlink", "check", "cert", "key"} => roots <= issued
  /\ gca.step \notin Ended => issued # 0

\* The root pair while generate-ca works at it.
Rooting ==
  /\ gca.step = "unlink" => files.caKey = files.legacyKey
  /\ gca.step \in {"check", "cert", "key", "leaf", "leaf key", "linux", "windows"} =>
       files.legacyKey = NoKey
  /\ gca.step \in {"cert", "key"} => files.caKey = NoKey /\ gca.root = roots + 1
  /\ gca.step = "key" => files.caCert = gca.root
  /\ gca.step \in {"leaf", "leaf key", "linux", "windows"} =>
       gca.root # NoKey /\ files.caCert = gca.root /\ files.caKey = gca.root

\* The leaf and the copies, in the order they are made.
Deriving ==
  /\ gca.step = "leaf key" /\ ~beside =>
       files.leafCert.root = gca.root /\ files.leafCert.pair = issued
  /\ gca.step \in {"linux", "windows"} /\ files.terminates /\ ~beside => LeafValid(gca.root)
  /\ gca.step = "windows" => files.linux = files.caCert

\* Nothing is bound before the services start, and then what comes first in their order.
Binding ==
  /\ hosting.phase \in {"relaunch", "check", "leave", "ended"} => bound = <<>>
  /\ hosting.phase = "start" =>
       bound = <<>> \/ (hosting.forward /\ bound \in {<<"gateway">>, <<"gateway", "dns">>})

\* Who has spoken, in each phase: the process when its command returns or an exception ends it,
\* the parent after that and only of a signal.
Said ==
  /\ hosting.own \in {0, 1}
  /\ hosting.phase \in {"relaunch", "check", "start", "serve", "close"} =>
       hosting.own = 0 /\ hosting.end = "none"
  /\ hosting.phase = "leave" =>
       hosting.end = "usage" \/ (hosting.end = "none" /\ (hosting.own = 1 <=> hosting.code = 1))
  /\ hosting.phase = "ended" /\ hosting.end = "returned" =>
       hosting.code # 2 /\ (hosting.own = 1 <=> hosting.code = 1)
  /\ hosting.parent = "spoke" => hosting.phase = "ended" /\ hosting.end = "signal"
  /\ hosting.phase = "ended" /\ hosting.end = "signal" =>
       hosting.code = 1 /\ hosting.parent \in {"waits", "spoke"}

CaInv == Numbered /\ KeySurvives /\ Rooting /\ Deriving /\ CaIsComplete
RunInv == Binding /\ Said

HInv == HostTypeOK /\ NetworkInv /\ CaInv /\ RunInv

-----------------------------------------------------------------------------
LEMMA StutterCa ==
  ASSUME UNCHANGED caVars, CaInv
  PROVE  CaInv'
<1>1. UNCHANGED <<files, roots, discarded, issued, gca, beside>>
  BY DEF caVars
<1> QED BY <1>1 DEF CaInv, Numbered, KeySurvives, Rooting, Deriving, CaIsComplete, LeafValid

LEMMA StutterRun ==
  ASSUME UNCHANGED <<hosting, bound>>, RunInv
  PROVE  RunInv'
BY DEF RunInv, Binding, Said

\* The number of a command.
LEMMA MayGoOn ==
  ASSUME HostNetworkAssumption, HostTypeOK, MayCommand
  PROVE  /\ issued \in Nat /\ issued + 1 \in Commands /\ issued + 1 # 0
         /\ starts + 1 \in Commands
<1>1. count \in Nat /\ issued \in Nat /\ starts \in Nat /\ MaxCommands \in Nat
  BY DEF HostTypeOK, NetworkTypeOK, Commands, HostNetworkAssumption
<1>2. count + issued + starts < MaxCommands
  BY DEF MayCommand
<1> QED BY <1>1, <1>2 DEF Commands

LEMMA KeyNumbers ==
  ASSUME HostNetworkAssumption, HostTypeOK
  PROVE  roots \in Nat /\ issued \in Nat /\ (roots <= issued => roots + 1 \in Keys)
<1>1. roots \in 0..(MaxCommands + 1) /\ issued \in 0..MaxCommands /\ MaxCommands \in Nat
  BY DEF HostTypeOK, Keys, Commands, HostNetworkAssumption
<1> QED BY <1>1 DEF Keys

-----------------------------------------------------------------------------
LEMMA InitHInv == HostNetworkAssumption /\ HostInit => HInv
<1> SUFFICES ASSUME HostNetworkAssumption, HostInit PROVE HInv
  OBVIOUS
<1>1. NetworkInv
  BY InitNetworkInv DEF HostInit
<1>2. PICK old \in {NoKey, 1}, terminates \in BOOLEAN :
        /\ files = [caCert |-> old, caKey |-> NoKey, legacyKey |-> old,
                    leafCert |-> [root |-> NoKey, pair |-> 0], leafKey |-> 0,
                    linux |-> old, windows |-> NoKey, terminates |-> terminates]
        /\ roots = old
  BY DEF HostInit
<1>3. NoKey \in Keys /\ 1 \in Keys /\ 0 \in Commands /\ 0 \in Pairs /\ NoKey = 0
  BY DEF HostNetworkAssumption, Keys, NoKey, Commands, Pairs
<1>4. /\ discarded = {} /\ issued = 0 /\ bound = <<>> /\ starts = 0 /\ beside = FALSE
      /\ gca = [step |-> "ok", root |-> NoKey]
  BY DEF HostInit
<1>5. hosting = [phase |-> "ended", parent |-> "none", forward |-> FALSE, listen |-> None,
                 leaf |-> "none", code |-> 0, own |-> 0, end |-> "none"]
  BY DEF HostInit
<1>6. HostTypeOK
  <2>1. files \in Files
    BY <1>2, <1>3 DEF Files, Leaf
  <2>2. hosting \in Hosting
    BY <1>5 DEF Hosting, Phases, Parents, Ends
  <2>3. roots \in Keys
    BY <1>2, <1>3
  <2> QED BY <1>1, <1>3, <1>4, <2>1, <2>2, <2>3 DEF HostTypeOK, NetworkInv, Ended
<1>7. CaInv
  <2>1. roots <= issued + 1
    BY <1>2, <1>3, <1>4
  <2>2. KeySurvives
    <3> SUFFICES ASSUME NEW k \in 1..roots PROVE k = files.legacyKey
      BY DEF KeySurvives
    <3> QED BY <1>2, <1>3
  <2> QED BY <1>4, <2>1, <2>2 DEF CaInv, Numbered, Rooting, Deriving, CaIsComplete, Ended
<1>8. RunInv
  BY <1>4, <1>5 DEF RunInv, Binding, Said
<1> QED BY <1>1, <1>6, <1>7, <1>8 DEF HInv

LEMMA NetworkCommandInv == ASSUME HostNetworkAssumption, HInv, NetworkCommand PROVE HInv'
<1>1. NetworkInv'
  BY NextNetworkInv DEF HInv, NetworkCommand
<1>2. CaInv'
  BY StutterCa DEF HInv, NetworkCommand
<1>3. RunInv'
  BY StutterRun DEF HInv, NetworkCommand, runVars
<1>4. HostTypeOK'
  BY <1>1 DEF HInv, HostTypeOK, NetworkInv, NetworkCommand, caVars, runVars
<1> QED BY <1>1, <1>2, <1>3, <1>4 DEF HInv

-----------------------------------------------------------------------------
\* generate-ca, one file after another.

\* What a step of generate-ca has to keep for the rest of the invariant to hold.
LEMMA CaStep ==
  ASSUME HInv, UNCHANGED <<networkVars, runVars>>, CaInv',
         files' \in Files, roots' \in Keys, discarded' \in SUBSET Keys, issued' \in Commands,
         gca' \in [step: GcaSteps \cup Ended, root: Keys], beside' \in BOOLEAN
  PROVE  HInv'
<1>1. NetworkInv'
  BY StutterNetworkInv DEF HInv
<1>2. RunInv'
  BY StutterRun DEF HInv, runVars
<1>3. HostTypeOK'
  BY <1>1 DEF HInv, HostTypeOK, NetworkInv, runVars
<1> QED BY <1>1, <1>2, <1>3 DEF HInv

LEMMA StartGenerateCaInv == ASSUME HostNetworkAssumption, HInv, StartGenerateCa PROVE HInv'
<1>1. /\ issued' = issued + 1 /\ gca' = [step |-> "look", root |-> NoKey] /\ beside' = FALSE
      /\ UNCHANGED <<networkVars, runVars, files, roots, discarded>>
  BY DEF StartGenerateCa
<1>2. issued \in Nat /\ issued + 1 \in Commands /\ issued + 1 # 0
  BY MayGoOn DEF StartGenerateCa, HInv
<1>3. NoKey \in Keys /\ roots \in Nat
  BY KeyNumbers DEF HInv, Keys, NoKey, HostNetworkAssumption
<1>4. gca' \in [step: GcaSteps \cup Ended, root: Keys] /\ gca'.step = "look"
  BY <1>1, <1>3 DEF GcaSteps
<1>5. Numbered'
  <2>1. roots <= issued + 1
    BY DEF HInv, CaInv, Numbered
  <2>2. roots' <= issued' /\ roots' <= issued' + 1 /\ issued' # 0
    BY <1>1, <1>2, <1>3, <2>1
  <2> QED BY <2>2 DEF Numbered
<1>6. KeySurvives' /\ Rooting' /\ Deriving' /\ CaIsComplete'
  BY <1>1, <1>4 DEF HInv, CaInv, KeySurvives, Rooting, Deriving, CaIsComplete
<1> QED BY <1>1, <1>2, <1>4, <1>5, <1>6, CaStep DEF HInv, HostTypeOK, CaInv

\* Steps that go on with the same command.
LEMMA SameCommand ==
  ASSUME HInv, UNCHANGED <<roots, issued>>, gca.step \notin Ended,
         gca'.step \in {"look", "unlink", "check", "cert", "key"}
           => gca.step \in {"look", "unlink", "check", "cert", "key"}
  PROVE  Numbered'
BY DEF HInv, CaInv, Numbered

LEMMA LegacyKeyInv == ASSUME HostNetworkAssumption, HInv, LegacyKey PROVE HInv'
<1>1. /\ gca.step = "look" /\ gca \in [step: GcaSteps \cup Ended, root: Keys] /\ files \in Files
      /\ UNCHANGED <<roots, networkVars, runVars, discarded, issued, beside>>
  BY DEF LegacyKey, GcaAt, GcaUnchanged, HInv, HostTypeOK
<1>2. NoKey \in Keys
  BY DEF Keys, NoKey, HostNetworkAssumption
<1>3. /\ gca' \in [step: GcaSteps \cup Ended, root: Keys]
      /\ gca'.step \in {"check", "unlink", "error"}
  BY <1>1 DEF LegacyKey, GcaTo, GcaSteps, Ended
<1>4. \/ files' = files /\ files.legacyKey = NoKey /\ gca'.step = "check"
      \/ files' = files /\ gca'.step = "error"
      \/ /\ files.caKey = NoKey /\ gca'.step = "check"
         /\ files' = [files EXCEPT !.caKey = files.legacyKey, !.legacyKey = NoKey]
      \/ /\ files.caKey = NoKey /\ gca'.step = "unlink"
         /\ files' = [files EXCEPT !.caKey = files.legacyKey]
  BY <1>1 DEF LegacyKey, GcaTo
<1>5. /\ files' \in Files
      /\ gca'.step = "check" => files'.legacyKey = NoKey
      /\ gca'.step = "unlink" => files'.caKey = files'.legacyKey
      /\ \A k \in {files.caKey, files.legacyKey} \ {NoKey} : k \in {files'.caKey, files'.legacyKey}
  BY <1>1, <1>2, <1>4 DEF Files
<1>6. Numbered'
  BY <1>1, <1>3, SameCommand DEF Ended
<1>7. KeySurvives'
  <2> SUFFICES ASSUME NEW k \in 1..roots, k \notin discarded
               PROVE  k \in {files'.caKey, files'.legacyKey}
    BY <1>1 DEF KeySurvives
  <2>1. k # NoKey
    BY KeyNumbers DEF HInv, NoKey
  <2>2. k \in {files.caKey, files.legacyKey}
    BY DEF HInv, CaInv, KeySurvives
  <2> QED BY <1>5, <2>1, <2>2
<1>8. Rooting' /\ Deriving' /\ CaIsComplete'
  BY <1>3, <1>5 DEF Rooting, Deriving, CaIsComplete
<1> QED BY <1>1, <1>3, <1>5, <1>6, <1>7, <1>8, CaStep DEF HInv, HostTypeOK, CaInv

LEMMA UnlinkLegacyInv == ASSUME HostNetworkAssumption, HInv, UnlinkLegacy PROVE HInv'
<1>1. /\ gca.step = "unlink" /\ gca \in [step: GcaSteps \cup Ended, root: Keys] /\ files \in Files
      /\ UNCHANGED <<roots, networkVars, runVars, discarded, issued, beside>>
      /\ gca' = [gca EXCEPT !.step = "check"] /\ files' = [files EXCEPT !.legacyKey = NoKey]
  BY DEF UnlinkLegacy, GcaAt, GcaTo, GcaUnchanged, HInv, HostTypeOK
<1>2. NoKey \in Keys /\ files.caKey = files.legacyKey
  BY <1>1 DEF Keys, NoKey, HostNetworkAssumption, HInv, CaInv, Rooting
<1>3. gca' \in [step: GcaSteps \cup Ended, root: Keys] /\ gca'.step = "check"
  BY <1>1 DEF GcaSteps
<1>4. files' \in Files /\ files'.legacyKey = NoKey /\ files'.caKey = files.caKey
  BY <1>1, <1>2 DEF Files
<1>5. Numbered'
  BY <1>1, <1>3, SameCommand DEF Ended
<1>6. KeySurvives'
  BY <1>1, <1>2, <1>4 DEF HInv, CaInv, KeySurvives
<1>7. Rooting' /\ Deriving' /\ CaIsComplete'
  BY <1>3, <1>4 DEF Rooting, Deriving, CaIsComplete
<1> QED BY <1>1, <1>3, <1>4, <1>5, <1>6, <1>7, CaStep DEF HInv, HostTypeOK, CaInv

LEMMA CheckRootInv == ASSUME HostNetworkAssumption, HInv, CheckRoot PROVE HInv'
<1>1. /\ gca.step = "check" /\ gca \in [step: GcaSteps \cup Ended, root: Keys] /\ files \in Files
      /\ UNCHANGED <<files, roots, networkVars, runVars, discarded, issued, beside>>
  BY DEF CheckRoot, GcaAt, GcaUnchanged, HInv, HostTypeOK
<1>2. roots + 1 \in Keys /\ files.legacyKey = NoKey
  BY <1>1, KeyNumbers DEF HInv, CaInv, Numbered, Rooting
<1>3. \/ gca'.step = "cert" /\ gca'.root = roots + 1 /\ files.caKey = NoKey
      \/ /\ gca'.step = "leaf" /\ gca'.root = files.caCert
         /\ files.caCert # NoKey /\ files.caKey = files.caCert
      \/ gca'.step = "error"
  BY <1>1 DEF CheckRoot, GcaTo
<1>4. gca' \in [step: GcaSteps \cup Ended, root: Keys]
  <2>1. files.caCert \in Keys
    BY <1>1 DEF Files
  <2>2. CASE gca' = [step |-> "cert", root |-> roots + 1]
    BY <1>2, <2>2 DEF GcaSteps
  <2>3. CASE gca' = [step |-> "leaf", root |-> files.caCert]
    BY <2>1, <2>3 DEF GcaSteps
  <2>4. CASE GcaTo("error")
    BY <1>1, <2>4 DEF GcaTo, Ended
  <2> QED BY <2>2, <2>3, <2>4 DEF CheckRoot
<1>5. Numbered'
  BY <1>1, <1>3, SameCommand DEF Ended
<1>6. KeySurvives'
  BY <1>1 DEF HInv, CaInv, KeySurvives
<1>7. Rooting' /\ Deriving' /\ CaIsComplete'
  BY <1>1, <1>2, <1>3 DEF Rooting, Deriving, CaIsComplete
<1> QED BY <1>1, <1>4, <1>5, <1>6, <1>7, CaStep DEF HInv, HostTypeOK, CaInv

LEMMA WriteRootCertInv == ASSUME HInv, WriteRootCert PROVE HInv'
<1>1. /\ gca.step = "cert" /\ gca \in [step: GcaSteps \cup Ended, root: Keys] /\ files \in Files
      /\ UNCHANGED <<roots, networkVars, runVars, discarded, issued, beside>>
      /\ gca' = [gca EXCEPT !.step = "key"] /\ files' = [files EXCEPT !.caCert = gca.root]
  BY DEF WriteRootCert, GcaAt, GcaTo, GcaUnchanged, HInv, HostTypeOK
<1>2. files.legacyKey = NoKey /\ files.caKey = NoKey /\ gca.root = roots + 1
  BY <1>1 DEF HInv, CaInv, Rooting
<1>3. gca' \in [step: GcaSteps \cup Ended, root: Keys] /\ gca'.step = "key" /\ gca'.root = gca.root
  BY <1>1 DEF GcaSteps
<1>4. /\ files' \in Files /\ files'.caCert = gca.root
      /\ files'.caKey = files.caKey /\ files'.legacyKey = files.legacyKey
  BY <1>1 DEF Files
<1>5. Numbered'
  BY <1>1, <1>3, SameCommand DEF Ended
<1>6. KeySurvives'
  BY <1>1, <1>4 DEF HInv, CaInv, KeySurvives
<1>7. Rooting' /\ Deriving' /\ CaIsComplete'
  BY <1>1, <1>2, <1>3, <1>4 DEF Rooting, Deriving, CaIsComplete
<1> QED BY <1>1, <1>3, <1>4, <1>5, <1>6, <1>7, CaStep DEF HInv, HostTypeOK, CaInv

LEMMA WriteRootKeyInv == ASSUME HostNetworkAssumption, HInv, WriteRootKey PROVE HInv'
<1>1. /\ gca.step = "key" /\ gca \in [step: GcaSteps \cup Ended, root: Keys] /\ files \in Files
      /\ UNCHANGED <<networkVars, runVars, discarded, issued, beside>> /\ roots' = gca.root
      /\ gca' = [gca EXCEPT !.step = "leaf"] /\ files' = [files EXCEPT !.caKey = gca.root]
  BY DEF WriteRootKey, GcaAt, GcaTo, GcaUnchanged, HInv, HostTypeOK
<1>2. /\ files.legacyKey = NoKey /\ files.caKey = NoKey /\ gca.root = roots + 1
      /\ files.caCert = gca.root
  BY <1>1 DEF HInv, CaInv, Rooting
<1>3. gca' \in [step: GcaSteps \cup Ended, root: Keys] /\ gca'.step = "leaf" /\ gca'.root = gca.root
  BY <1>1 DEF GcaSteps
<1>4. /\ files' \in Files /\ files'.caKey = gca.root
      /\ files'.caCert = files.caCert /\ files'.legacyKey = files.legacyKey
  BY <1>1 DEF Files
<1>5. roots \in Nat /\ issued \in Nat /\ roots <= issued /\ issued # 0 /\ gca.root \in Keys
  BY <1>1, KeyNumbers DEF HInv, CaInv, Numbered, Ended
<1>6. Numbered'
  <2>1. roots' <= issued' + 1 /\ issued' # 0
    BY <1>1, <1>2, <1>5
  <2> QED BY <1>3, <2>1 DEF Numbered
<1>7. KeySurvives'
  <2> SUFFICES ASSUME NEW k \in 1..(roots + 1), k \notin discarded
               PROVE  k \in {files'.caKey, files'.legacyKey}
    BY <1>1, <1>2 DEF KeySurvives
  <2>1. k = roots + 1 \/ k \in 1..roots
    BY <1>5
  <2>2. k \notin 1..roots
    <3>1. k # NoKey
      BY <1>5 DEF NoKey
    <3> QED BY <1>2, <3>1 DEF HInv, CaInv, KeySurvives
  <2> QED BY <1>2, <1>4, <2>1, <2>2
<1>8. Rooting'
  <2>1. gca.root # NoKey
    BY <1>2, <1>5 DEF NoKey
  <2> QED BY <1>2, <1>3, <1>4, <2>1 DEF Rooting
<1>9. Deriving' /\ CaIsComplete'
  BY <1>3 DEF Deriving, CaIsComplete
<1> QED BY <1>1, <1>3, <1>4, <1>5, <1>6, <1>7, <1>8, <1>9, CaStep DEF HInv, HostTypeOK, CaInv

\* Of generate-ca's own pairs and run-hosting's.
LEMMA PairNumbers ==
  ASSUME HostNetworkAssumption, NEW c \in Commands
  PROVE  c \in Pairs /\ MaxCommands + c \in Pairs
BY DEF HostNetworkAssumption, Commands, Pairs

LEMMA WriteLeafCertInv == ASSUME HostNetworkAssumption, HInv, WriteLeafCert PROVE HInv'
<1>1. /\ gca.step = "leaf" /\ gca \in [step: GcaSteps \cup Ended, root: Keys] /\ files \in Files
      /\ UNCHANGED <<roots, networkVars, runVars, discarded, issued, beside>> /\ issued \in Commands
  BY DEF WriteLeafCert, GcaAt, GcaUnchanged, HInv, HostTypeOK
<1>2. issued # 0 /\ gca.root \in Keys
  BY <1>1 DEF HInv, CaInv, Numbered, Ended
<1>3. \/ /\ gca' = [gca EXCEPT !.step = "linux"] /\ files' = files
         /\ files.terminates => LeafValid(gca.root)
      \/ /\ gca' = [gca EXCEPT !.step = "leaf key"]
         /\ files' = [files EXCEPT !.leafCert = [root |-> gca.root, pair |-> issued]]
  BY DEF WriteLeafCert, GcaTo
<1>4. /\ gca' \in [step: GcaSteps \cup Ended, root: Keys] /\ gca'.root = gca.root
      /\ gca'.step \in {"linux", "leaf key"}
  BY <1>1, <1>3 DEF GcaSteps
<1>5. /\ files' \in Files /\ files'.caKey = files.caKey
      /\ files'.caCert = files.caCert /\ files'.legacyKey = files.legacyKey
  <2>1. [root |-> gca.root, pair |-> issued] \in Leaf
    BY <1>1, <1>2, PairNumbers DEF Leaf
  <2> QED BY <1>1, <1>3, <2>1 DEF Files
<1>6. Numbered'
  BY <1>1, <1>4, SameCommand DEF Ended
<1>7. KeySurvives'
  BY <1>1, <1>5 DEF HInv, CaInv, KeySurvives
<1>8. Rooting' /\ CaIsComplete'
  BY <1>1, <1>4, <1>5 DEF HInv, CaInv, Rooting, CaIsComplete
<1>9. Deriving'
  <2>1. CASE gca' = [gca EXCEPT !.step = "linux"] /\ files' = files /\ (files.terminates => LeafValid(gca.root))
    <3>1. gca'.step = "linux"
      BY <1>1, <2>1
    <3> QED BY <1>4, <2>1, <3>1 DEF Deriving, LeafValid
  <2>2. CASE /\ gca' = [gca EXCEPT !.step = "leaf key"]
             /\ files' = [files EXCEPT !.leafCert = [root |-> gca.root, pair |-> issued]]
    <3>1. gca'.step = "leaf key" /\ files'.leafCert = [root |-> gca.root, pair |-> issued]
      BY <1>1, <2>2 DEF Files
    <3>2. files'.leafCert.root = gca.root /\ files'.leafCert.pair = issued
      <4> DEFINE made == files'.leafCert
      <4>1. made = [root |-> gca.root, pair |-> issued]
        BY <3>1
      <4> HIDE DEF made
      <4>2. made.root = gca.root /\ made.pair = issued
        BY <4>1
      <4> QED BY <1>2, <4>2 DEF made
    <3> QED BY <1>1, <1>4, <3>1, <3>2 DEF Deriving, LeafValid
  <2> QED BY <1>3, <2>1, <2>2
<1> QED BY <1>1, <1>4, <1>5, <1>6, <1>7, <1>8, <1>9, CaStep DEF HInv, HostTypeOK, CaInv

LEMMA WriteLeafKeyInv == ASSUME HostNetworkAssumption, HInv, WriteLeafKey PROVE HInv'
<1>1. /\ gca.step = "leaf key" /\ gca \in [step: GcaSteps \cup Ended, root: Keys] /\ files \in Files
      /\ UNCHANGED <<roots, networkVars, runVars, discarded, issued, beside>>
      /\ gca' = [gca EXCEPT !.step = "linux"]
      /\ files' = [files EXCEPT !.leafKey = issued] /\ issued \in Pairs /\ issued # 0
  BY PairNumbers DEF WriteLeafKey, GcaAt, GcaTo, GcaUnchanged, HInv, HostTypeOK, CaInv, Numbered, Ended
<1>2. gca' \in [step: GcaSteps \cup Ended, root: Keys] /\ gca'.root = gca.root /\ gca'.step = "linux"
  BY <1>1 DEF GcaSteps
<1>3. /\ files' \in Files /\ files'.caKey = files.caKey
      /\ files'.caCert = files.caCert /\ files'.legacyKey = files.legacyKey
      /\ files'.leafCert = files.leafCert /\ files'.leafKey = issued
  BY <1>1 DEF Files, Leaf
<1>4. Numbered'
  BY <1>1, <1>2, SameCommand DEF Ended
<1>5. KeySurvives'
  BY <1>1, <1>3 DEF HInv, CaInv, KeySurvives
<1>6. Rooting' /\ CaIsComplete'
  BY <1>1, <1>2, <1>3 DEF HInv, CaInv, Rooting, CaIsComplete
<1>7. Deriving'
  BY <1>1, <1>2, <1>3 DEF HInv, CaInv, Deriving, LeafValid
<1> QED BY <1>1, <1>2, <1>3, <1>4, <1>5, <1>6, <1>7, CaStep DEF HInv, HostTypeOK, CaInv

LEMMA CopyToLinuxInv == ASSUME HInv, CopyToLinux PROVE HInv'
<1>1. /\ gca.step = "linux" /\ gca \in [step: GcaSteps \cup Ended, root: Keys] /\ files \in Files
      /\ UNCHANGED <<roots, networkVars, runVars, discarded, issued, beside>>
      /\ gca' = [gca EXCEPT !.step = "windows"]
      /\ files' = [files EXCEPT !.linux = files.caCert]
  BY DEF CopyToLinux, GcaAt, GcaTo, GcaUnchanged, HInv, HostTypeOK
<1>2. gca' \in [step: GcaSteps \cup Ended, root: Keys] /\ gca'.root = gca.root /\ gca'.step = "windows"
  BY <1>1 DEF GcaSteps
<1>3. /\ files' \in Files /\ files'.caKey = files.caKey /\ files'.terminates = files.terminates
      /\ files'.caCert = files.caCert /\ files'.legacyKey = files.legacyKey
      /\ files'.leafCert = files.leafCert /\ files'.leafKey = files.leafKey
      /\ files'.linux = files.caCert
  BY <1>1 DEF Files
<1>4. Numbered'
  BY <1>1, <1>2, SameCommand DEF Ended
<1>5. KeySurvives'
  BY <1>1, <1>3 DEF HInv, CaInv, KeySurvives
<1>6. Rooting' /\ CaIsComplete'
  BY <1>1, <1>2, <1>3 DEF HInv, CaInv, Rooting, CaIsComplete
<1>7. Deriving'
  BY <1>1, <1>2, <1>3 DEF HInv, CaInv, Deriving, LeafValid
<1> QED BY <1>1, <1>2, <1>3, <1>4, <1>5, <1>6, <1>7, CaStep DEF HInv, HostTypeOK, CaInv

LEMMA CopyToWindowsInv == ASSUME HInv, CopyToWindows PROVE HInv'
<1>1. /\ gca.step = "windows" /\ gca \in [step: GcaSteps \cup Ended, root: Keys] /\ files \in Files
      /\ UNCHANGED <<roots, networkVars, runVars, discarded, issued, beside>>
      /\ gca' = [gca EXCEPT !.step = "ok"]
      /\ files' = [files EXCEPT !.windows = files.caCert]
  BY DEF CopyToWindows, GcaAt, GcaTo, GcaUnchanged, HInv, HostTypeOK
<1>2. gca' \in [step: GcaSteps \cup Ended, root: Keys] /\ gca'.root = gca.root /\ gca'.step = "ok"
  BY <1>1 DEF Ended
<1>3. /\ files' \in Files /\ files'.caKey = files.caKey /\ files'.terminates = files.terminates
      /\ files'.caCert = files.caCert /\ files'.legacyKey = files.legacyKey
      /\ files'.leafCert = files.leafCert /\ files'.leafKey = files.leafKey
      /\ files'.linux = files.linux /\ files'.windows = files.caCert
  BY <1>1 DEF Files
<1>4. Numbered'
  BY <1>1, <1>2, SameCommand DEF Ended
<1>5. KeySurvives'
  BY <1>1, <1>3 DEF HInv, CaInv, KeySurvives
<1>6. Rooting' /\ Deriving'
  BY <1>2 DEF Rooting, Deriving
<1>7. CaIsComplete'
  <2>1. /\ files.caCert # NoKey /\ files.caKey = files.caCert /\ files.legacyKey = NoKey
        /\ files.caCert = gca.root
    BY <1>1 DEF HInv, CaInv, Rooting
  <2>2. files.linux = files.caCert /\ (files.terminates /\ ~beside => LeafValid(gca.root))
    BY <1>1 DEF HInv, CaInv, Deriving
  <2> QED BY <1>1, <1>3, <2>1, <2>2 DEF CaIsComplete, LeafValid
<1> QED BY <1>1, <1>2, <1>3, <1>4, <1>5, <1>6, <1>7, CaStep DEF HInv, HostTypeOK, CaInv

LEMMA GenerateCaCutOffInv == ASSUME HInv, GenerateCaCutOff PROVE HInv'
<1>1. /\ gca.step \notin Ended /\ gca \in [step: GcaSteps \cup Ended, root: Keys]
      /\ UNCHANGED <<files, roots, networkVars, runVars, discarded, issued, beside>>
      /\ gca' = [gca EXCEPT !.step = "cut off"]
  BY DEF GenerateCaCutOff, GcaTo, GcaUnchanged, HInv, HostTypeOK
<1>2. gca' \in [step: GcaSteps \cup Ended, root: Keys] /\ gca'.step = "cut off"
  BY <1>1 DEF Ended
<1>3. Numbered'
  BY <1>1, <1>2, SameCommand
<1>4. KeySurvives'
  BY <1>1 DEF HInv, CaInv, KeySurvives
<1>5. Rooting' /\ Deriving' /\ CaIsComplete'
  BY <1>2 DEF Rooting, Deriving, CaIsComplete
<1> QED BY <1>1, <1>2, <1>3, <1>4, <1>5, CaStep DEF HInv, HostTypeOK, CaInv

LEMMA DiscardInv ==
  ASSUME HostNetworkAssumption, HInv, NEW f \in {"caCert", "caKey", "legacyKey"}, Discard(f)
  PROVE  HInv'
<1>1. /\ gca.step = "error" /\ gca' = gca /\ files \in Files /\ discarded \in SUBSET Keys
      /\ UNCHANGED <<roots, networkVars, runVars, issued, beside>>
  BY DEF Discard, HInv, HostTypeOK
<1>2. NoKey \in Keys
  BY DEF Keys, NoKey, HostNetworkAssumption
<1>3. /\ files' \in Files /\ discarded' \in SUBSET Keys /\ discarded \subseteq discarded'
      /\ \A k \in {files.caKey, files.legacyKey} \ discarded' : k \in {files'.caKey, files'.legacyKey}
  <2>1. CASE f = "caCert"
    <3>1. files' = [files EXCEPT !.caCert = NoKey] /\ discarded' = discarded
      BY <2>1 DEF Discard
    <3> QED BY <1>1, <1>2, <3>1 DEF Files
  <2>2. CASE f = "caKey"
    <3>1. /\ files' = [files EXCEPT !.caKey = NoKey]
          /\ \/ discarded' = discarded \cup {files.caKey}
             \/ discarded' = discarded /\ files.caKey \in {files'.caKey, files'.legacyKey}
      BY <2>2 DEF Discard
    <3> QED BY <1>1, <1>2, <3>1 DEF Files
  <2>3. CASE f = "legacyKey"
    <3>1. /\ files' = [files EXCEPT !.legacyKey = NoKey]
          /\ \/ discarded' = discarded \cup {files.legacyKey}
             \/ discarded' = discarded /\ files.legacyKey \in {files'.caKey, files'.legacyKey}
      BY <2>3 DEF Discard
    <3> QED BY <1>1, <1>2, <3>1 DEF Files
  <2> QED BY <2>1, <2>2, <2>3
<1>4. Numbered' /\ Rooting' /\ Deriving' /\ CaIsComplete'
  BY <1>1 DEF HInv, CaInv, Numbered, Rooting, Deriving, CaIsComplete, Ended
<1>5. KeySurvives'
  BY <1>1, <1>3 DEF HInv, CaInv, KeySurvives
<1> QED BY <1>1, <1>3, <1>4, <1>5, CaStep DEF HInv, HostTypeOK, CaInv

LEMMA GenerateCaInv == ASSUME HostNetworkAssumption, HInv, GenerateCa PROVE HInv'
BY StartGenerateCaInv, LegacyKeyInv, UnlinkLegacyInv, CheckRootInv, WriteRootCertInv,
   WriteRootKeyInv, WriteLeafCertInv, WriteLeafKeyInv, CopyToLinuxInv, CopyToWindowsInv,
   GenerateCaCutOffInv, DiscardInv DEF GenerateCa

-----------------------------------------------------------------------------
\* run-hosting.

Bounds == {<<>>, <<"gateway">>, <<"gateway", "dns">>, <<"gateway", "dns", "dhcp">>}

\* What a step of run-hosting has to keep for the rest of the invariant to hold.
LEMMA RunStep ==
  ASSUME HInv, UNCHANGED <<networkVars, caVars>>, RunInv',
         hosting' \in Hosting, bound' \in Bounds, starts' \in Commands
  PROVE  HInv'
<1>1. NetworkInv'
  BY StutterNetworkInv DEF HInv
<1>2. CaInv'
  BY StutterCa DEF HInv
<1>3. HostTypeOK'
  BY <1>1 DEF HInv, HostTypeOK, NetworkInv, caVars, Bounds
<1> QED BY <1>1, <1>2, <1>3 DEF HInv

LEMMA RunTypes == HInv => hosting \in Hosting /\ bound \in Bounds /\ starts \in Commands
BY DEF HInv, HostTypeOK, Bounds

\* The alert of a process, and what stays of it otherwise.
LEMMA TriggerOnce ==
  ASSUME NEW h \in Hosting, h.own \in {0, 1}
  PROVE  Trigger(h) = [h EXCEPT !.own = 1]
<1>1. CASE h.own = 0
  BY <1>1 DEF Trigger
<1>2. CASE h.own = 1
  <2>1. h = [h EXCEPT !.own = 1]
    BY <1>2 DEF Hosting
  <2> QED BY <1>2, <2>1 DEF Trigger
<1> QED BY <1>1, <1>2

LEMMA Speaking ==
  ASSUME NEW h \in Hosting, h.own \in {0, 1}
  PROVE  /\ Trigger(h) \in Hosting /\ Trigger(h).own = 1
         /\ Trigger(h).parent = h.parent /\ Trigger(h).end = h.end
<1>1. Trigger(h) = [h EXCEPT !.own = 1]
  BY TriggerOnce
<1>2. 1 \in 0..2
  OBVIOUS
<1> QED BY <1>1, <1>2 DEF Hosting

\* A process that has not ended: its parent has not spoken either.
LEMMA NotYet ==
  ASSUME HInv, hosting.phase # "ended"
  PROVE  hosting \in Hosting /\ hosting.own \in {0, 1} /\ hosting.parent \in {"none", "waits"}
BY RunTypes DEF HInv, RunInv, Said, Hosting, Parents

\* The command returns, in a process that has not spoken.
LEMMA Returning ==
  ASSUME HInv, NEW code \in 0..2, NEW end \in {"none", "usage"}, Return(code, end),
         hosting.phase \in {"check", "close"}, bound' = <<>>
  PROVE  hosting' \in Hosting /\ bound' \in Bounds /\ RunInv'
<1>1. hosting \in Hosting /\ hosting.own = 0 /\ hosting.parent \in {"none", "waits"}
  BY NotYet DEF HInv, RunInv, Said
<1>2. PICK h \in Hosting :
        /\ h.own = (IF code = 1 /\ end # "usage" THEN 1 ELSE 0)
        /\ h.parent \in {"none", "waits"}
        /\ hosting' = [h EXCEPT !.phase = "leave", !.code = code, !.end = end]
  <2> DEFINE g == IF code = 1 /\ end # "usage" THEN Trigger(hosting) ELSE hosting
  <2>1. /\ g \in Hosting /\ g.own = (IF code = 1 /\ end # "usage" THEN 1 ELSE 0)
        /\ g.parent \in {"none", "waits"}
    BY <1>1, Speaking
  <2>2. hosting' = [g EXCEPT !.phase = "leave", !.code = code, !.end = end]
    BY DEF Return
  <2> QED BY <2>1, <2>2
<1>3. /\ hosting' \in Hosting /\ hosting'.phase = "leave" /\ hosting'.code = code
      /\ hosting'.end = end /\ hosting'.own = h.own /\ hosting'.parent = h.parent
  BY <1>2 DEF Hosting, Phases, Ends
<1>4. Said'
  BY <1>2, <1>3 DEF Said
<1>5. Binding'
  BY <1>3 DEF Binding
<1> QED BY <1>3, <1>4, <1>5 DEF RunInv, Bounds

\* A process is gone, and has spoken if an exception ended it.
LEMMA Going ==
  ASSUME HInv, NEW h \in Hosting, h.own \in {0, 1}, h.parent \in {"none", "waits"},
         NEW end \in {"returned", "interrupted", "signal", "lost"}, Dies(h, end),
         end = "returned" => h.own = 1, end = "signal" => h.parent = "waits",
         UNCHANGED <<networkVars, caVars, starts>>
  PROVE  HInv'
<1>1. /\ hosting' = [h EXCEPT !.phase = "ended", !.end = end, !.code = 1]
      /\ bound' = <<>>
  BY DEF Dies
<1>2. /\ hosting' \in Hosting /\ hosting'.phase = "ended" /\ hosting'.end = end
      /\ hosting'.code = 1 /\ hosting'.own = h.own /\ hosting'.parent = h.parent
  <2>1. 1 \in 0..2
    OBVIOUS
  <2> QED BY <1>1, <2>1 DEF Hosting, Phases, Ends
<1>3. Said'
  BY <1>2 DEF Said
<1>4. Binding'
  BY <1>1 DEF Binding
<1> QED BY <1>1, <1>2, <1>3, <1>4, RunTypes, RunStep DEF RunInv, Bounds

LEMMA StartRunHostingInv == ASSUME HostNetworkAssumption, HInv, StartRunHosting PROVE HInv'
<1>1. PICK forward \in BOOLEAN :
        hosting' = [phase |-> IF forward THEN "relaunch" ELSE "check",
                    parent |-> IF forward THEN "waits" ELSE "none", forward |-> forward,
                    listen |-> None, leaf |-> "none", code |-> 0, own |-> 0, end |-> "none"]
  BY DEF StartRunHosting
<1>2. UNCHANGED <<networkVars, caVars, bound>> /\ starts' = starts + 1 /\ hosting.phase = "ended"
  BY DEF StartRunHosting, In
<1>3. starts' \in Commands
  BY <1>2, MayGoOn DEF StartRunHosting, HInv
<1>4. /\ hosting' \in Hosting /\ hosting'.phase \in {"relaunch", "check"}
      /\ hosting'.own = 0 /\ hosting'.parent # "spoke" /\ hosting'.end = "none"
  BY <1>1 DEF Hosting, Phases, Parents, Ends
<1>5. bound = <<>>
  BY <1>2 DEF HInv, RunInv, Binding
<1>6. RunInv'
  BY <1>2, <1>4, <1>5 DEF RunInv, Binding, Said
<1> QED BY <1>2, <1>3, <1>4, <1>5, <1>6, RunStep DEF Bounds

LEMMA RelaunchInv == ASSUME HInv, Relaunch PROVE HInv'
<1>1. /\ hosting.phase = "relaunch" /\ UNCHANGED <<bound, networkVars, caVars, starts>>
      /\ hosting \in Hosting /\ bound = <<>> /\ starts \in Commands
      /\ hosting.own = 0 /\ hosting.parent \in {"none", "waits"} /\ hosting.end = "none"
  BY RunTypes, NotYet DEF Relaunch, In, RunUnchanged, HInv, RunInv, Binding, Said
<1>2. CASE hosting' = [hosting EXCEPT !.phase = "check"]
  <2>1. /\ hosting' \in Hosting /\ hosting'.phase = "check"
        /\ hosting'.own = 0 /\ hosting'.parent = hosting.parent /\ hosting'.end = "none"
    BY <1>1, <1>2 DEF Hosting, Phases
  <2>2. RunInv'
    BY <1>1, <2>1 DEF RunInv, Binding, Said
  <2> QED BY <1>1, <2>1, <2>2, RunStep DEF Bounds
<1>3. CASE hosting' = [Trigger(hosting) EXCEPT !.phase = "leave", !.code = 1, !.parent = "none"]
  <2>1. Trigger(hosting) \in Hosting /\ Trigger(hosting).own = 1 /\ Trigger(hosting).end = "none"
    BY <1>1, Speaking
  <2>2. /\ hosting' \in Hosting /\ hosting'.phase = "leave" /\ hosting'.code = 1
        /\ hosting'.own = 1 /\ hosting'.parent = "none" /\ hosting'.end = "none"
    <3>1. 1 \in 0..2
      OBVIOUS
    <3> QED BY <1>3, <2>1, <3>1 DEF Hosting, Phases, Parents
  <2>3. RunInv'
    BY <1>1, <2>2 DEF RunInv, Binding, Said
  <2> QED BY <1>1, <2>2, <2>3, RunStep DEF Bounds
<1> QED BY <1>2, <1>3 DEF Relaunch

LEMMA RefuseInv == ASSUME HInv, Refuse PROVE HInv'
<1>1. /\ hosting.phase = "check" /\ UNCHANGED <<bound, networkVars, caVars, starts>>
      /\ bound = <<>> /\ starts \in Commands
  BY RunTypes DEF Refuse, In, RunUnchanged, HInv, RunInv, Binding
<1>2. 1 \in 0..2 /\ \E end \in {"none", "usage"} : Return(1, end)
  BY DEF Refuse
<1>3. hosting' \in Hosting /\ bound' \in Bounds /\ RunInv'
  BY <1>1, <1>2, Returning
<1> QED BY <1>1, <1>3, RunStep

LEMMA ResolveInv == ASSUME HInv, Resolve PROVE HInv'
<1>1. /\ hosting.phase = "check" /\ UNCHANGED <<bound, networkVars, caVars, starts>>
      /\ hosting \in Hosting /\ bound = <<>> /\ starts \in Commands
      /\ hosting.own = 0 /\ hosting.parent # "spoke" /\ hosting.end = "none"
  BY RunTypes DEF Resolve, In, RunUnchanged, HInv, RunInv, Binding, Said, Hosting
<1>2. address \in Subnets \cup {None}
  BY DEF HInv, NetworkInv, NetworkTypeOK
<1>3. /\ hosting' \in Hosting /\ hosting'.phase = "start"
      /\ hosting'.own = 0 /\ hosting'.parent # "spoke" /\ hosting'.end = "none"
  BY <1>1, <1>2 DEF Resolve, Hosting, Phases
<1>4. Binding'
  BY <1>1 DEF Binding
<1>5. Said'
  BY <1>3 DEF Said
<1> QED BY <1>1, <1>3, <1>4, <1>5, RunStep DEF RunInv, Bounds

\* Three services and fewer: what comes first in a sequence of them.
LEMMA Prefix ==
  ASSUME NEW S, NEW s \in Seq(S), NEW p \in Seq(S), Len(p) <= Len(s),
         \A i \in 1..Len(p) : s[i] = p[i]
  PROVE  SubSeq(s, 1, Len(p)) = p
<1> DEFINE q == SubSeq(s, 1, Len(p))
<1>1. Len(s) \in Nat /\ Len(p) \in Nat
  OBVIOUS
<1>2. q \in Seq(S) /\ Len(q) = Len(p)
  BY <1>1
<1>3. \A i \in 1..Len(p) : q[i] = s[i]
  BY <1>1
<1> HIDE DEF q
<1>4. q = p
  BY <1>2, <1>3, SeqEqual
<1> QED BY <1>4 DEF q

LEMMA Prefixes ==
  ASSUME NEW a, NEW b, NEW c
  PROVE  /\ SubSeq(<<a>>, 1, 1) = <<a>> /\ SubSeq(<<a, b>>, 1, 1) = <<a>>
         /\ SubSeq(<<a, b, c>>, 1, 1) = <<a>> /\ SubSeq(<<a, b, c>>, 1, 2) = <<a, b>>
         /\ SubSeq(<<a, b, c>>, 1, 3) = <<a, b, c>>
<1> DEFINE one == <<a>>
           two == <<a, b>>
           three == <<a, b, c>>
           S == {a, b, c}
<1>1. one \in Seq(S) /\ Len(one) = 1 /\ one[1] = a
  OBVIOUS
<1>2. two \in Seq(S) /\ Len(two) = 2 /\ two[1] = a /\ two[2] = b
  OBVIOUS
<1>3. three \in Seq(S) /\ Len(three) = 3 /\ three[1] = a /\ three[2] = b
  OBVIOUS
<1>4. (\A i \in 1..1 : i = 1) /\ (\A i \in 1..2 : i = 1 \/ i = 2)
  OBVIOUS
<1> HIDE DEF one, two, three, S
<1>5. SubSeq(one, 1, 1) = one /\ SubSeq(two, 1, 1) = one /\ SubSeq(three, 1, 1) = one
  BY <1>1, <1>2, <1>3, <1>4, Prefix
<1>6. SubSeq(three, 1, 2) = two
  BY <1>2, <1>3, <1>4, Prefix
<1>7. SubSeq(three, 1, 3) = three
  BY <1>3, Prefix
<1> QED BY <1>5, <1>6, <1>7 DEF one, two, three

\* Services are added in their order, and closed in the reverse one.
LEMMA OneMoreService ==
  ASSUME bound = <<>> \/ (hosting.forward /\ bound \in {<<"gateway">>, <<"gateway", "dns">>}),
         hosting.forward \in BOOLEAN
  PROVE  LET next == SubSeq(Wanted, 1, Len(bound) + 1) IN
         /\ next \in Bounds
         /\ next # Wanted => hosting.forward /\ next \in {<<"gateway">>, <<"gateway", "dns">>}
<1>1. CASE bound = <<>>
  <2>1. Len(bound) + 1 = 1
    BY <1>1
  <2>2. SubSeq(Wanted, 1, 1) = <<"gateway">>
    BY Prefixes DEF Wanted
  <2>3. ~hosting.forward => Wanted = <<"gateway">>
    BY DEF Wanted
  <2> QED BY <2>1, <2>2, <2>3 DEF Bounds
<1>2. CASE hosting.forward /\ bound = <<"gateway">>
  <2>1. Len(bound) + 1 = 2
    BY <1>2
  <2>2. SubSeq(Wanted, 1, 2) = <<"gateway", "dns">>
    BY <1>2, Prefixes DEF Wanted
  <2> QED BY <1>2, <2>1, <2>2 DEF Bounds
<1>3. CASE hosting.forward /\ bound = <<"gateway", "dns">>
  <2>1. Len(bound) + 1 = 3
    BY <1>3
  <2>2. SubSeq(Wanted, 1, 3) = <<"gateway", "dns", "dhcp">> /\ Wanted = <<"gateway", "dns", "dhcp">>
    BY <1>3, Prefixes DEF Wanted
  <2> QED BY <2>1, <2>2 DEF Bounds
<1> QED BY <1>1, <1>2, <1>3

LEMMA OneServiceLess ==
  ASSUME bound \in Bounds, bound # <<>>
  PROVE  SubSeq(bound, 1, Len(bound) - 1) \in Bounds
<1>1. CASE bound = <<"gateway">>
  <2>1. SubSeq(bound, 1, Len(bound) - 1) = <<>>
    BY <1>1
  <2> QED BY <2>1 DEF Bounds
<1>2. CASE bound = <<"gateway", "dns">>
  <2>1. Len(bound) - 1 = 1
    BY <1>2
  <2>2. SubSeq(bound, 1, Len(bound) - 1) = <<"gateway">>
    BY <1>2, <2>1, Prefixes
  <2> QED BY <2>2 DEF Bounds
<1>3. CASE bound = <<"gateway", "dns", "dhcp">>
  <2>1. Len(bound) - 1 = 2
    BY <1>3
  <2>2. SubSeq(bound, 1, Len(bound) - 1) = <<"gateway", "dns">>
    BY <1>3, <2>1, Prefixes
  <2> QED BY <2>2 DEF Bounds
<1> QED BY <1>1, <1>2, <1>3 DEF Bounds

LEMMA AddServiceInv == ASSUME HInv, AddService PROVE HInv'
<1>1. /\ hosting.phase = "start" /\ UNCHANGED <<networkVars, caVars, starts>>
      /\ hosting \in Hosting /\ starts \in Commands /\ hosting.own = 0 /\ hosting.parent # "spoke" /\ hosting.end = "none"
      /\ bound' = SubSeq(Wanted, 1, Len(bound) + 1)
      /\ hosting' = [hosting EXCEPT !.phase = IF bound' = Wanted THEN "serve" ELSE "start"]
  BY RunTypes DEF AddService, In, RunUnchanged, HInv, RunInv, Said, Hosting
<1>2. /\ bound' \in Bounds
      /\ bound' # Wanted => hosting.forward /\ bound' \in {<<"gateway">>, <<"gateway", "dns">>}
  <2>1. bound = <<>> \/ (hosting.forward /\ bound \in {<<"gateway">>, <<"gateway", "dns">>})
    BY <1>1 DEF HInv, RunInv, Binding
  <2>2. hosting.forward \in BOOLEAN
    BY <1>1 DEF Hosting
  <2> QED BY <1>1, <2>1, <2>2, OneMoreService
<1>3. /\ hosting' \in Hosting /\ hosting'.own = 0 /\ hosting'.parent # "spoke" /\ hosting'.end = "none"
      /\ hosting'.forward = hosting.forward
      /\ hosting'.phase = IF bound' = Wanted THEN "serve" ELSE "start"
  BY <1>1 DEF Hosting, Phases
<1>4. RunInv'
  <2>1. Said'
    BY <1>3 DEF Said
  <2>2. Binding'
    BY <1>2, <1>3 DEF Binding
  <2> QED BY <2>1, <2>2 DEF RunInv
<1> QED BY <1>1, <1>2, <1>3, <1>4, RunStep

LEMMA ClosingInv == ASSUME HInv, AddFails \/ LoopEnds PROVE HInv'
<1>1. /\ hosting.phase \in {"start", "serve"} /\ UNCHANGED <<bound, networkVars, caVars, starts>>
      /\ hosting \in Hosting /\ bound \in Bounds /\ starts \in Commands
      /\ hosting.own = 0 /\ hosting.parent # "spoke" /\ hosting.end = "none"
  BY RunTypes DEF AddFails, LoopEnds, In, RunUnchanged, HInv, RunInv, Said, Hosting
<1>2. /\ hosting' \in Hosting /\ hosting'.phase = "close"
      /\ hosting'.own = 0 /\ hosting'.parent # "spoke" /\ hosting'.end = "none"
  <2>0. 1 \in 0..2 /\ 2 \in 0..2
    OBVIOUS
  <2>1. CASE hosting' = [hosting EXCEPT !.phase = "close", !.code = 1]
    BY <1>1, <2>0, <2>1 DEF Hosting, Phases
  <2>2. CASE hosting' = [hosting EXCEPT !.phase = "close"]
    BY <1>1, <2>2 DEF Hosting, Phases
  <2>3. CASE hosting' = [hosting EXCEPT !.phase = "close", !.code = 2]
    BY <1>1, <2>0, <2>3 DEF Hosting, Phases
  <2> QED BY <2>1, <2>2, <2>3 DEF AddFails, LoopEnds
<1>3. RunInv'
  BY <1>2 DEF RunInv, Binding, Said
<1> QED BY <1>1, <1>2, <1>3, RunStep

LEMMA CloseServiceInv == ASSUME HInv, CloseService PROVE HInv'
<1>1. /\ hosting.phase = "close" /\ UNCHANGED <<hosting, networkVars, caVars, starts>>
      /\ hosting \in Hosting /\ bound \in Bounds /\ starts \in Commands
      /\ bound # <<>> /\ bound' = SubSeq(bound, 1, Len(bound) - 1)
  BY RunTypes DEF CloseService, In, RunUnchanged
<1>2. bound' \in Bounds
  BY <1>1, OneServiceLess
<1>3. RunInv'
  BY <1>1 DEF HInv, RunInv, Binding, Said
<1> QED BY <1>1, <1>2, <1>3, RunStep

LEMMA ClosedInv == ASSUME HInv, Closed PROVE HInv'
<1>1. /\ hosting.phase = "close" /\ UNCHANGED <<bound, networkVars, caVars, starts>>
      /\ hosting.code \in 0..2 /\ bound = <<>> /\ starts \in Commands
  BY RunTypes DEF Closed, In, RunUnchanged, HInv, Hosting
<1>2. Return(hosting.code, "none")
  BY DEF Closed
<1>3. hosting' \in Hosting /\ bound' \in Bounds /\ RunInv'
  BY <1>1, <1>2, Returning
<1> QED BY <1>1, <1>3, RunStep

LEMMA ExitInv == ASSUME HInv, Exit PROVE HInv'
<1>1. /\ hosting.phase = "leave" /\ UNCHANGED <<bound, networkVars, caVars, starts>>
      /\ hosting \in Hosting /\ bound = <<>> /\ starts \in Commands /\ hosting.code # 2
      /\ hosting.own \in {0, 1} /\ hosting.parent # "spoke"
      /\ hosting.end = "usage" \/ (hosting.end = "none" /\ (hosting.own = 1 <=> hosting.code = 1))
  BY RunTypes DEF Exit, In, RunUnchanged, HInv, RunInv, Binding, Said
<1>2. PICK end \in Ends :
        /\ hosting.end = "usage" => end = "usage"
        /\ hosting.end = "none" => end = "returned"
        /\ hosting' = [hosting EXCEPT !.phase = "ended", !.end = end]
  <2>1. CASE hosting.end = "usage"
    BY <2>1 DEF Exit, Ends
  <2>2. CASE hosting.end = "none"
    BY <2>2 DEF Exit, Ends
  <2> QED BY <1>1, <2>1, <2>2
<1>3. /\ hosting' \in Hosting /\ hosting'.phase = "ended" /\ hosting'.end = end
      /\ hosting'.own = hosting.own /\ hosting'.code = hosting.code
      /\ hosting'.parent = hosting.parent
  BY <1>1, <1>2 DEF Hosting, Phases
<1>4. Said'
  BY <1>1, <1>2, <1>3 DEF Said
<1>5. Binding'
  BY <1>1 DEF Binding
<1> QED BY <1>1, <1>3, <1>4, <1>5, RunStep DEF RunInv, Bounds

LEMMA Lonely ==
  ASSUME NEW h \in Hosting, h.parent \in {"none", "waits"}
  PROVE  Alone(h) \in Hosting /\ Alone(h).own = h.own /\ Alone(h).parent \in {"none", "waits"}
BY DEF Alone, Hosting, Parents

LEMMA UncaughtExceptionInv == ASSUME HInv, UncaughtException PROVE HInv'
<1> DEFINE h == Alone(hosting)
<1>1. /\ hosting \in Hosting /\ hosting.own \in {0, 1} /\ hosting.parent \in {"none", "waits"}
      /\ Dies(Trigger(h), "returned") /\ UNCHANGED <<networkVars, caVars, starts>>
  BY NotYet DEF UncaughtException, In, RunUnchanged
<1>2. h \in Hosting /\ h.own \in {0, 1} /\ h.parent \in {"none", "waits"}
  BY <1>1, Lonely
<1> HIDE DEF h
<1>3. Trigger(h) \in Hosting /\ Trigger(h).own = 1 /\ Trigger(h).parent \in {"none", "waits"}
  BY <1>2, Speaking
<1> QED BY <1>1, <1>3, Going

LEMMA InterruptedEarlyInv == ASSUME HInv, InterruptedEarly PROVE HInv'
<1> DEFINE h == Alone(hosting)
<1>1. /\ hosting \in Hosting /\ hosting.own \in {0, 1} /\ hosting.parent \in {"none", "waits"}
      /\ Dies(h, "interrupted") /\ UNCHANGED <<networkVars, caVars, starts>>
  BY NotYet DEF InterruptedEarly, RunUnchanged
<1>2. h \in Hosting /\ h.own \in {0, 1} /\ h.parent \in {"none", "waits"}
  BY <1>1, Lonely
<1> HIDE DEF h
<1> QED BY <1>1, <1>2, Going

LEMMA LostInv == ASSUME HInv, Lost PROVE HInv'
<1>1. /\ hosting \in Hosting /\ hosting.own \in {0, 1} /\ hosting.parent \in {"none", "waits"}
      /\ UNCHANGED <<networkVars, caVars, starts>>
  BY NotYet DEF Lost, RunUnchanged
<1>2. CASE hosting.parent = "waits" /\ Dies(hosting, "signal")
  BY <1>1, <1>2, Going
<1>3. CASE Dies(hosting, "lost")
  BY <1>1, <1>3, Going
<1> QED BY <1>2, <1>3 DEF Lost

LEMMA ParentReturnsInv == ASSUME HInv, ParentReturns PROVE HInv'
<1>1. /\ hosting.phase = "ended" /\ UNCHANGED <<bound, networkVars, caVars, starts>>
      /\ hosting \in Hosting /\ bound = <<>> /\ starts \in Commands
      /\ hosting' = [hosting EXCEPT !.parent = IF hosting.end = "signal" THEN "spoke" ELSE "none"]
  BY RunTypes DEF ParentReturns, In, RunUnchanged, HInv, RunInv, Binding
<1>2. /\ hosting' \in Hosting /\ hosting'.phase = "ended" /\ hosting'.end = hosting.end
      /\ hosting'.own = hosting.own /\ hosting'.code = hosting.code
      /\ hosting'.parent = (IF hosting.end = "signal" THEN "spoke" ELSE "none")
  BY <1>1 DEF Hosting, Parents
<1>3. RunInv'
  BY <1>1, <1>2 DEF HInv, RunInv, Binding, Said
<1> QED BY <1>1, <1>2, <1>3, RunStep DEF Bounds

\* The leaf's files, written beside generate-ca: nothing is said of them from then on.
LEMMA LeafBesideInv ==
  ASSUME HostNetworkAssumption, HInv, LeafCertBeside \/ LeafKeyBeside
  PROVE  HInv'
<1>1. /\ hosting.phase = "serve" /\ UNCHANGED <<networkVars, roots, discarded, issued, gca, bound, starts>>
      /\ hosting \in Hosting /\ bound \in Bounds /\ starts \in Commands /\ files \in Files
      /\ hosting.own = 0 /\ hosting.parent # "spoke" /\ hosting.end = "none"
      /\ beside' = TRUE
  BY RunTypes DEF LeafCertBeside, LeafKeyBeside, In, HInv, HostTypeOK, RunInv, Said, Hosting
<1>2. /\ hosting' \in Hosting /\ hosting'.phase = "serve"
      /\ hosting'.own = 0 /\ hosting'.parent # "spoke" /\ hosting'.end = "none"
  BY <1>1 DEF LeafCertBeside, LeafKeyBeside, Hosting
<1>3. /\ files' \in Files /\ files'.caKey = files.caKey /\ files'.legacyKey = files.legacyKey
      /\ files'.caCert = files.caCert /\ files'.terminates = files.terminates
      /\ files'.linux = files.linux /\ files'.windows = files.windows
  <2>1. MaxCommands + starts \in Pairs
    BY <1>1, PairNumbers
  <2>2. [root |-> files.caKey, pair |-> MaxCommands + starts] \in Leaf
    BY <1>1, <2>1 DEF Files, Leaf
  <2>3. CASE LeafCertBeside
    BY <1>1, <2>2, <2>3 DEF LeafCertBeside, Files
  <2>4. CASE LeafKeyBeside
    BY <1>1, <2>1, <2>4 DEF LeafKeyBeside, Files
  <2> QED BY <2>3, <2>4
<1>4. CaInv'
  <2>1. Numbered' /\ KeySurvives'
    BY <1>1, <1>3 DEF HInv, CaInv, Numbered, KeySurvives
  <2>2. Rooting'
    BY <1>1, <1>3 DEF HInv, CaInv, Rooting
  <2>3. Deriving' /\ CaIsComplete'
    BY <1>1, <1>3 DEF HInv, CaInv, Deriving, CaIsComplete
  <2> QED BY <2>1, <2>2, <2>3 DEF CaInv
<1>5. RunInv'
  BY <1>2 DEF RunInv, Binding, Said
<1>6. NetworkInv'
  BY <1>1, StutterNetworkInv DEF HInv
<1>7. HostTypeOK'
  BY <1>1, <1>2, <1>3, <1>6 DEF HInv, HostTypeOK, NetworkInv, Bounds
<1> QED BY <1>4, <1>5, <1>6, <1>7 DEF HInv

LEMMA RunHostingInv == ASSUME HostNetworkAssumption, HInv, RunHosting PROVE HInv'
BY StartRunHostingInv, RelaunchInv, RefuseInv, ResolveInv, AddServiceInv, LeafBesideInv,
   ClosingInv, CloseServiceInv, ClosedInv, ExitInv, UncaughtExceptionInv, InterruptedEarlyInv,
   LostInv, ParentReturnsInv DEF RunHosting

\* Who has spoken, counted.
LEMMA SaidOnce == ASSUME hosting \in Hosting, Said PROVE SpeaksOnce
<1> DEFINE parents == IF hosting.parent = "spoke" THEN 1 ELSE 0
<1>1. hosting.own \in {0, 1} /\ parents \in {0, 1} /\ hosting.code \in 0..2
  BY DEF Said, Hosting
<1>2. parents = 1 => hosting.phase = "ended" /\ hosting.end = "signal"
  BY DEF Said
<1>3. ASSUME hosting.phase = "ended", hosting.parent # "waits", hosting.end = "returned"
      PROVE  parents = 0 /\ hosting.code # 2 /\ (hosting.own = 1 <=> hosting.code = 1)
  BY <1>3 DEF Said
<1>4. ASSUME hosting.phase = "ended", hosting.parent # "waits", hosting.end = "signal"
      PROVE  parents = 1 /\ hosting.code = 1
  BY <1>4 DEF Said
<1>5. Alerts = hosting.own + parents
  BY DEF Alerts
<1> HIDE DEF parents
<1>6. Alerts <= IF hosting.end = "signal" THEN 2 ELSE 1
  BY <1>1, <1>2, <1>5
<1>7. ASSUME hosting.phase = "ended", hosting.parent # "waits",
             hosting.end \in {"returned", "signal"}
      PROVE  Alerts > 0 <=> hosting.code # 0
  BY <1>1, <1>3, <1>4, <1>5, <1>7
<1> QED BY <1>6, <1>7 DEF SpeaksOnce, In

-----------------------------------------------------------------------------
LEMMA AlwaysHInv == HostSpec => []HInv
<1>1. HostInit => HInv
  BY InitHInv, HostNetworkAssumption
<1>2. HInv /\ [HostNext]_hostVars => HInv'
  <2> SUFFICES ASSUME HInv, [HostNext]_hostVars PROVE HInv'
    OBVIOUS
  <2>1. CASE HostNext
    BY <2>1, NetworkCommandInv, GenerateCaInv, RunHostingInv, HostNetworkAssumption DEF HostNext
  <2>2. CASE UNCHANGED hostVars
    <3>1. UNCHANGED <<networkVars, caVars, runVars>>
      BY <2>2 DEF hostVars
    <3>2. UNCHANGED <<hosting, bound, starts>>
      BY <3>1 DEF runVars
    <3>3. RunInv'
      BY <3>2, StutterRun DEF HInv
    <3> QED BY <3>1, <3>2, <3>3, RunTypes, RunStep
  <2> QED BY <2>1, <2>2
<1> QED BY <1>1, <1>2, PTL DEF HostSpec

\* Files, keys, rules, services and exit codes have their types.
THEOREM HostTypes == HostSpec => []HostTypeOK
<1>1. HInv => HostTypeOK
  BY DEF HInv
<1> QED BY <1>1, AlwaysHInv, PTL

\* A create that succeeds leaves exactly the rules of its switch (createHostNetwork.ts).
THEOREM OneSetOfRules == HostSpec => []CreateIsExact
<1>1. HInv => CreateIsExact
  BY ExactlyTheRules, HostNetworkAssumption DEF HInv
<1> QED BY <1>1, AlwaysHInv, PTL

\* A delete that succeeds leaves nothing but rules of adapters that were already gone.
THEOREM NothingButOrphans == HostSpec => []DeleteLeavesOrphans
<1>1. HInv => DeleteLeavesOrphans
  BY OnlyOrphansStay DEF HInv
<1> QED BY <1>1, AlwaysHInv, PTL

\* No run of generate-ca loses a root key, wherever it ends (generateCa.ts).
THEOREM NoKeyIsLost == HostSpec => []KeySurvives
<1>1. HInv => KeySurvives
  BY DEF HInv, CaInv
<1> QED BY <1>1, AlwaysHInv, PTL

\* A generate-ca that succeeds leaves a root, copies and a leaf that fit together; the leaf
\* unless a run-hosting has written to it meanwhile.
THEOREM CertificatesFit == HostSpec => []CaIsComplete
<1>1. HInv => CaIsComplete
  BY DEF HInv, CaInv
<1> QED BY <1>1, AlwaysHInv, PTL

\* An error ends with one alert, a success with none, over the process and its parent; a second
\* one is raised for a child that is killed after its own at most (docs/adr/0019).
THEOREM OneAlert == HostSpec => []SpeaksOnce
<1>1. HInv => SpeaksOnce
  BY RunTypes, SaidOnce DEF HInv, RunInv
<1> QED BY <1>1, AlwaysHInv, PTL

-----------------------------------------------------------------------------
(***************************************************************************)
(* update-shares, for any number of folders, process ids and updates.      *)
(***************************************************************************)

\* What a folder held is in its backup, if it was moved aside; else there was nothing.
Saved(f) == IF f \in update.had THEN backup[f][Own] = update.before[f] ELSE update.before[f] = Gone

\* Somewhere else than where this update works there is a whole folder still.
Kept ==
  ~update.again =>
    \A f \in 1..Folders :
      Whole(update.before[f]) \/ \E p \in Pids : p # Own /\ Whole(backup[f][p])

\* Whatever the step, and when the update is over: a folder is new, as it was, or saved.
Sound == \A f \in 1..Folders : live[f] = New \/ live[f] = update.before[f] \/ Saved(f)

AllNew == \A f \in 1..Folders : live[f] = New
AsBefore(f) == live[f] = update.before[f]
MovedIn(f) == live[f] = New /\ Saved(f)

\* The folders before the one being worked at, that one, and those after it, step by step.
Forward ==
  /\ Swap("stage") => update.had = {} /\ \A f \in 1..Folders : AsBefore(f)
  /\ Swap("clear") \/ Swap("aside") =>
       \A f \in 1..Folders : IF f < update.at THEN MovedIn(f) ELSE AsBefore(f) /\ f \notin update.had
  /\ Swap("move") =>
       \A f \in 1..Folders :
         /\ f < update.at => MovedIn(f)
         /\ f = update.at => Saved(f)
         /\ f > update.at => AsBefore(f) /\ f \notin update.had
  /\ Swap("drop") => AllNew

Backward ==
  /\ Swap("undo") \/ Swap("restore") =>
       /\ update.at <= update.swapped
       /\ \A f \in 1..Folders :
            IF f < update.at \/ f > update.swapped THEN AsBefore(f) ELSE Saved(f)
  /\ Swap("restore") => update.at \in update.had

SwapInv == SwapTypeOK /\ Kept /\ Sound /\ Forward /\ Backward /\ UpdateIsAllOrNothing

-----------------------------------------------------------------------------
\* The fields of an update.
LEMMA UpdateFields ==
  ASSUME ShareSwapAssumption, SwapTypeOK
  PROVE  /\ update.at \in 1..Folders /\ update.pid \in Pids /\ update.had \in SUBSET (1..Folders)
         /\ update.swapped \in 0..Folders /\ update.before \in [1..Folders -> Nat]
         /\ Folders \in Nat /\ 1 \in 1..Folders /\ Folders \in 1..Folders
         /\ updates \in Nat /\ Whole(New) /\ New # Gone
BY DEF SwapTypeOK, Update, ShareSwapAssumption, New, Whole, Torn, Gone

LEMMA SetLiveIs ==
  ASSUME SwapTypeOK, NEW f \in 1..Folders, NEW x \in Nat, SetLive(f, x)
  PROVE  /\ live' \in [1..Folders -> Nat] /\ live'[f] = x
         /\ \A g \in 1..Folders : g # f => live'[g] = live[g]
BY DEF SwapTypeOK, SetLive

LEMMA SetBackupIs ==
  ASSUME SwapTypeOK, Own \in Pids, NEW f \in 1..Folders, NEW x \in Nat, SetBackup(f, x)
  PROVE  /\ backup' \in [1..Folders -> [Pids -> Nat]] /\ backup'[f][Own] = x
         /\ \A g \in 1..Folders : g # f => backup'[g] = backup[g]
         /\ \A g \in 1..Folders, p \in Pids : p # Own => backup'[g][p] = backup[g][p]
<1> DEFINE P == Own
<1> HIDE DEF P
<1>1. backup \in [1..Folders -> [Pids -> Nat]] /\ P \in Pids
  BY DEF SwapTypeOK, P
<1>2. backup' = [backup EXCEPT ![f] = [backup[f] EXCEPT ![P] = x]]
  BY <1>1 DEF SetBackup, P
<1>3. [backup[f] EXCEPT ![P] = x] \in [Pids -> Nat]
  BY <1>1
<1>4. /\ backup' \in [1..Folders -> [Pids -> Nat]] /\ backup'[f] = [backup[f] EXCEPT ![P] = x]
      /\ \A g \in 1..Folders : g # f => backup'[g] = backup[g]
  BY <1>1, <1>2, <1>3
<1>5. backup'[f][P] = x /\ \A p \in Pids : p # P => backup'[f][p] = backup[f][p]
  BY <1>1, <1>4
<1> QED BY <1>4, <1>5 DEF P

\* An update goes on: of what it is, only the step, the folder and the like change.
Keeps ==
  /\ update'.pid = update.pid /\ update'.before = update.before
  /\ update'.again = update.again /\ updates' = updates

LEMMA SwapToIs ==
  ASSUME ShareSwapAssumption, SwapTypeOK, NEW f \in 1..Folders, UNCHANGED updates,
         NEW s \in Swapping \cup Undoing \cup {"drop"} \cup Over, SwapTo(s, f)
  PROVE  /\ update' \in Update /\ update'.step = s /\ update'.at = f /\ Keeps
         /\ update'.had = update.had /\ update'.swapped = update.swapped
         /\ update'.stuck = update.stuck
BY DEF SwapTypeOK, SwapTo, Update, Keeps

LEMMA UndoesIs ==
  ASSUME ShareSwapAssumption, SwapTypeOK, NEW n \in 0..Folders, Undoes(n), UNCHANGED updates
  PROVE  /\ update' \in Update /\ update'.step = (IF n = 0 THEN "error" ELSE "undo")
         /\ update'.at = 1 /\ update'.swapped = n /\ update'.had = update.had /\ Keeps
         /\ update'.stuck = update.stuck
BY UpdateFields DEF SwapTypeOK, Undoes, Update, Keeps, Undoing, Over

\* No step of an update but its start touches another process's backups.
LEMMA KeptStays ==
  ASSUME ShareSwapAssumption, SwapTypeOK, Kept, Keeps,
         \A f \in 1..Folders, p \in Pids : p # Own => backup'[f][p] = backup[f][p]
  PROVE  Kept'
BY DEF Kept, Keeps, Own

-----------------------------------------------------------------------------
LEMMA InitSwapInv == ShareSwapAssumption /\ SwapInit => SwapInv
<1> SUFFICES ASSUME ShareSwapAssumption, SwapInit PROVE SwapInv
  OBVIOUS
<1>1. /\ live = [f \in 1..Folders |-> 2] /\ updates = 0
      /\ backup = [f \in 1..Folders |-> [p \in Pids |-> Gone]] /\ Gone = 0
  BY DEF SwapInit, Gone
<1>2. PICK p \in Pids :
        update = [step |-> "ok", at |-> 1, pid |-> p, had |-> {}, swapped |-> 0,
                  before |-> live, stuck |-> FALSE, again |-> FALSE]
  BY DEF SwapInit
<1>3. SwapTypeOK
  BY <1>1, <1>2 DEF SwapTypeOK, Update, Over, ShareSwapAssumption
<1>4. Kept /\ Sound
  BY <1>1, <1>2 DEF Kept, Sound, Whole, Torn
<1> QED BY <1>1, <1>2, <1>3, <1>4 DEF SwapInv, Forward, Backward, UpdateIsAllOrNothing, Swap

\* A backup under the process's own id would not do: there is none, or `again` says so.
LEMMA StartUpdateInv == ASSUME ShareSwapAssumption, SwapInv, FoldersSurvive, StartUpdate PROVE SwapInv'
<1>1. PICK p \in Pids :
        update' = [step |-> "stage", at |-> 1, pid |-> p, had |-> {}, swapped |-> 0,
                   before |-> live, stuck |-> FALSE,
                   again |-> update.again \/ \E f \in 1..Folders : backup[f][p] # Gone]
  BY DEF StartUpdate
<1>2. SwapTypeOK /\ updates' = updates + 1 /\ live' = live /\ backup' = backup
  BY DEF SwapInv, StartUpdate
<1>3. SwapTypeOK'
  <2>1. live \in [1..Folders -> Nat] /\ 1 \in 1..Folders /\ 0 \in 0..Folders /\ updates \in Nat
    BY <1>2, UpdateFields DEF SwapTypeOK
  <2>2. (update.again \/ \E f \in 1..Folders : backup[f][p] # Gone) \in BOOLEAN
    OBVIOUS
  <2>3. update' \in Update
    BY <1>1, <2>1, <2>2 DEF Update, Swapping
  <2> QED BY <1>2, <2>1, <2>3 DEF SwapTypeOK
<1>4. Kept'
  <2> SUFFICES ASSUME ~update'.again, NEW f \in 1..Folders
               PROVE  Whole(live[f]) \/ \E q \in Pids : q # p /\ Whole(backup[f][q])
    BY <1>1, <1>2 DEF Kept, Own
  <2>1. ~update.again /\ backup[f][p] = Gone
    BY <1>1
  <2>2. Whole(live[f]) \/ \E q \in Pids : Whole(backup[f][q])
    BY <2>1 DEF FoldersSurvive
  <2> QED BY <2>1, <2>2 DEF Whole, Torn, Gone
<1>5. Sound' /\ Forward' /\ Backward' /\ UpdateIsAllOrNothing'
  BY <1>1, <1>2 DEF Sound, Forward, Backward, UpdateIsAllOrNothing, Swap, AsBefore
<1> QED BY <1>3, <1>4, <1>5 DEF SwapInv

LEMMA StageInv == ASSUME ShareSwapAssumption, SwapInv, Stage PROVE SwapInv'
<1>1. SwapTypeOK /\ live' = live /\ backup' = backup /\ updates' = updates
  BY DEF SwapInv, Stage
<1>2. PICK s \in {"clear", "error"} : SwapTo(s, 1)
  BY DEF Stage
<1>3. /\ update' \in Update /\ update'.step = s /\ update'.at = 1 /\ Keeps
      /\ update'.had = update.had
  BY <1>1, <1>2, SwapToIs, UpdateFields DEF Swapping, Over
<1>4. update.had = {} /\ \A f \in 1..Folders : AsBefore(f)
  BY DEF SwapInv, Forward, Stage
<1>5. SwapTypeOK' /\ Kept'
  BY <1>1, <1>3, KeptStays DEF SwapTypeOK, SwapInv
<1>6. live \in [1..Folders -> Nat] /\ update.before \in [1..Folders -> Nat]
  BY <1>1, UpdateFields DEF SwapTypeOK
<1>7. live = update.before
  BY <1>4, <1>6 DEF AsBefore
<1>8. Sound' /\ Forward' /\ Backward' /\ UpdateIsAllOrNothing'
  BY <1>1, <1>2, <1>3, <1>4, <1>7, UpdateFields
     DEF Sound, Forward, Backward, UpdateIsAllOrNothing, Swap, AsBefore, Keeps
<1> QED BY <1>5, <1>8 DEF SwapInv

\* The file system failed, before any folder was touched or with n of them to put back.
LEMMA UndoesInv ==
  ASSUME ShareSwapAssumption, SwapInv, NEW n \in 0..Folders, Undoes(n), UNCHANGED <<live, updates>>,
         backup' \in [1..Folders -> [Pids -> Nat]],
         \A f \in 1..Folders, p \in Pids : p # Own => backup'[f][p] = backup[f][p],
         \A f \in 1..Folders : f <= n => Saved(f) /\ backup'[f] = backup[f],
         \A f \in 1..Folders : f > n => AsBefore(f)
  PROVE  SwapInv'
<1>1. /\ update' \in Update /\ update'.step = (IF n = 0 THEN "error" ELSE "undo")
      /\ update'.at = 1 /\ update'.swapped = n /\ update'.had = update.had /\ Keeps
  BY UndoesIs DEF SwapInv
<1>2. SwapTypeOK' /\ Kept'
  BY <1>1, KeptStays DEF SwapTypeOK, SwapInv
<1>3. \A f \in 1..Folders : (f <= n => Saved(f)') /\ (f > n => AsBefore(f)')
  <2> SUFFICES ASSUME NEW f \in 1..Folders
               PROVE  (f <= n => Saved(f)') /\ (f > n => AsBefore(f)')
    OBVIOUS
  <2>1. ASSUME f <= n PROVE Saved(f)'
    <3>1. Saved(f) /\ backup'[f] = backup[f]
      BY <2>1
    <3> QED BY <1>1, <3>1 DEF Saved, Own, Keeps
  <2>2. ASSUME f > n PROVE AsBefore(f)'
    <3>1. AsBefore(f) /\ live' = live
      BY <2>2
    <3> QED BY <1>1, <3>1 DEF AsBefore, Keeps
  <2> QED BY <2>1, <2>2
<1>4. n = 0 => live' = update'.before
  <2> SUFFICES ASSUME n = 0 PROVE live' = update'.before
    OBVIOUS
  <2>1. \A f \in 1..Folders : live[f] = update.before[f]
    BY DEF AsBefore
  <2>2. live \in [1..Folders -> Nat] /\ update.before \in [1..Folders -> Nat]
    BY UpdateFields DEF SwapInv, SwapTypeOK
  <2> QED BY <1>1, <2>1, <2>2 DEF Keeps
<1>5. Sound'
  <2>1. Folders \in Nat
    BY DEF ShareSwapAssumption
  <2>2. \A f \in 1..Folders : Saved(f)' \/ AsBefore(f)'
    BY <1>3, <2>1
  <2> QED BY <2>2 DEF Sound, AsBefore
<1>6. Forward' /\ Backward' /\ UpdateIsAllOrNothing'
  BY <1>1, <1>3, <1>4 DEF Forward, Backward, UpdateIsAllOrNothing, Swap
<1> QED BY <1>2, <1>5, <1>6 DEF SwapInv

LEMMA ClearInv == ASSUME ShareSwapAssumption, SwapInv, Clear PROVE SwapInv'
<1> DEFINE f == update.at
<1>1. /\ SwapTypeOK /\ Own \in Pids /\ f \in 1..Folders /\ Swap("clear")
      /\ UNCHANGED <<live, updates>> /\ Folders \in Nat /\ backup[f][Own] \in Nat
  BY UpdateFields DEF SwapInv, Clear, Own, SwapTypeOK
<1>2. \A g \in 1..Folders : IF g < f THEN MovedIn(g) ELSE AsBefore(g) /\ g \notin update.had
  BY <1>1 DEF SwapInv, Forward
<1>3. CASE SetBackup(f, Gone) /\ SwapTo("aside", f)
  <2>1. /\ backup' \in [1..Folders -> [Pids -> Nat]]
        /\ \A g \in 1..Folders : g # f => backup'[g] = backup[g]
        /\ \A g \in 1..Folders, p \in Pids : p # Own => backup'[g][p] = backup[g][p]
    BY <1>1, <1>3, SetBackupIs DEF Gone
  <2>2. /\ update' \in Update /\ update'.step = "aside" /\ update'.at = f /\ Keeps
        /\ update'.had = update.had
    BY <1>1, <1>3, SwapToIs DEF Swapping
  <2>3. SwapTypeOK' /\ Kept'
    BY <1>1, <2>1, <2>2, KeptStays DEF SwapTypeOK, SwapInv
  <2>4. \A g \in 1..Folders :
          IF g < f THEN MovedIn(g)' ELSE AsBefore(g)' /\ g \notin update'.had
    <3> SUFFICES ASSUME NEW g \in 1..Folders
                 PROVE  IF g < f THEN MovedIn(g)' ELSE AsBefore(g)' /\ g \notin update'.had
      OBVIOUS
    <3>1. CASE g < f
      <4>1. MovedIn(g) /\ backup'[g] = backup[g]
        BY <1>1, <1>2, <2>1, <3>1
      <4> QED BY <1>1, <2>2, <3>1, <4>1 DEF MovedIn, Saved, New, Keeps, Own
    <3>2. CASE ~(g < f)
      BY <1>1, <1>2, <2>2, <3>2 DEF AsBefore, Keeps
    <3> QED BY <3>1, <3>2
  <2>5. Sound'
    BY <2>4 DEF Sound, MovedIn, AsBefore
  <2>6. Forward' /\ Backward' /\ UpdateIsAllOrNothing'
    BY <2>2, <2>4 DEF Forward, Backward, UpdateIsAllOrNothing, Swap
  <2> QED BY <2>3, <2>5, <2>6 DEF SwapInv
<1>4. CASE (SetBackup(f, backup[f][Own]) \/ SetBackup(f, Torn)) /\ Undoes(f - 1)
  <2>1. /\ backup' \in [1..Folders -> [Pids -> Nat]]
        /\ \A g \in 1..Folders : g # f => backup'[g] = backup[g]
        /\ \A g \in 1..Folders, p \in Pids : p # Own => backup'[g][p] = backup[g][p]
    BY <1>1, <1>4, SetBackupIs DEF Torn
  <2>2. f - 1 \in 0..Folders
    BY <1>1
  <2>3. \A g \in 1..Folders :
          (g <= f - 1 => Saved(g) /\ backup'[g] = backup[g]) /\ (g > f - 1 => AsBefore(g))
    BY <1>1, <1>2, <2>1 DEF MovedIn
  <2> QED BY <1>1, <1>4, <2>1, <2>2, <2>3, UndoesInv
<1> QED BY <1>3, <1>4 DEF Clear

LEMMA MoveAsideInv == ASSUME ShareSwapAssumption, SwapInv, MoveAside PROVE SwapInv'
<1> DEFINE f == update.at
<1>1. /\ SwapTypeOK /\ Own \in Pids /\ f \in 1..Folders /\ Swap("aside") /\ updates' = updates
      /\ Folders \in Nat /\ live[f] \in Nat
  BY UpdateFields DEF SwapInv, MoveAside, Own, SwapTypeOK
<1>2. \A g \in 1..Folders : IF g < f THEN MovedIn(g) ELSE AsBefore(g) /\ g \notin update.had
  BY <1>1 DEF SwapInv, Forward
<1>3. ASSUME SwapTypeOK', Kept', Keeps, update'.step = "move", update'.at = f,
             \A g \in 1..Folders :
               /\ g # f => (live'[g] = live[g] /\ backup'[g] = backup[g]
                             /\ (g \in update'.had <=> g \in update.had))
               /\ g = f => Saved(g)'
      PROVE  SwapInv'
  <2>1. \A g \in 1..Folders :
          /\ g < f => MovedIn(g)'
          /\ g = f => Saved(g)'
          /\ g > f => AsBefore(g)' /\ g \notin update'.had
    <3> SUFFICES ASSUME NEW g \in 1..Folders
                 PROVE  /\ g < f => MovedIn(g)'
                        /\ g > f => AsBefore(g)' /\ g \notin update'.had
      BY <1>3
    <3>1. CASE g < f
      BY <1>1, <1>2, <1>3, <3>1 DEF MovedIn, Saved, New, Keeps, Own
    <3>2. CASE g > f
      BY <1>1, <1>2, <1>3, <3>2 DEF AsBefore, Keeps
    <3> QED BY <1>1, <3>1, <3>2
  <2>2. Sound'
    BY <1>1, <2>1 DEF Sound, MovedIn, AsBefore
  <2>3. Forward' /\ Backward' /\ UpdateIsAllOrNothing'
    BY <1>3, <2>1 DEF Forward, Backward, UpdateIsAllOrNothing, Swap
  <2> QED BY <1>3, <2>2, <2>3 DEF SwapInv
<1>4. CASE live[f] = Gone /\ SwapTo("move", f) /\ UNCHANGED <<live, backup>>
  <2>1. /\ update' \in Update /\ update'.step = "move" /\ update'.at = f /\ Keeps
        /\ update'.had = update.had
    BY <1>1, <1>4, SwapToIs DEF Swapping
  <2>2. SwapTypeOK' /\ Kept'
    BY <1>1, <1>4, <2>1, KeptStays DEF SwapTypeOK, SwapInv
  <2>3. Saved(f)'
    BY <1>1, <1>2, <1>4, <2>1 DEF Saved, AsBefore, Keeps
  <2> QED BY <1>3, <1>4, <2>1, <2>2, <2>3
<1>5. CASE /\ SetBackup(f, live[f]) /\ SetLive(f, Gone)
           /\ update' = [update EXCEPT !.step = "move", !.had = @ \cup {f}]
  <2>1. /\ backup' \in [1..Folders -> [Pids -> Nat]] /\ backup'[f][Own] = live[f]
        /\ \A g \in 1..Folders : g # f => backup'[g] = backup[g]
        /\ \A g \in 1..Folders, p \in Pids : p # Own => backup'[g][p] = backup[g][p]
    BY <1>1, <1>5, SetBackupIs
  <2>2. /\ live' \in [1..Folders -> Nat]
        /\ \A g \in 1..Folders : g # f => live'[g] = live[g]
    BY <1>1, <1>5, SetLiveIs DEF Gone
  <2>3. /\ update' \in Update /\ update'.step = "move" /\ update'.at = f /\ Keeps
        /\ update'.had = update.had \cup {f}
    BY <1>1, <1>5 DEF SwapTypeOK, Update, Swapping, Keeps
  <2>4. SwapTypeOK' /\ Kept'
    BY <1>1, <2>1, <2>2, <2>3, KeptStays DEF SwapTypeOK, SwapInv
  <2>5. Saved(f)'
    BY <1>1, <1>2, <2>1, <2>3 DEF Saved, AsBefore, Keeps, Own
  <2> QED BY <1>3, <2>1, <2>2, <2>3, <2>4, <2>5
<1>6. CASE Undoes(f - 1) /\ UNCHANGED <<live, backup>>
  <2>1. f - 1 \in 0..Folders
    BY <1>1
  <2>2. \A g \in 1..Folders : (g <= f - 1 => Saved(g)) /\ (g > f - 1 => AsBefore(g))
    BY <1>1, <1>2 DEF MovedIn
  <2> QED BY <1>1, <1>6, <2>1, <2>2, UndoesInv DEF SwapTypeOK
<1> QED BY <1>4, <1>5, <1>6 DEF MoveAside

LEMMA MoveInInv == ASSUME ShareSwapAssumption, SwapInv, MoveIn PROVE SwapInv'
<1> DEFINE f == update.at
<1>1. /\ SwapTypeOK /\ Own \in Pids /\ f \in 1..Folders /\ Swap("move")
      /\ backup' = backup /\ updates' = updates /\ Folders \in Nat /\ New \in Nat
  BY UpdateFields DEF SwapInv, MoveIn, Own, New
<1>2. \A g \in 1..Folders :
        /\ g < f => MovedIn(g)
        /\ g = f => Saved(g)
        /\ g > f => AsBefore(g) /\ g \notin update.had
  BY <1>1 DEF SwapInv, Forward
<1>3. CASE SetLive(f, New) /\ (IF f < Folders THEN SwapTo("clear", f + 1) ELSE SwapTo("drop", 1))
  <2> DEFINE s == IF f < Folders THEN "clear" ELSE "drop"
             next == IF f < Folders THEN f + 1 ELSE 1
  <2>1. /\ live' \in [1..Folders -> Nat] /\ live'[f] = New
        /\ \A g \in 1..Folders : g # f => live'[g] = live[g]
    BY <1>1, <1>3, SetLiveIs
  <2>2. SwapTo(s, next) /\ next \in 1..Folders
    BY <1>1, <1>3
  <2>3. /\ update' \in Update /\ update'.step = s /\ update'.at = next /\ Keeps
        /\ update'.had = update.had
    BY <1>1, <2>2, SwapToIs DEF Swapping
  <2>4. SwapTypeOK' /\ Kept'
    BY <1>1, <2>1, <2>3, KeptStays DEF SwapTypeOK, SwapInv
  <2>5. \A g \in 1..Folders :
          IF g <= f THEN MovedIn(g)' ELSE AsBefore(g)' /\ g \notin update'.had
    <3> SUFFICES ASSUME NEW g \in 1..Folders
                 PROVE  IF g <= f THEN MovedIn(g)' ELSE AsBefore(g)' /\ g \notin update'.had
      OBVIOUS
    <3>1. CASE g <= f
      <4>1. live'[g] = New /\ Saved(g)
        BY <1>1, <1>2, <2>1, <3>1 DEF MovedIn
      <4> QED BY <1>1, <2>3, <3>1, <4>1 DEF MovedIn, Saved, New, Keeps, Own
    <3>2. CASE ~(g <= f)
      BY <1>1, <1>2, <2>1, <2>3, <3>2 DEF AsBefore, Keeps
    <3> QED BY <3>1, <3>2
  <2>6. Sound'
    BY <2>5 DEF Sound, MovedIn, AsBefore
  <2>7. CASE f < Folders
    <3>1. \A g \in 1..Folders : g <= f <=> g < f + 1
      BY <1>1
    <3>2. Forward' /\ Backward' /\ UpdateIsAllOrNothing'
      BY <1>1, <2>3, <2>5, <2>7, <3>1 DEF Forward, Backward, UpdateIsAllOrNothing, Swap
    <3> QED BY <2>4, <2>6, <3>2 DEF SwapInv
  <2>8. CASE ~(f < Folders)
    <3>1. \A g \in 1..Folders : g <= f
      BY <1>1, <2>8
    <3>2. AllNew'
      BY <2>5, <3>1 DEF AllNew, MovedIn
    <3>3. Forward' /\ Backward' /\ UpdateIsAllOrNothing'
      BY <2>3, <2>8, <3>2 DEF Forward, Backward, UpdateIsAllOrNothing, Swap
    <3> QED BY <2>4, <2>6, <3>3 DEF SwapInv
  <2> QED BY <2>7, <2>8
<1>4. CASE Undoes(f) /\ UNCHANGED live
  <2>1. f \in 0..Folders
    BY <1>1
  <2>2. \A g \in 1..Folders : (g <= f => Saved(g)) /\ (g > f => AsBefore(g))
    BY <1>1, <1>2 DEF MovedIn
  <2> QED BY <1>1, <1>4, <2>1, <2>2, UndoesInv DEF SwapTypeOK
<1> QED BY <1>3, <1>4 DEF MoveIn

-----------------------------------------------------------------------------
\* The update is over with folders in any state of the undoing, or cut off.
LEMMA OverInv ==
  ASSUME SwapInv, SwapTypeOK', Kept', Sound',
         Swap("cut off")' \/ (Swap("error")' /\ update'.stuck)
  PROVE  SwapInv'
BY DEF SwapInv, Forward, Backward, UpdateIsAllOrNothing, Swap

\* What is saved can be told while only live folders change.
LEMMA SoundStays ==
  ASSUME Keeps, backup' = backup, update'.had = update.had
  PROVE  \A f \in 1..Folders : Saved(f)' = Saved(f)
BY DEF Saved, Keeps, Own

\* A folder is as it was again: the next one's turn, or the update ends in an error.
LEMMA NextUndoInv ==
  ASSUME ShareSwapAssumption, SwapInv, Swap("undo") \/ Swap("restore"), UNCHANGED updates,
         NextUndo(update.at), live' \in [1..Folders -> Nat],
         backup' \in [1..Folders -> [Pids -> Nat]],
         live'[update.at] = update.before[update.at],
         \A g \in 1..Folders : g # update.at => live'[g] = live[g] /\ backup'[g] = backup[g],
         \A g \in 1..Folders, p \in Pids : p # Own => backup'[g][p] = backup[g][p]
  PROVE  SwapInv' /\ (Swap("error")' => live' = update'.before)
<1> DEFINE f == update.at
           n == update.swapped
           s == IF f < n THEN "undo" ELSE "error"
           next == IF f < n THEN f + 1 ELSE f
<1>1. /\ SwapTypeOK /\ f \in 1..Folders /\ n \in 0..Folders /\ Folders \in Nat /\ f <= n
      /\ update.before \in [1..Folders -> Nat]
  BY UpdateFields DEF SwapInv, Backward
<1>2. \A g \in 1..Folders : IF g < f \/ g > n THEN AsBefore(g) ELSE Saved(g)
  BY DEF SwapInv, Backward
<1>3. SwapTo(s, next) /\ next \in 1..Folders
  <2>1. SwapTo(s, next)
    <3>1. CASE f < n
      BY <3>1 DEF NextUndo
    <3>2. CASE ~(f < n)
      BY <3>2 DEF NextUndo
    <3> QED BY <3>1, <3>2
  <2>2. next \in 1..Folders
    BY <1>1
  <2> QED BY <2>1, <2>2
<1>4. /\ update' \in Update /\ update'.step = s /\ update'.at = next /\ Keeps
      /\ update'.had = update.had /\ update'.swapped = n
  BY <1>1, <1>3, SwapToIs DEF Undoing, Over
<1>5. SwapTypeOK' /\ Kept'
  BY <1>1, <1>4, KeptStays DEF SwapTypeOK, SwapInv
<1>6. \A g \in 1..Folders : IF g <= f \/ g > n THEN AsBefore(g)' ELSE Saved(g)'
  <2> SUFFICES ASSUME NEW g \in 1..Folders
               PROVE  IF g <= f \/ g > n THEN AsBefore(g)' ELSE Saved(g)'
    OBVIOUS
  <2>1. CASE g = f
    <3>1. AsBefore(g)'
      BY <1>4, <2>1 DEF AsBefore, Keeps
    <3> QED BY <1>1, <2>1, <3>1
  <2>2. CASE g < f \/ g > n
    <3>1. g # f /\ AsBefore(g)
      BY <1>1, <1>2, <2>2
    <3>2. AsBefore(g)'
      BY <1>4, <3>1 DEF AsBefore, Keeps
    <3> QED BY <1>1, <2>2, <3>2
  <2>3. CASE g > f /\ g <= n
    <3>0. g # f /\ ~(g < f \/ g > n)
      BY <1>1, <2>3
    <3>1. g # f /\ Saved(g)
      BY <1>2, <3>0
    <3>2. Saved(g)'
      BY <1>4, <3>1 DEF Saved, Keeps, Own
    <3> QED BY <1>1, <2>3, <3>2
  <2> QED BY <1>1, <2>1, <2>2, <2>3
<1>7. Sound'
  BY <1>6 DEF Sound, AsBefore
<1>8. CASE f < n
  <2>1. \A g \in 1..Folders : g <= f <=> g < f + 1
    <3>1. f \in Nat /\ Folders \in Nat
      BY <1>1
    <3> HIDE DEF f
    <3> QED BY <3>1
  <2>2. \A g \in 1..Folders : IF g < f + 1 \/ g > n THEN AsBefore(g)' ELSE Saved(g)'
    <3> SUFFICES ASSUME NEW g \in 1..Folders
                 PROVE  IF g < f + 1 \/ g > n THEN AsBefore(g)' ELSE Saved(g)'
      OBVIOUS
    <3>1. g <= f <=> g < f + 1
      BY <2>1
    <3>2. IF g <= f \/ g > n THEN AsBefore(g)' ELSE Saved(g)'
      BY <1>6
    <3> QED BY <3>1, <3>2
  <2>3. f + 1 <= n /\ update'.step = "undo" /\ update'.at = f + 1 /\ update'.swapped = n
    BY <1>1, <1>4, <1>8
  <2>4. Forward' /\ UpdateIsAllOrNothing'
    BY <2>3 DEF Forward, UpdateIsAllOrNothing, Swap
  <2>5. Backward'
    BY <2>2, <2>3 DEF Backward, Swap
  <2> QED BY <1>5, <1>7, <2>3, <2>4, <2>5 DEF SwapInv, Swap
<1>9. CASE ~(f < n)
  <2>1. \A g \in 1..Folders : live'[g] = update.before[g]
    BY <1>1, <1>4, <1>6, <1>9 DEF AsBefore, Keeps
  <2>2. live' = update'.before
    <3> DEFINE b == update.before
    <3> HIDE DEF b
    <3>1. b \in [1..Folders -> Nat] /\ \A g \in 1..Folders : live'[g] = b[g]
      BY <1>1, <2>1 DEF b
    <3>2. live' = b
      BY <3>1
    <3> QED BY <1>4, <3>2 DEF Keeps, b
  <2>3. Forward' /\ Backward' /\ UpdateIsAllOrNothing'
    BY <1>4, <1>9, <2>2 DEF Forward, Backward, UpdateIsAllOrNothing, Swap
  <2> QED BY <1>5, <1>7, <2>2, <2>3 DEF SwapInv
<1> QED BY <1>8, <1>9

LEMMA StuckInv ==
  ASSUME ShareSwapAssumption, SwapInv, Swap("undo") \/ Swap("restore"), Stuck,
         UNCHANGED <<backup, updates>>, UNCHANGED live \/ SetLive(update.at, Torn)
  PROVE  SwapInv' /\ update'.stuck
<1> DEFINE f == update.at
<1>1. /\ SwapTypeOK /\ f \in 1..Folders /\ f <= update.swapped
      /\ update.swapped \in 0..Folders /\ Folders \in Nat
  BY UpdateFields DEF SwapInv, Backward
<1>2. /\ update' \in Update /\ update'.step = "error" /\ update'.stuck /\ Keeps
      /\ update'.had = update.had
  BY <1>1 DEF SwapTypeOK, Stuck, Update, Over, Keeps
<1>3. /\ live' \in [1..Folders -> Nat]
      /\ \A g \in 1..Folders : g # f => live'[g] = live[g]
  BY <1>1, SetLiveIs DEF SwapTypeOK, Torn
<1>4. SwapTypeOK' /\ Kept'
  BY <1>1, <1>2, <1>3, KeptStays DEF SwapTypeOK, SwapInv
<1>5. Saved(f)
  BY <1>1 DEF SwapInv, Backward
<1>6. Sound'
  BY <1>1, <1>2, <1>3, <1>5, SoundStays DEF SwapInv, Sound, New, Keeps
<1> QED BY <1>2, <1>4, <1>6, OverInv DEF Swap

LEMMA UndoMoveInInv ==
  ASSUME ShareSwapAssumption, SwapInv, UndoMoveIn
  PROVE  SwapInv' /\ (Swap("error")' => update'.stuck \/ live' = update'.before)
<1> DEFINE f == update.at
<1>1. /\ SwapTypeOK /\ f \in 1..Folders /\ Swap("undo") /\ f <= update.swapped
      /\ UNCHANGED <<backup, updates>> /\ update.swapped \in 0..Folders /\ Folders \in Nat
  BY UpdateFields DEF SwapInv, UndoMoveIn, Backward
<1>2. \A g \in 1..Folders : IF g < f \/ g > update.swapped THEN AsBefore(g) ELSE Saved(g)
  BY <1>1 DEF SwapInv, Backward
<1>3. CASE SetLive(f, Gone) /\ f \in update.had /\ SwapTo("restore", f)
  <2>1. /\ live' \in [1..Folders -> Nat]
        /\ \A g \in 1..Folders : g # f => live'[g] = live[g]
    BY <1>1, <1>3, SetLiveIs DEF Gone
  <2>2. /\ update' \in Update /\ update'.step = "restore" /\ update'.at = f /\ Keeps
        /\ update'.had = update.had /\ update'.swapped = update.swapped
    BY <1>1, <1>3, SwapToIs DEF Undoing
  <2>3. SwapTypeOK' /\ Kept'
    BY <1>1, <2>1, <2>2, KeptStays DEF SwapTypeOK, SwapInv
  <2>4. \A g \in 1..Folders :
          IF g < f \/ g > update.swapped THEN AsBefore(g)' ELSE Saved(g)'
    BY <1>1, <1>2, <2>1, <2>2, SoundStays DEF AsBefore, Keeps
  <2>5. Sound'
    BY <2>4 DEF Sound, AsBefore
  <2>6. Forward' /\ Backward' /\ UpdateIsAllOrNothing'
    BY <1>1, <1>3, <2>2, <2>4 DEF Forward, Backward, UpdateIsAllOrNothing, Swap
  <2> QED BY <2>2, <2>3, <2>5, <2>6 DEF SwapInv, Swap
<1>4. CASE SetLive(f, Gone) /\ f \notin update.had /\ NextUndo(f)
  <2>1. /\ live' \in [1..Folders -> Nat] /\ live'[f] = Gone
        /\ \A g \in 1..Folders : g # f => live'[g] = live[g]
    BY <1>1, <1>4, SetLiveIs DEF Gone
  <2>2. update.before[f] = Gone
    BY <1>1, <1>2, <1>4 DEF Saved
  <2> QED BY <1>1, <1>4, <2>1, <2>2, NextUndoInv DEF SwapTypeOK
<1>5. CASE Stuck /\ (UNCHANGED live \/ SetLive(f, Torn))
  BY <1>1, <1>5, StuckInv
<1> QED BY <1>3, <1>4, <1>5 DEF UndoMoveIn

LEMMA RestoreInv ==
  ASSUME ShareSwapAssumption, SwapInv, Restore
  PROVE  SwapInv' /\ (Swap("error")' => update'.stuck \/ live' = update'.before)
<1> DEFINE f == update.at
<1>1. /\ SwapTypeOK /\ f \in 1..Folders /\ Swap("restore") /\ f <= update.swapped
      /\ updates' = updates /\ update.swapped \in 0..Folders /\ Folders \in Nat
      /\ f \in update.had /\ Own \in Pids
  BY UpdateFields DEF SwapInv, Restore, Backward, Own
<1>2. backup[f][Own] = update.before[f] /\ backup[f][Own] \in Nat
  <2>1. Saved(f)
    BY <1>1 DEF SwapInv, Backward
  <2>2. backup[f][Own] = update.before[f]
    BY <1>1, <2>1 DEF Saved
  <2> QED BY <1>1, <2>2 DEF SwapTypeOK
<1>3. CASE SetLive(f, backup[f][Own]) /\ SetBackup(f, Gone) /\ NextUndo(f)
  <2>1. /\ live' \in [1..Folders -> Nat] /\ live'[f] = update.before[f]
        /\ \A g \in 1..Folders : g # f => live'[g] = live[g]
    BY <1>1, <1>2, <1>3, SetLiveIs
  <2>2. /\ backup' \in [1..Folders -> [Pids -> Nat]]
        /\ \A g \in 1..Folders : g # f => backup'[g] = backup[g]
        /\ \A g \in 1..Folders, p \in Pids : p # Own => backup'[g][p] = backup[g][p]
    BY <1>1, <1>3, SetBackupIs DEF Gone
  <2> QED BY <1>1, <1>3, <2>1, <2>2, NextUndoInv
<1>4. CASE Stuck /\ UNCHANGED <<live, backup>>
  BY <1>1, <1>4, StuckInv
<1> QED BY <1>3, <1>4 DEF Restore

LEMMA DropInv == ASSUME ShareSwapAssumption, SwapInv, Drop PROVE SwapInv'
<1> DEFINE f == update.at
<1>1. /\ SwapTypeOK /\ f \in 1..Folders /\ Swap("drop") /\ Own \in Pids /\ Folders \in Nat
      /\ UNCHANGED <<live, updates>> /\ AllNew
  BY UpdateFields DEF SwapInv, Drop, Own, Forward
<1>2. \E s \in {"drop", "ok", "error"}, g \in 1..Folders : SwapTo(s, g)
  BY <1>1 DEF Drop
<1>3. PICK s \in {"drop", "ok", "error"} :
        update' \in Update /\ update'.step = s /\ Keeps /\ update'.had = update.had
  BY <1>1, <1>2, SwapToIs DEF Over
<1>4. /\ backup' \in [1..Folders -> [Pids -> Nat]]
      /\ \A g \in 1..Folders, p \in Pids : p # Own => backup'[g][p] = backup[g][p]
  <2>1. SetBackup(f, Gone) \/ SetBackup(f, Torn) \/ UNCHANGED backup
    BY DEF Drop
  <2> QED BY <1>1, <2>1, SetBackupIs DEF Gone, Torn, SwapTypeOK
<1>5. SwapTypeOK' /\ Kept'
  BY <1>1, <1>3, <1>4, KeptStays DEF SwapTypeOK, SwapInv
<1>6. AllNew' /\ Sound'
  BY <1>1 DEF AllNew, Sound, New
<1>7. Forward' /\ Backward' /\ UpdateIsAllOrNothing'
  BY <1>3, <1>6 DEF Forward, Backward, UpdateIsAllOrNothing, Swap, AllNew
<1> QED BY <1>5, <1>6, <1>7 DEF SwapInv

LEMMA UpdateCutOffInv == ASSUME ShareSwapAssumption, SwapInv, UpdateCutOff PROVE SwapInv'
<1> DEFINE f == update.at
<1>1. /\ SwapTypeOK /\ f \in 1..Folders /\ Own \in Pids /\ updates' = updates
      /\ Folders \in Nat
  BY UpdateFields DEF SwapInv, UpdateCutOff, Own
<1>2. /\ update' \in Update /\ update'.step = "cut off" /\ Keeps /\ update'.had = update.had
  BY <1>1, SwapToIs DEF UpdateCutOff, Over
<1>3. CASE UNCHANGED <<live, backup>>
  <2>1. SwapTypeOK' /\ Kept'
    BY <1>1, <1>2, <1>3, KeptStays DEF SwapTypeOK, SwapInv
  <2>2. Sound'
    BY <1>1, <1>2, <1>3, SoundStays DEF SwapInv, Sound, New, Keeps
  <2> QED BY <1>2, <2>1, <2>2, OverInv DEF Swap
<1>4. CASE Swap("undo") /\ SetLive(f, Torn) /\ UNCHANGED backup
  <2>1. /\ live' \in [1..Folders -> Nat]
        /\ \A g \in 1..Folders : g # f => live'[g] = live[g]
    BY <1>1, <1>4, SetLiveIs DEF Torn
  <2>2. SwapTypeOK' /\ Kept'
    BY <1>1, <1>2, <1>4, <2>1, KeptStays DEF SwapTypeOK, SwapInv
  <2>3. Saved(f)
    BY <1>1, <1>4, UpdateFields DEF SwapInv, Backward
  <2>4. Sound'
    BY <1>1, <1>2, <1>4, <2>1, <2>3, SoundStays DEF SwapInv, Sound, New, Keeps
  <2> QED BY <1>2, <2>2, <2>4, OverInv DEF Swap
<1>5. CASE update.step \in {"clear", "drop"} /\ SetBackup(f, Torn) /\ UNCHANGED live
  <2>1. /\ backup' \in [1..Folders -> [Pids -> Nat]]
        /\ \A g \in 1..Folders : g # f => backup'[g] = backup[g]
        /\ \A g \in 1..Folders, p \in Pids : p # Own => backup'[g][p] = backup[g][p]
    BY <1>1, <1>5, SetBackupIs DEF Torn
  <2>2. SwapTypeOK' /\ Kept'
    BY <1>1, <1>2, <1>5, <2>1, KeptStays DEF SwapTypeOK, SwapInv
  <2>3. \A g \in 1..Folders : live[g] = New \/ AsBefore(g)
    BY <1>1, <1>5 DEF SwapInv, Forward, Swap, AllNew, MovedIn
  <2>4. Sound'
    BY <1>2, <1>5, <2>3 DEF Sound, AsBefore, New, Keeps
  <2> QED BY <1>2, <2>2, <2>4, OverInv DEF Swap
<1> QED BY <1>3, <1>4, <1>5 DEF UpdateCutOff

-----------------------------------------------------------------------------
\* A folder that is neither new nor as it was is saved, and what is saved was whole or there is
\* another backup.
LEMMA WholeSomewhere == ASSUME ShareSwapAssumption, SwapInv PROVE FoldersSurvive
<1> SUFFICES ASSUME ~update.again, NEW f \in 1..Folders
             PROVE  Whole(live[f]) \/ \E p \in Pids : Whole(backup[f][p])
  BY DEF FoldersSurvive
<1>1. Own \in Pids /\ Whole(New)
  BY UpdateFields DEF SwapInv, Own
<1>2. Whole(update.before[f]) \/ \E p \in Pids : Whole(backup[f][p])
  BY DEF SwapInv, Kept
<1>3. live[f] = New \/ live[f] = update.before[f] \/ Saved(f)
  BY DEF SwapInv, Sound
<1> QED BY <1>1, <1>2, <1>3 DEF Saved, Whole, Torn, Gone

LEMMA AlwaysSwapInv == SwapSpec => []SwapInv
<1>1. SwapInit => SwapInv
  BY InitSwapInv, ShareSwapAssumption
<1>2. SwapInv /\ [SwapNext]_swapVars => SwapInv'
  <2> SUFFICES ASSUME SwapInv, [SwapNext]_swapVars PROVE SwapInv'
    OBVIOUS
  <2>1. CASE SwapNext
    BY <2>1, ShareSwapAssumption, WholeSomewhere, StartUpdateInv, StageInv, ClearInv, MoveAsideInv,
       MoveInInv, UndoMoveInInv, RestoreInv, DropInv, UpdateCutOffInv DEF SwapNext
  <2>2. CASE UNCHANGED swapVars
    BY <2>2 DEF swapVars, SwapInv, SwapTypeOK, Kept, Sound, Saved, Forward, Backward, Swap, AsBefore,
       MovedIn, AllNew, UpdateIsAllOrNothing, Own, New
  <2> QED BY <2>1, <2>2
<1> QED BY <1>1, <1>2, PTL DEF SwapSpec

\* The folders, the backups and the update have their types.
THEOREM SwapTypes == SwapSpec => []SwapTypeOK
<1>1. SwapInv => SwapTypeOK
  BY DEF SwapInv
<1> QED BY <1>1, AlwaysSwapInv, PTL

\* No update-shares loses a folder of scripts, wherever it fails or is cut off (weaveShares.ts).
THEOREM NoFolderIsLost == SwapSpec => []FoldersSurvive
<1>1. SwapInv => FoldersSurvive
  BY WholeSomewhere, ShareSwapAssumption
<1> QED BY <1>1, AlwaysSwapInv, PTL

\* An update-shares swaps every folder or none (weaveShares.ts).
THEOREM AllOrNothing == SwapSpec => []UpdateIsAllOrNothing
<1>1. SwapInv => UpdateIsAllOrNothing
  BY DEF SwapInv
<1> QED BY <1>1, AlwaysSwapInv, PTL

-----------------------------------------------------------------------------
(***************************************************************************)
(* update-shares implements AtomicUpdates.                                 *)
(***************************************************************************)

\* What one folder shows of what it holds.
Shown(x) == IF Whole(x) THEN x - 1 ELSE 0

LEMMA ShowingSet ==
  ASSUME SwapTypeOK, NEW f \in 1..Folders, NEW x \in Nat, SetLive(f, x)
  PROVE  Showing(live)' = [Showing(live) EXCEPT ![f] = Shown(x)]
<1>1. live \in [1..Folders -> Nat] /\ live' = [live EXCEPT ![f] = x]
  BY DEF SwapTypeOK, SetLive
<1>2. \A g \in 1..Folders : live'[g] = IF g = f THEN x ELSE live[g]
  BY <1>1
<1> QED BY <1>2 DEF Showing, Shown

LEMMA ShowingValues ==
  ASSUME ShareSwapAssumption, SwapTypeOK
  PROVE  /\ Shown(Gone) = Published!NotWhole /\ Shown(Torn) = Published!NotWhole
         /\ Shown(New) = Published!Built
         /\ \A f \in 1..Folders : Showing(update.before)[f] = Shown(update.before[f])
         /\ AllNew => Showing(live) = Published!AllBuilt
<1>1. updates \in Nat
  BY DEF SwapTypeOK
<1>2. /\ Shown(Gone) = Published!NotWhole /\ Shown(Torn) = Published!NotWhole
      /\ Shown(New) = Published!Built
  BY <1>1 DEF Shown, Whole, Torn, Gone, New, Published!NotWhole, Published!Built
<1> QED BY <1>2 DEF Showing, Shown, AllNew, Published!AllBuilt

\* A step of an update under way, by what becomes of its progress.
LEMMA ForwardStep ==
  ASSUME ShareSwapAssumption, SwapTypeOK, Keeps, NEW f \in 1..Folders,
         Progress = "forward", Progress' = "forward",
         UNCHANGED live \/ SetLive(f, Gone) \/ SetLive(f, New)
  PROVE  Published!GoOn
<1>1. Showing(update.before)' = Showing(update.before)
  BY DEF Keeps, Showing
<1>2. CASE UNCHANGED live
  <2>1. Showing(live)' = [Showing(live) EXCEPT ![f] = Showing(live)[f]]
    BY <1>2 DEF Showing
  <2> QED BY <1>1, <2>1 DEF Keeps, Published!GoOn, Published!Advance, Published!Shows
<1>3. CASE SetLive(f, Gone)
  <2>1. Showing(live)' = [Showing(live) EXCEPT ![f] = Published!NotWhole]
    BY <1>3, ShowingSet, ShowingValues DEF Gone
  <2> QED BY <1>1, <2>1 DEF Keeps, Published!GoOn, Published!Advance, Published!Shows
<1>4. CASE SetLive(f, New)
  <2>1. Showing(live)' = [Showing(live) EXCEPT ![f] = Published!Built]
    BY <1>4, ShowingSet, ShowingValues, UpdateFields DEF New
  <2> QED BY <1>1, <2>1 DEF Keeps, Published!GoOn, Published!Advance, Published!Shows
<1> QED BY <1>2, <1>3, <1>4

LEMMA BackStep ==
  ASSUME ShareSwapAssumption, SwapTypeOK, Keeps, NEW f \in 1..Folders,
         Progress = "back", Progress' = "back",
         UNCHANGED live \/ SetLive(f, Gone) \/ SetLive(f, update.before[f])
  PROVE  Published!GoOn
<1>1. Showing(update.before)' = Showing(update.before)
  BY DEF Keeps, Showing
<1>2. CASE UNCHANGED live
  <2>1. Showing(live)' = [Showing(live) EXCEPT ![f] = Showing(live)[f]]
    BY <1>2 DEF Showing
  <2> QED BY <1>1, <2>1 DEF Keeps, Published!GoOn, Published!Return, Published!Shows
<1>3. CASE SetLive(f, Gone)
  <2>1. Showing(live)' = [Showing(live) EXCEPT ![f] = Published!NotWhole]
    BY <1>3, ShowingSet, ShowingValues DEF Gone
  <2> QED BY <1>1, <2>1 DEF Keeps, Published!GoOn, Published!Return, Published!Shows
<1>4. CASE SetLive(f, update.before[f])
  <2>1. update.before[f] \in Nat
    BY UpdateFields
  <2>2. Showing(live)' = [Showing(live) EXCEPT ![f] = Showing(update.before)[f]]
    BY <1>4, <2>1, ShowingSet, ShowingValues
  <2> QED BY <1>1, <2>2 DEF Keeps, Published!GoOn, Published!Return, Published!Shows
<1> QED BY <1>2, <1>3, <1>4

LEMMA TurnStep ==
  ASSUME Keeps, Progress = "forward", Progress' = "back", UNCHANGED live
  PROVE  Published!GoOn
BY DEF Keeps, Showing, Published!GoOn, Published!TurnBack

LEMMA SucceedStep ==
  ASSUME ShareSwapAssumption, SwapTypeOK, Keeps, AllNew,
         Progress = "forward", Progress' = "ok", UNCHANGED live
  PROVE  Published!GoOn
<1>1. Showing(live) = Published!AllBuilt
  BY ShowingValues
<1> QED BY <1>1 DEF Keeps, Showing, Published!GoOn, Published!Succeed

LEMMA FailStep ==
  ASSUME ShareSwapAssumption, SwapTypeOK, Keeps, Progress' = "error",
         \/ Progress = "forward" /\ UNCHANGED live /\ (live = update.before \/ AllNew)
         \/ Progress = "back" /\ live' = update.before
  PROVE  Published!GoOn
<1>1. AllNew => Showing(live) = Published!AllBuilt
  BY ShowingValues
<1>2. Showing(update.before)' = Showing(update.before)
  BY DEF Keeps, Showing
<1>3. CASE Progress = "forward" /\ UNCHANGED live /\ (live = update.before \/ AllNew)
  <2>1. Showing(live) \in {Showing(update.before), Published!AllBuilt} /\ Showing(live)' = Showing(live)
    BY <1>1, <1>3 DEF Showing
  <2> QED BY <1>2, <1>3, <2>1 DEF Keeps, Published!GoOn, Published!Fail
<1>4. CASE Progress = "back" /\ live' = update.before
  <2>1. Showing(live)' = Showing(update.before)
    BY <1>4 DEF Showing
  <2> QED BY <1>2, <1>4, <2>1 DEF Keeps, Published!GoOn, Published!Fail
<1> QED BY <1>3, <1>4

LEMMA BreakStep ==
  ASSUME ShareSwapAssumption, SwapTypeOK, Keeps, NEW f \in 1..Folders,
         Progress \in {"forward", "back"}, Progress' = "broken",
         UNCHANGED live \/ (Progress = "back" /\ SetLive(f, Torn))
  PROVE  Published!GoOn
<1>1. Showing(update.before)' = Showing(update.before)
  BY DEF Keeps, Showing
<1>2. CASE UNCHANGED live
  <2>1. Showing(live)' = Showing(live)
    BY <1>2 DEF Showing
  <2> QED BY <1>1, <2>1 DEF Keeps, Published!GoOn, Published!BreakOff
<1>3. CASE Progress = "back" /\ SetLive(f, Torn)
  <2>1. Showing(live)' = [Showing(live) EXCEPT ![f] = Published!NotWhole]
    BY <1>3, ShowingSet, ShowingValues DEF Torn
  <2> QED BY <1>1, <1>3, <2>1 DEF Keeps, Published!GoOn, Published!BreakOff, Published!Shows
<1> QED BY <1>2, <1>3

\* How far an update is, before a step and after it.
LEMMA ProgressIs ==
  /\ update.step \in {"stage", "clear", "aside", "move", "drop"} => Progress = "forward"
  /\ update.step \in {"undo", "restore"} => Progress = "back"
  /\ update.step = "cut off" => Progress = "broken"
  /\ update.step = "error" => Progress = IF update.stuck THEN "broken" ELSE "error"
  /\ update.step = "ok" => Progress = "ok"
BY DEF Progress, Swap, Swapping, Undoing

LEMMA ProgressWillBe ==
  /\ update'.step \in {"stage", "clear", "aside", "move", "drop"} => Progress' = "forward"
  /\ update'.step \in {"undo", "restore"} => Progress' = "back"
  /\ update'.step = "cut off" => Progress' = "broken"
  /\ update'.step = "error" => Progress' = IF update'.stuck THEN "broken" ELSE "error"
  /\ update'.step = "ok" => Progress' = "ok"
BY DEF Progress, Swap, Swapping, Undoing

\* An update that goes on is not stuck.
Unstuck == ~Updated => ~update.stuck

LEMMA UnstuckStays == ASSUME ShareSwapAssumption, SwapInv, Unstuck, SwapNext PROVE Unstuck'
<1> DEFINE f == update.at
<1>1. /\ SwapTypeOK /\ f \in 1..Folders /\ 1 \in 1..Folders /\ Folders \in Nat
      /\ f \in 0..Folders /\ f - 1 \in 0..Folders /\ update \in Update
  BY UpdateFields DEF SwapInv, SwapTypeOK
<1>2. ASSUME ~Updated, update' \in Update, update'.stuck = update.stuck PROVE Unstuck'
  BY <1>2 DEF Unstuck
<1>3. ASSUME NEW s \in Swapping \cup Undoing \cup {"drop"} \cup Over, NEW g, ~Updated, SwapTo(s, g)
      PROVE  Unstuck'
  <2>1. update'.stuck = update.stuck
    BY <1>1, <1>3 DEF SwapTo, Update
  <2> QED BY <1>3, <2>1 DEF Unstuck
<1>4. ASSUME NEW n, ~Updated, Undoes(n) PROVE Unstuck'
  <2>1. update'.stuck = update.stuck
    BY <1>1, <1>4 DEF Undoes, Update
  <2> QED BY <1>4, <2>1 DEF Unstuck
<1>5. ASSUME Stuck PROVE Unstuck'
  <2>1. update'.step = "error"
    BY <1>1, <1>5 DEF Stuck, Update
  <2> QED BY <2>1 DEF Unstuck, Updated, Over
<1>6. CASE StartUpdate
  <2>1. ~update'.stuck
    BY <1>6 DEF StartUpdate
  <2> QED BY <2>1 DEF Unstuck
<1>7. CASE Stage \/ Clear \/ MoveAside \/ MoveIn \/ Drop \/ UpdateCutOff
  <2>1. ~Updated
    BY <1>7 DEF Stage, Clear, MoveAside, MoveIn, Drop, UpdateCutOff, Swap, Updated, Over
  <2>2. ASSUME update' = [update EXCEPT !.step = "move", !.had = @ \cup {f}] PROVE Unstuck'
    <3>1. update'.stuck = update.stuck
      BY <1>1, <2>2 DEF Update
    <3> QED BY <2>1, <3>1 DEF Unstuck
  <2>3. CASE Stage \/ Clear \/ MoveAside
    BY <1>3, <1>4, <2>1, <2>2, <2>3 DEF Stage, Clear, MoveAside, Swapping, Over
  <2>4. CASE MoveIn \/ Drop \/ UpdateCutOff
    BY <1>3, <1>4, <2>1, <2>4 DEF MoveIn, Drop, UpdateCutOff, Swapping, Over
  <2> QED BY <1>7, <2>3, <2>4
<1>8. CASE UndoMoveIn \/ Restore
  <2>1. ~Updated
    BY <1>8 DEF UndoMoveIn, Restore, Swap, Updated, Over
  <2>2. ASSUME NEW g, NextUndo(g) PROVE Unstuck'
    BY <1>3, <2>1, <2>2 DEF NextUndo, Undoing, Over
  <2> QED BY <1>3, <1>5, <1>8, <2>1, <2>2 DEF UndoMoveIn, Restore, Undoing
<1> QED BY <1>6, <1>7, <1>8 DEF SwapNext

\* Only a start changes what an update began with; every other step is of one under way.
LEMMA StepPublished ==
  ASSUME ShareSwapAssumption, SwapInv, Unstuck, SwapNext
  PROVE  Published!Begin \/ Published!GoOn
<1> DEFINE f == update.at
<1>0. /\ SwapTypeOK /\ f \in 1..Folders /\ Folders \in Nat /\ 1 \in 1..Folders
      /\ Folders \in 1..Folders /\ update.swapped \in 0..Folders
      /\ f - 1 \in 0..Folders /\ f \in 0..Folders
      /\ live \in [1..Folders -> Nat] /\ update.before \in [1..Folders -> Nat]
  <2>1. /\ SwapTypeOK /\ f \in 1..Folders /\ Folders \in Nat /\ 1 \in 1..Folders
        /\ Folders \in 1..Folders /\ update.swapped \in 0..Folders
        /\ live \in [1..Folders -> Nat] /\ update.before \in [1..Folders -> Nat]
    BY UpdateFields DEF SwapInv, SwapTypeOK
  <2>2. \A x \in 1..Folders : x - 1 \in 0..Folders /\ x \in 0..Folders
    BY <2>1
  <2> QED BY <2>1, <2>2
<1>1. CASE StartUpdate
  <2>1. /\ update'.step = "stage" /\ update'.before = live /\ updates' = updates + 1
        /\ live' = live /\ (update.again => update'.again) /\ update.step \in Over
    <3>1. PICK p \in Pids :
            update' = [step |-> "stage", at |-> 1, pid |-> p, had |-> {}, swapped |-> 0,
                       before |-> live, stuck |-> FALSE,
                       again |-> update.again \/ \E g \in 1..Folders : backup[g][p] # Gone]
      BY <1>1 DEF StartUpdate
    <3> QED BY <1>1, <3>1 DEF StartUpdate, Updated
  <2>2. Progress' = "forward" /\ Progress \notin {"forward", "back"}
    BY <2>1, ProgressIs, ProgressWillBe DEF Swap, Over
  <2> QED BY <2>1, <2>2 DEF Published!Begin, Showing
<1>2. CASE Stage
  <2>1. /\ Swap("stage") /\ live' = live
        /\ Keeps /\ update'.step \in {"clear", "error"} /\ update'.stuck = update.stuck
    <3>1. Swap("stage") /\ live' = live /\ updates' = updates
      BY <1>2 DEF Stage
    <3>2. CASE SwapTo("clear", 1)
      BY <1>0, <3>1, <3>2, SwapToIs DEF Swapping
    <3>3. CASE SwapTo("error", 1)
      BY <1>0, <3>1, <3>3, SwapToIs DEF Over
    <3> QED BY <1>2, <3>1, <3>2, <3>3 DEF Stage
  <2>2. live = update.before
    <3>1. \A g \in 1..Folders : live[g] = update.before[g]
      BY <2>1 DEF SwapInv, Forward, AsBefore
    <3> QED BY <1>0, <3>1
  <2>3. Progress = "forward" /\ Progress' \in {"forward", "error", "broken"}
    BY <2>1, ProgressIs, ProgressWillBe DEF Swap
  <2> QED BY <1>0, <2>1, <2>2, <2>3, ForwardStep, FailStep, BreakStep
<1>3. ASSUME NEW n \in 0..Folders, Undoes(n), Progress = "forward", UNCHANGED <<live, updates>>,
             n = 0 => \A g \in 1..Folders : AsBefore(g)
      PROVE  Published!GoOn
  <2>1. /\ Keeps /\ update'.step = (IF n = 0 THEN "error" ELSE "undo")
        /\ update'.stuck = update.stuck /\ live' = live
    BY <1>0, <1>3, UndoesIs
  <2>2. CASE n = 0
    <3>1. live = update.before
      <4>1. \A g \in 1..Folders : live[g] = update.before[g]
        BY <1>3, <2>2 DEF AsBefore
      <4> QED BY <1>0, <4>1
    <3>2. Progress' \in {"error", "broken"}
      BY <2>1, <2>2, ProgressWillBe DEF Swap
    <3> QED BY <1>0, <1>3, <2>1, <3>1, <3>2, FailStep, BreakStep
  <2>3. CASE n # 0
    <3>1. Progress' = "back"
      BY <2>1, <2>3, ProgressWillBe DEF Swap
    <3> QED BY <1>3, <2>1, <3>1, TurnStep
  <2> QED BY <2>2, <2>3
<1>4. CASE Clear
  <2>1. Swap("clear") /\ UNCHANGED <<live, updates>> /\ Progress = "forward"
    BY <1>4, ProgressIs DEF Clear, Swap
  <2>2. CASE SwapTo("aside", f)
    <3>1. Keeps /\ update'.step = "aside"
      BY <1>0, <2>1, <2>2, SwapToIs DEF Swapping
    <3>2. Progress' = "forward"
      BY <3>1, ProgressWillBe
    <3> QED BY <1>0, <2>1, <3>1, <3>2, ForwardStep
  <2>3. CASE Undoes(f - 1)
    <3>1. f - 1 = 0 => \A g \in 1..Folders : AsBefore(g)
      BY <1>0, <2>1 DEF SwapInv, Forward
    <3> QED BY <1>0, <1>3, <2>1, <2>3, <3>1
  <2> QED BY <1>4, <2>2, <2>3 DEF Clear
<1>5. CASE MoveAside
  <2>1. Swap("aside") /\ updates' = updates /\ Progress = "forward"
    BY <1>5, ProgressIs DEF MoveAside, Swap
  <2>2. CASE SwapTo("move", f) /\ UNCHANGED live
    <3>1. Keeps /\ update'.step = "move"
      BY <1>0, <2>1, <2>2, SwapToIs DEF Swapping
    <3>2. Progress' = "forward"
      BY <3>1, ProgressWillBe
    <3> QED BY <1>0, <2>1, <2>2, <3>1, <3>2, ForwardStep
  <2>3. CASE SetLive(f, Gone) /\ update' = [update EXCEPT !.step = "move", !.had = @ \cup {f}]
    <3>1. Keeps /\ update'.step = "move"
      BY <1>0, <2>1, <2>3 DEF SwapTypeOK, Update, Keeps
    <3>2. Progress' = "forward"
      BY <3>1, ProgressWillBe
    <3> QED BY <1>0, <2>1, <2>3, <3>1, <3>2, ForwardStep
  <2>4. CASE Undoes(f - 1) /\ UNCHANGED live
    <3>1. f - 1 = 0 => \A g \in 1..Folders : AsBefore(g)
      BY <1>0, <2>1 DEF SwapInv, Forward
    <3> QED BY <1>0, <1>3, <2>1, <2>4, <3>1
  <2> QED BY <1>5, <2>2, <2>3, <2>4 DEF MoveAside
<1>6. CASE MoveIn
  <2>1. Swap("move") /\ updates' = updates /\ Progress = "forward"
    BY <1>6, ProgressIs DEF MoveIn, Swap
  <2>2. CASE SetLive(f, New) /\ IF f < Folders THEN SwapTo("clear", f + 1) ELSE SwapTo("drop", 1)
    <3>1. Keeps /\ update'.step \in {"clear", "drop"}
      <4>1. CASE f < Folders
        <5>1. f + 1 \in 1..Folders /\ SwapTo("clear", f + 1)
          BY <1>0, <2>2, <4>1
        <5> QED BY <2>1, <5>1, <1>0, SwapToIs DEF Swapping
      <4>2. CASE ~(f < Folders)
        BY <1>0, <2>1, <2>2, <4>2, SwapToIs
      <4> QED BY <4>1, <4>2
    <3>2. Progress' = "forward"
      BY <3>1, ProgressWillBe
    <3> QED BY <1>0, <2>1, <2>2, <3>1, <3>2, ForwardStep
  <2>3. CASE Undoes(f) /\ UNCHANGED live
    <3>1. f # 0
      BY <1>0
    <3> QED BY <1>0, <1>3, <2>1, <2>3, <3>1
  <2> QED BY <1>6, <2>2, <2>3 DEF MoveIn
<1>7. ASSUME Progress = "back", Stuck, updates' = updates, UNCHANGED live \/ SetLive(f, Torn)
      PROVE  Published!GoOn
  <2>1. Keeps /\ update'.step = "error" /\ update'.stuck
    BY <1>0, <1>7 DEF Stuck, SwapTypeOK, Update, Keeps
  <2>2. Progress' = "broken"
    BY <2>1, ProgressWillBe DEF Swap
  <2> QED BY <1>0, <1>7, <2>1, <2>2, BreakStep
<1>8. ASSUME Progress = "back", ~update.stuck, NextUndo(f), updates' = updates,
             Swap("error")' => update'.stuck \/ live' = update'.before,
             SetLive(f, Gone) \/ SetLive(f, update.before[f])
      PROVE  Published!GoOn
  <2>1. /\ Keeps /\ update'.step \in {"undo", "error"} /\ update'.stuck = update.stuck
    <3>1. CASE f < update.swapped
      <4>1. f + 1 \in 1..Folders /\ SwapTo("undo", f + 1)
        BY <1>0, <1>8, <3>1 DEF NextUndo
      <4> QED BY <1>0, <1>8, <4>1, SwapToIs DEF Undoing
    <3>2. CASE ~(f < update.swapped)
      <4>1. SwapTo("error", f)
        BY <1>8, <3>2 DEF NextUndo
      <4> QED BY <1>0, <1>8, <4>1, SwapToIs DEF Over
    <3> QED BY <3>1, <3>2
  <2>2. CASE update'.step = "undo"
    <3>1. Progress' = "back"
      BY <2>2, ProgressWillBe
    <3> QED BY <1>0, <1>8, <2>1, <3>1, BackStep
  <2>3. CASE update'.step = "error"
    <3>1. Progress' = "error" /\ live' = update.before
      BY <1>8, <2>1, <2>3, ProgressWillBe DEF Swap, Keeps
    <3> QED BY <1>0, <1>8, <2>1, <3>1, FailStep
  <2> QED BY <2>1, <2>2, <2>3
<1>9. CASE UndoMoveIn
  <2>1. Swap("undo") /\ updates' = updates /\ Progress = "back" /\ ~update.stuck
    BY <1>9, ProgressIs DEF UndoMoveIn, Swap, Unstuck, Updated, Over
  <2>2. CASE SetLive(f, Gone) /\ SwapTo("restore", f)
    <3>1. Keeps /\ update'.step = "restore"
      BY <1>0, <2>1, <2>2, SwapToIs DEF Undoing
    <3>2. Progress' = "back"
      BY <3>1, ProgressWillBe
    <3> QED BY <1>0, <2>1, <2>2, <3>1, <3>2, BackStep
  <2>3. CASE SetLive(f, Gone) /\ NextUndo(f)
    BY <1>8, <1>9, <2>1, <2>3, UndoMoveInInv
  <2>4. CASE Stuck /\ (UNCHANGED live \/ SetLive(f, Torn))
    BY <1>7, <2>1, <2>4
  <2> QED BY <1>9, <2>2, <2>3, <2>4 DEF UndoMoveIn
<1>10. CASE Restore
  <2>1. /\ Swap("restore") /\ updates' = updates /\ Progress = "back" /\ ~update.stuck
        /\ backup[f][Own] = update.before[f]
    <3>1. /\ Swap("restore") /\ updates' = updates /\ Progress = "back" /\ ~update.stuck
      BY <1>10, ProgressIs DEF Restore, Swap, Unstuck, Updated, Over
    <3>2. Saved(f) /\ f \in update.had
      <4>1. Backward /\ f \in 1..Folders
        BY <1>0 DEF SwapInv
      <4>2. f \in update.had /\ f <= update.swapped
        BY <3>1, <4>1 DEF Backward
      <4>3. ~(f < f \/ f > update.swapped)
        BY <1>0, <4>2
      <4>4. Saved(f)
        BY <3>1, <4>1, <4>3 DEF Backward
      <4> QED BY <4>2, <4>4
    <3> QED BY <3>1, <3>2 DEF Saved
  <2>2. CASE SetLive(f, backup[f][Own]) /\ NextUndo(f)
    BY <1>8, <1>10, <2>1, <2>2, RestoreInv
  <2>3. CASE Stuck /\ UNCHANGED live
    BY <1>7, <2>1, <2>3
  <2> QED BY <1>10, <2>2, <2>3 DEF Restore
<1>11. CASE Drop
  <2>1. /\ Swap("drop") /\ UNCHANGED <<live, updates>> /\ Progress = "forward" /\ AllNew
    BY <1>11, ProgressIs DEF Drop, Swap, SwapInv, Forward
  <2>2. Keeps /\ update'.step \in {"drop", "ok", "error"} /\ update'.stuck = update.stuck
    <3>1. CASE SwapTo("error", f)
      BY <1>0, <2>1, <3>1, SwapToIs DEF Over
    <3>2. CASE IF f < Folders THEN SwapTo("drop", f + 1) ELSE SwapTo("ok", f)
      <4>1. CASE f < Folders
        <5>1. f + 1 \in 1..Folders /\ SwapTo("drop", f + 1)
          BY <1>0, <3>2, <4>1
        <5> QED BY <1>0, <2>1, <5>1, SwapToIs
      <4>2. CASE ~(f < Folders)
        BY <1>0, <2>1, <3>2, <4>2, SwapToIs DEF Over
      <4> QED BY <4>1, <4>2
    <3> QED BY <1>11, <3>1, <3>2 DEF Drop
  <2>3. Progress' \in {"forward", "ok", "error", "broken"}
    BY <2>2, ProgressWillBe DEF Swap
  <2> QED BY <1>0, <2>1, <2>2, <2>3, ForwardStep, SucceedStep, FailStep, BreakStep
<1>12. CASE UpdateCutOff
  <2>1. SwapTo("cut off", f) /\ updates' = updates /\ ~Updated
    BY <1>12 DEF UpdateCutOff
  <2>2. Keeps /\ update'.step = "cut off"
    BY <1>0, <2>1, SwapToIs DEF Over
  <2>3. Progress' = "broken"
    BY <2>2, ProgressWillBe DEF Swap
  <2>4. Progress \in {"forward", "back"} /\ (Swap("undo") => Progress = "back")
    <3>1. update.step \in Swapping \cup Undoing \cup {"drop"}
      BY <1>0, <2>1 DEF SwapTypeOK, Update, Updated
    <3> QED BY <3>1 DEF Progress, Swap, Swapping, Undoing
  <2>5. UNCHANGED live \/ (Progress = "back" /\ SetLive(f, Torn))
    BY <1>12, <2>4 DEF UpdateCutOff
  <2> QED BY <1>0, <2>2, <2>3, <2>4, <2>5, BreakStep
<1> QED BY <1>1, <1>2, <1>4, <1>5, <1>6, <1>9, <1>10, <1>11, <1>12 DEF SwapNext

\* update-shares implements AtomicUpdates: for any number of folders, process ids and updates a
\* guest sees a folder as it was, as it will be, or not whole for the moment; all of them go
\* over or all go back; and none is lost (weaveShares.ts).
THEOREM ImplementsUpdates == SwapSpec => UpdatesSpec
<1>1. SwapInit => Published!Init /\ Unstuck
  <2> SUFFICES ASSUME SwapInit PROVE Published!Init /\ Unstuck
    OBVIOUS
  <2>1. SwapInv
    BY InitSwapInv, ShareSwapAssumption
  <2>2. /\ live = [g \in 1..Folders |-> 2] /\ updates = 0 /\ update.before = live
        /\ update.step = "ok" /\ ~update.stuck /\ ~update.again /\ update \in Update
    BY <2>1 DEF SwapInit, SwapInv, SwapTypeOK
  <2>3. AllNew
    BY <2>2 DEF AllNew, New
  <2>4. Showing(live) = Published!AllBuilt /\ Showing(update.before) = Showing(live)
    BY <2>1, <2>2, <2>3, ShowingValues, ShareSwapAssumption DEF SwapInv
  <2>5. Progress = "ok"
    BY <2>2 DEF Progress, Swap, Swapping, Undoing
  <2>6. \A g \in 1..Folders : Whole(live[g])
    BY <2>2 DEF Whole, Torn
  <2>7. update.again = FALSE
    BY <2>2 DEF Update
  <2> QED BY <2>2, <2>4, <2>5, <2>6, <2>7 DEF Published!Init, Unstuck
<1>2. /\ SwapInv /\ FoldersSurvive' /\ Unstuck /\ [SwapNext]_swapVars
      => Unstuck' /\ [Published!Next]_(Published!updateVars)
  <2> SUFFICES ASSUME SwapInv, FoldersSurvive', Unstuck, [SwapNext]_swapVars
               PROVE  Unstuck' /\ [Published!Next]_(Published!updateVars)
    OBVIOUS
  <2>1. CASE SwapNext
    <3>1. Published!Begin \/ Published!GoOn
      BY <2>1, StepPublished, ShareSwapAssumption
    <3>2. Unstuck'
      BY <2>1, UnstuckStays, ShareSwapAssumption
    <3> QED BY <3>1, <3>2 DEF FoldersSurvive, Published!Next
  <2>2. CASE UNCHANGED swapVars
    BY <2>2 DEF swapVars, Unstuck, Updated, Published!updateVars, Showing, Progress, Swap
  <2> QED BY <2>1, <2>2
<1> QED BY <1>1, <1>2, AlwaysSwapInv, NoFolderIsLost, PTL DEF SwapSpec, UpdatesSpec, Published!Spec

=============================================================================
