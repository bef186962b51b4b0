------------------------- MODULE WindowsSetup_proofs -------------------------
(***************************************************************************)
(* Safety of setup-guest-windows for any number of steps and any limits    *)
(* in the order WindowsSetupAssumption gives them.  A script is used only  *)
(* through the set of things it still has to do (Of).  The invariant says, *)
(* phase by phase, what the flow has reached (Path), and that a script may *)
(* touch a credential only while the ledger owns up to it (Careful).       *)
(***************************************************************************)
EXTENDS WindowsSetup, TLAPS

Of(s) == IF s = None THEN {} ELSE {s[i] : i \in DOMAIN s}

Touches(e) == e.do \in {"delete", "write", "drop"}
NoSteps(s) == \A e \in Of(s) : e.do # "step"

-----------------------------------------------------------------------------
\* The inductive invariant.

Shapes ==
  /\ pc \in Phases \cup Ending \cup {"report", "ended"}
  /\ steps \in [Steps -> Nat]
  /\ secret \in {None, "good", "bad"}
  /\ outcome \in {None, "success", "failure", "cancelled", "killed", "forced"}
  /\ ledger \in [Switches -> {"none", "written", "verified", "removed", "removal-failed"}]
  /\ open \subseteq Switches /\ cleaned \subseteq Switches
  /\ script \in {None} \cup Seq(Effect) /\ behind \in {None} \cup Seq(Effect)
  /\ stray \in BOOLEAN /\ hung \in BOOLEAN
  /\ job \in {"none", "query", "stop", "confirm", "connect", "start", "done", "failed"}
  /\ to \in Switches /\ switch \in Switches
  /\ power \in {"Running", "Stopping", "Off"}
  /\ pending \in BOOLEAN
  /\ cred \in [Switches -> {"none", "old", "good", "bad"}]
  /\ conn \subseteq Switches

\* In a phase nothing of the ending has begun, and a script is awaited where one is sent.
Fresh ==
  pc \in Phases =>
    /\ behind = None /\ ~stray /\ ~hung /\ cleaned = {}
    /\ t = 0 /\ since = 0 /\ interrupted = None /\ outcome = None
    /\ script # None <=> pc \in GuestWork

\* What a phase's script may do.
Belongs(e, p) ==
  \/ e.do = "lost"
  \/ /\ e.at = Address(p)
     /\ \/ e.do \in {"close", "delete", "write"} /\ p \in Writes
        \/ e.do = "open" /\ p \in Verifies
        \/ e.do = "step" /\ p \in Steps
        \/ e.do = "close" /\ p \in Closes

Scripted == pc \in Phases => \A e \in Of(script) : Belongs(e, pc)

\* What is written is a password the user has given.
Known == secret = None => \A e \in Of(script) \cup Of(behind) : e.do # "write"

\* What has been reached before a phase.
ToVerify == {"H1", "H2", "H3", "G1", "G2", "G3", "G4", "G4host", "G4write", "G4verify"}
AfterMove == {"G10", "G11", "G12", "G13", "G13close"}
AfterShare == {"G7", "G7host", "G8", "G9"} \cup AfterMove
AfterSteps == {"G6close"} \cup AfterShare
AfterVerify == {"G5", "G6"} \cup AfterSteps
BeforeAnswer == {"H1", "H2", "H3", "G1", "G2", "G3", "G4"}

Counted ==
  /\ pc \in AfterSteps => steps["G6"] = PreSteps
  /\ pc = "G6" => steps["G6"] < PreSteps
  /\ pc = "G13" => steps["G13"] < PostSteps
  /\ pc \in ToVerify \cup {"G5"} => steps["G6"] = 0
  /\ pc \in Phases \ {"G13", "G13close"} => steps["G13"] = 0
  /\ pc = "G13close" => steps["G13"] = PostSteps

Ledgered ==
  /\ pc \in Phases \ BeforeAnswer => secret # None
  /\ pc \in AfterVerify => ledger["default"] = "verified"
  /\ pc \in {"G4write", "G4verify"} => ledger["default"] = "written"
  /\ pc \in {"G8", "G9", "G10", "G11", "G12"} => ledger["internal"] = "written"
  /\ pc \in {"G13", "G13close"} => ledger["internal"] = "verified"
  /\ pc \in {"G7host", "G8", "G9"} => ~pending
  /\ pc \in AfterShare => "default" \notin open /\ "default" \notin conn

Placed ==
  /\ pc \in AfterMove => job = "done" /\ to = "internal"
  /\ pc = "G9" => to = "internal"
  /\ pc = "G2" => job = "done"
  /\ pc \in {"H1", "H2"} => job = "none"
  /\ pc \in Phases \ VmMoves => job \in {"none", "done"}
  /\ pc \in Phases /\ pc \notin AfterMove \cup {"G9"} => to = "default"

Path == Counted /\ Ledgered /\ Placed

\* Closing leaves no connection, or has not been done.
Closing ==
  /\ pc = "G6close" =>
       script \in {<<Doing("close", "default")>>, Lost} \/ (script = <<>> /\ "default" \notin conn)
  /\ pc = "G13close" =>
       script \in {<<Doing("close", "internal")>>, Lost} \/ (script = <<>> /\ "internal" \notin conn)

\* The move of the machine; to the Internal switch, what it has to wait for stays so.
MoveOrder ==
  /\ job \in {"connect", "start"} => power = "Off"
  /\ job = "start" => switch = to
  /\ job = "done" /\ to = "internal" => power = "Running" /\ switch = "internal"
  /\ to = "internal" =>
       steps["G6"] = PreSteps /\ ledger["default"] = "verified" /\ ledger["internal"] # "none"
  /\ to = "internal" /\ job \in {"query", "stop", "confirm", "connect"} =>
       ~pending /\ NoSteps(script) /\ NoSteps(behind)

\* The credential at address a is what the ledger l says.
Agrees(l, a) ==
  /\ l[a] = "none" => cred[a] \in {"none", "old"}
  /\ l[a] = "verified" => cred[a] = "good"
  /\ l[a] = "removed" => cred[a] = "none"

\* A script may still touch only what the ledger makes no promise of.
Careful ==
  ~stray =>
    /\ \A e \in Of(script) \cup Of(behind) : Touches(e) => ledger[e.at] \in {"written", "removal-failed"}
    /\ \A a \in Switches : Agrees(ledger, a)

Cleaning ==
  /\ pc = "drain" => script = None /\ cleaned = {}
  /\ pc = "cleaning" =>
       /\ script # None
       /\ \A e \in Of(script) : e.do \in {"lost", "drop", "close"} /\ (e.do = "close" => ledger[e.at] # "written")
       /\ ~stray => behind = None /\ \A a \in cleaned : ledger[a] = "written" => cred[a] = "none"
  /\ pc \in Ending \cup {"report"} => NoSteps(script)
  /\ pc = "dispose" \/ AtFooter => \A a \in Switches : ledger[a] # "written"

Success ==
  outcome = "success" =>
    /\ pc \in {"dispose", "report", "ended"} /\ script = None /\ behind = None /\ ~stray /\ ~hung
    /\ job = "done" /\ to = "internal"
    /\ steps["G6"] = PreSteps /\ steps["G13"] = PostSteps
    /\ \A a \in Switches : ledger[a] = "verified"
    /\ conn = {} /\ open = {}

\* A killed bridge that has not closed is one that the ending waits for.
Hanging ==
  hung => pc \in {"drain", "dispose", "report", "ended"} /\ (pc = "drain" => BridgeBehind)

Timing ==
  /\ t \in Nat /\ since \in 0 .. t /\ interrupted \in {None} \cup 0 .. t
  /\ pc \in {"drain", "cleaning"} => since = 0 /\ t <= CleanupBudget
  /\ since <= CleanupBudget

WInv ==
  /\ Shapes /\ Fresh /\ Scripted /\ Known /\ Path /\ Closing /\ MoveOrder /\ Careful /\ Cleaning
  /\ Success /\ Hanging /\ Timing /\ NothingLeftRunning

-----------------------------------------------------------------------------
\* Scripts as sets of effects.

LEMMA NoneIsNoScript == None \notin Seq(Effect) /\ None # <<>>
<1>1. None \notin Seq(Effect)
  BY WindowsSetupAssumption DEF Effect
<1>2. <<>> \in Seq(Effect)
  OBVIOUS
<1> QED BY <1>1, <1>2

LEMMA EffectOf ==
  ASSUME NEW d \in {"lost", "close", "delete", "write", "open", "step", "drop"}, NEW a \in Switches
  PROVE Doing(d, a) \in Effect /\ Doing(d, a).do = d /\ Doing(d, a).at = a
BY DEF Doing, Effect

\* A script has nothing to do, or something first and the rest after it.
LEMMA OfTail ==
  ASSUME NEW s \in Seq(Effect), s # <<>>
  PROVE /\ Tail(s) \in Seq(Effect) /\ Of(Tail(s)) \subseteq Of(s)
        /\ Head(s) \in Of(s) /\ Head(s) \in Effect
<1>1. Tail(s) \in Seq(Effect) /\ Head(s) \in Effect
  OBVIOUS
<1>2. Head(s) \in Of(s)
  BY NoneIsNoScript DEF Of
<1>3. ASSUME NEW e \in Of(Tail(s)) PROVE e \in Of(s)
  <2>1. PICK i \in DOMAIN Tail(s) : e = Tail(s)[i]
    BY <1>1, NoneIsNoScript DEF Of
  <2>2. i + 1 \in DOMAIN s /\ e = s[i + 1]
    BY <2>1
  <2> QED BY <2>2, NoneIsNoScript DEF Of
<1> QED BY <1>1, <1>2, <1>3

LEMMA OfEffects ==
  ASSUME NEW s \in {None} \cup Seq(Effect)
  PROVE  Of(s) \subseteq Effect
BY DEF Of

LEMMA OfNone == Of(None) = {} /\ Of(<<>>) = {}
BY NoneIsNoScript DEF Of

LEMMA OfOne ==
  ASSUME NEW x \in Effect
  PROVE <<x>> \in Seq(Effect) /\ <<x>> # <<>> /\ <<x>> # None /\ Of(<<x>>) = {x} /\ Tail(<<x>>) = <<>> /\ Head(<<x>>) = x
<1> DEFINE s == <<x>>
<1>1. s \in Seq(Effect)
  OBVIOUS
<1>2. DOMAIN s = {1} /\ s[1] = x /\ Len(s) = 1
  OBVIOUS
<1>3. Tail(s) = <<>> /\ s # <<>>
  BY <1>2
<1>4. Head(s) = x
  OBVIOUS
<1> HIDE DEF s
<1>5. s # None
  BY <1>1, NoneIsNoScript
<1>6. Of(s) = {x}
  BY <1>2, <1>5 DEF Of
<1> QED BY <1>1, <1>3, <1>4, <1>5, <1>6 DEF s

LEMMA OfThree ==
  ASSUME NEW x \in Effect, NEW y \in Effect, NEW z \in Effect
  PROVE <<x, y, z>> \in Seq(Effect) /\ <<x, y, z>> # None /\ Of(<<x, y, z>>) = {x, y, z}
<1> DEFINE s == <<x, y, z>>
<1>1. s \in Seq(Effect)
  OBVIOUS
<1>2. DOMAIN s = {1, 2, 3} /\ s[1] = x /\ s[2] = y /\ s[3] = z
  OBVIOUS
<1> HIDE DEF s
<1>3. s # None
  BY <1>1, NoneIsNoScript
<1>4. Of(s) = {x, y, z}
  BY <1>2, <1>3 DEF Of
<1> QED BY <1>1, <1>3, <1>4 DEF s

LEMMA OfTwo ==
  ASSUME NEW x \in Effect, NEW y \in Effect
  PROVE <<x>> \o <<y>> \in Seq(Effect) /\ Of(<<x>> \o <<y>>) = {x, y}
<1> DEFINE s == <<x>> \o <<y>>
<1>1. <<x>> \in Seq(Effect) /\ <<y>> \in Seq(Effect)
  OBVIOUS
<1>2. Len(s) = 2 /\ s[1] = x /\ s[2] = y
  OBVIOUS
<1>3. s \in Seq(Effect)
  BY <1>1
<1> HIDE DEF s
<1>4. DOMAIN s = {1, 2} /\ s # None
  BY <1>2, <1>3, NoneIsNoScript
<1>5. Of(s) = {x, y}
  BY <1>2, <1>4 DEF Of
<1> QED BY <1>3, <1>5 DEF s

LEMMA LostScript ==
  Lost \in Seq(Effect) /\ Lost # None /\ Lost # <<>> /\ \A e \in Of(Lost) : e.do = "lost"
<1> DEFINE x == Doing("lost", "default")
<1>1. x \in Effect /\ x.do = "lost"
  BY EffectOf DEF Switches
<1> HIDE DEF x
<1>2. Lost = <<x>>
  BY DEF Lost, x
<1> QED BY <1>1, <1>2, OfOne

\* What a phase sends is its own, and touches a credential only in a phase that writes.
LEMMA SentScript ==
  ASSUME NEW p \in GuestWork
  PROVE /\ Sent(ScriptOf(p)) \in Seq(Effect) /\ Sent(ScriptOf(p)) # None
        /\ \A e \in Of(Sent(ScriptOf(p))) : e \in Effect /\ Belongs(e, p)
        /\ p \in Closes => Sent(ScriptOf(p)) \in {<<Doing("close", Address(p))>>, Lost}
<1> DEFINE a == Address(p)
<1>a. a \in Switches
  BY DEF Address, Switches
<1>0. Lost \in Seq(Effect) /\ Lost # None /\ (\A e \in Of(Lost) : e \in Effect /\ e.do = "lost")
  BY LostScript DEF Of
<1>1. CASE p \in Writes
  <2> DEFINE x == Doing("close", a) y == Doing("delete", a) z == Doing("write", a)
  <2>1. /\ x \in Effect /\ x.do = "close" /\ x.at = a
        /\ y \in Effect /\ y.do = "delete" /\ y.at = a
        /\ z \in Effect /\ z.do = "write" /\ z.at = a
    BY <1>a, EffectOf
  <2>2. ScriptOf(p) = <<x, y, z>>
    BY <1>1 DEF ScriptOf
  <2>3. p \notin Closes
    BY <1>1 DEF Writes, Closes
  <2> HIDE DEF x, y, z, a
  <2>4. <<x, y, z>> \in Seq(Effect) /\ <<x, y, z>> # None /\ Of(<<x, y, z>>) = {x, y, z}
    BY <2>1, OfThree
  <2>5. \A e \in Of(<<x, y, z>>) : e \in Effect /\ Belongs(e, p)
    BY <2>1, <2>4, <1>1 DEF Belongs, a
  <2> QED BY <1>0, <2>2, <2>3, <2>4, <2>5 DEF Sent, Belongs
<1>2. ASSUME NEW d \in {"open", "step", "close"}, ScriptOf(p) = <<Doing(d, a)>>,
             d = "open" => p \in Verifies, d = "step" => p \in Steps, d = "close" => p \in Closes,
             p \in Closes => d = "close"
      PROVE /\ Sent(ScriptOf(p)) \in Seq(Effect) /\ Sent(ScriptOf(p)) # None
            /\ \A e \in Of(Sent(ScriptOf(p))) : e \in Effect /\ Belongs(e, p)
            /\ p \in Closes => Sent(ScriptOf(p)) \in {<<Doing("close", a)>>, Lost}
  <2> DEFINE x == Doing(d, a)
  <2>1. x \in Effect /\ x.do = d /\ x.at = a
    BY <1>a, EffectOf
  <2>2. ScriptOf(p) = <<x>> /\ (p \in Closes => x = Doing("close", a))
    BY <1>2
  <2> HIDE DEF x, a
  <2>3. <<x>> \in Seq(Effect) /\ <<x>> # None /\ Of(<<x>>) = {x}
    BY <2>1, OfOne
  <2>4. Belongs(x, p)
    BY <1>2, <2>1 DEF Belongs, a
  <2> QED BY <1>0, <2>1, <2>2, <2>3, <2>4 DEF Sent, Belongs
<1>3. CASE p \in Verifies
  <2>1. ScriptOf(p) = <<Doing("open", a)>> /\ p \notin Closes
    BY <1>3 DEF ScriptOf, Verifies, Writes, Closes
  <2> HIDE DEF a
  <2> QED BY <1>2, <1>3, <2>1 DEF a
<1>4. CASE p \in Steps
  <2>1. ScriptOf(p) = <<Doing("step", a)>> /\ p \notin Closes
    BY <1>4 DEF ScriptOf, Verifies, Writes, Steps, Closes
  <2> HIDE DEF a
  <2> QED BY <1>2, <1>4, <2>1 DEF a
<1>5. CASE p \in Closes
  <2>1. ScriptOf(p) = <<Doing("close", a)>>
    BY <1>5 DEF ScriptOf, Verifies, Writes, Steps, Closes
  <2> HIDE DEF a
  <2> QED BY <1>2, <1>5, <2>1 DEF a
<1>6. CASE p \notin Writes \cup Verifies \cup Steps \cup Closes
  <2>1. ScriptOf(p) = <<>>
    BY <1>6 DEF ScriptOf
  <2>2. <<>> \in Seq(Effect) /\ <<>> # None
    BY NoneIsNoScript
  <2> QED BY <1>0, <1>6, <2>1, <2>2, OfNone DEF Sent, Belongs
<1> QED BY <1>1, <1>3, <1>4, <1>5, <1>6

-----------------------------------------------------------------------------
\* From one phase to the next: what Path says of the next phase carries the rest.

LEMMA Entering ==
  ASSUME WInv, pc \in Phases, NEW p \in Phases, NEW o \in SUBSET Switches,
         NEW l \in [Switches -> {"none", "written", "verified", "removed", "removal-failed"}],
         Enter(p, l, o), UNCHANGED <<outcome, asideVars>>,
         steps' \in [Steps -> Nat], secret' \in {None, "good", "bad"},
         \A a \in Switches : Agrees(l, a), Path'
  PROVE  WInv'
<1>1. /\ behind = None /\ ~stray /\ ~hung /\ cleaned = {}
      /\ t = 0 /\ since = 0 /\ interrupted = None /\ outcome = None
  BY DEF WInv, Fresh
<1>2. /\ pc' = p /\ outcome' = None /\ behind' = None /\ ~stray' /\ ~hung' /\ cleaned' = {}
      /\ t' = 0 /\ since' = 0 /\ interrupted' = None
      /\ power' = power /\ switch' = switch /\ pending' = pending /\ cred' = cred /\ conn' = conn
  BY <1>1 DEF Enter, asideVars, timeVars, guestVars
<1>3. /\ p \in GuestWork => script' = Sent(ScriptOf(p))
      /\ p \notin GuestWork => script' = None
  BY DEF Enter
<1>4. /\ script' \in {None} \cup Seq(Effect) /\ (script' # None <=> p \in GuestWork)
      /\ \A e \in Of(script') : e \in Effect /\ Belongs(e, p)
      /\ p \in Closes => script' \in {<<Doing("close", Address(p))>>, Lost}
  <2>1. CASE p \in GuestWork
    BY <1>3, <2>1, SentScript, Zenon
  <2>2. CASE p \notin GuestWork
    <3>1. p \notin Closes
      BY <2>2 DEF GuestWork
    <3> QED BY <1>3, <2>2, <3>1, OfNone
  <2> QED BY <2>1, <2>2
<1>5. Address(p) \in Switches
  BY DEF Address, Switches
<1>6. /\ p \in Writes => ledger' = [l EXCEPT ![Address(p)] = "written"]
      /\ p \notin Writes => ledger' = l
  BY DEF Enter
<1>7. /\ ledger' \in [Switches -> {"none", "written", "verified", "removed", "removal-failed"}]
      /\ p \in Writes => ledger'[Address(p)] = "written"
      /\ \A a \in Switches : Agrees(l, a) => Agrees(ledger, a)'
  BY <1>2, <1>5, <1>6 DEF Agrees
<1>8. open' \subseteq Switches
  BY <1>5 DEF Enter
<1>9. /\ p \in VmMoves => job' = "query" /\ to' = IF p = "G1" THEN "default" ELSE "internal"
      /\ p \notin VmMoves => job' = job /\ to' = to
  BY DEF Enter
<1>10. Shapes'
  <2>1. job' \in {"none", "query", "stop", "confirm", "connect", "start", "done", "failed"} /\ to' \in Switches
    BY <1>9 DEF WInv, Shapes, Switches
  <2>2. /\ switch \in Switches /\ power \in {"Running", "Stopping", "Off"} /\ pending \in BOOLEAN
        /\ cred \in [Switches -> {"none", "old", "good", "bad"}] /\ conn \subseteq Switches
        /\ stray \in BOOLEAN /\ hung \in BOOLEAN
    BY DEF WInv, Shapes
  <2>3. /\ switch' \in Switches /\ power' \in {"Running", "Stopping", "Off"} /\ pending' \in BOOLEAN
        /\ cred' \in [Switches -> {"none", "old", "good", "bad"}] /\ conn' \subseteq Switches
        /\ stray' \in BOOLEAN /\ hung' \in BOOLEAN
    <3>1. stray' = stray /\ hung' = hung
      BY DEF asideVars
    <3> QED BY <1>2, <2>2, <3>1
  <2> QED BY <1>2, <1>4, <1>7, <1>8, <2>1, <2>3 DEF Shapes
<1>11. Fresh' /\ Hanging' /\ Timing'
  BY <1>2, <1>4, WindowsSetupAssumption DEF Fresh, Hanging, Timing
<1>12. Scripted'
  BY <1>2, <1>4 DEF Scripted
<1>12a. Known'
  <2>1. \A e \in Of(script') \cup Of(behind') : e.do = "write" => p \in Writes
    BY <1>2, <1>4, OfNone DEF Belongs
  <2>2. p \in Writes => secret' # None
    BY <1>2 DEF Path, Ledgered, Writes, BeforeAnswer
  <2> QED BY <2>1, <2>2 DEF Known
<1>13. Closing'
  <2>1. p = "G6close" => p \in Closes /\ Address(p) = "default"
    BY DEF Closes, Address
  <2>2. p = "G13close" => p \in Closes /\ Address(p) = "internal"
    BY DEF Closes, Address
  <2> QED BY <1>2, <1>4, <2>1, <2>2 DEF Closing
<1>14. MoveOrder'
  <2>1. to' = "internal" => p \in AfterMove \cup {"G9"}
    BY <1>2 DEF Path, Placed
  <2>2. to' = "internal" => steps'["G6"] = PreSteps /\ ledger'["default"] = "verified" /\ ledger'["internal"] # "none"
    BY <1>2, <2>1 DEF Path, Counted, Ledgered, AfterMove, AfterVerify, AfterSteps, AfterShare
  <2>3. CASE p \in VmMoves
    <3>1. script' = None /\ behind' = None
      BY <1>2, <1>3, <2>3 DEF VmMoves, GuestWork, Steps, Writes, Verifies, Closes
    <3>2. NoSteps(script)' /\ NoSteps(behind)'
      BY <3>1, OfNone DEF NoSteps
    <3>3. p # "G9" => to' = "default"
      BY <1>9, <2>3 DEF VmMoves
    <3>4. p = "G9" => ~pending'
      BY <1>2 DEF Path, Ledgered
    <3> QED BY <1>9, <2>2, <2>3, <3>2, <3>3, <3>4 DEF MoveOrder
  <2>4. CASE p \notin VmMoves
    <3>1. job' \in {"none", "done"} /\ job' = job /\ to' = to /\ power' = power /\ switch' = switch
      BY <1>2, <1>9, <2>4 DEF Path, Placed
    <3> QED BY <2>2, <3>1 DEF WInv, MoveOrder
  <2> QED BY <2>3, <2>4
<1>15. Careful'
  <2>1. \A e \in Of(script') : Touches(e) => ledger'[e.at] = "written"
    BY <1>4, <1>7 DEF Belongs, Touches
  <2> QED BY <1>2, <1>7, <2>1, OfNone DEF Careful
<1>16. Cleaning' /\ Success' /\ NothingLeftRunning'
  <2>1. p \notin Ending \cup {"report", "ended"}
    BY DEF Phases, Prompts, HostChecks, VmMoves, GuestWork, Steps, Writes, Verifies, Closes, Ending
  <2>2. None # "success"
    BY WindowsSetupAssumption
  <2> QED BY <1>2, <2>1, <2>2 DEF Cleaning, Success, NothingLeftRunning, AtFooter, Ending
<1> QED BY <1>10, <1>11, <1>12, <1>12a, <1>13, <1>14, <1>15, <1>16 DEF WInv

LEMMA Owns ==
  ASSUME WInv, pc \in Phases
  PROVE  \A a \in Switches : Agrees(ledger, a)
BY DEF WInv, Fresh, Careful

LEMMA GoingOn ==
  ASSUME WInv, pc \in Phases, NEW p \in Phases, Enter(p, ledger, open),
         UNCHANGED <<steps, outcome, asideVars>>, secret' \in {None, "good", "bad"}, Path'
  PROVE  WInv'
<1>1. /\ ledger \in [Switches -> {"none", "written", "verified", "removed", "removal-failed"}]
      /\ open \in SUBSET Switches /\ steps' \in [Steps -> Nat]
  BY DEF WInv, Shapes
<1>2. UNCHANGED <<outcome, asideVars>>
  OBVIOUS
<1>3. \A a \in Switches : Agrees(ledger, a)
  BY Owns
<1> QED BY <1>1, <1>2, <1>3, Entering

LEMMA PhasesAre ==
  Phases = {"H1", "H2", "H3", "G1", "G2", "G3", "G4", "G4host", "G4write", "G4verify", "G5", "G6",
            "G6close", "G7", "G7host", "G8", "G9", "G10", "G11", "G12", "G13", "G13close"}
BY DEF Phases, Prompts, HostChecks, VmMoves, GuestWork, Steps, Writes, Verifies, Closes

\* What Path' has to be shown from: every phase has one entry.
LEMMA Arriving ==
  ASSUME WInv, pc \in Phases, NEW p \in Phases, Enter(p, ledger, open), UNCHANGED asideVars, UNCHANGED steps
  PROVE  /\ pc' = p /\ steps' = steps /\ pending' = pending /\ conn' = conn
         /\ p = "G4write" => ledger'["default"] = "written" /\ ledger'["internal"] = ledger["internal"]
         /\ p = "G8" => ledger'["internal"] = "written" /\ ledger'["default"] = ledger["default"]
         /\ p \notin {"G4write", "G8"} => ledger' = ledger
         /\ p = "G4verify" => open' = open \cup {"default"}
         /\ p = "G12" => open' = open \cup {"internal"}
         /\ p \notin {"G4verify", "G12"} => open' = open
         /\ p = "G1" => job' = "query" /\ to' = "default"
         /\ p = "G9" => job' = "query" /\ to' = "internal"
         /\ p \notin {"G1", "G9"} => job' = job /\ to' = to
<1>1. ledger \in [Switches -> {"none", "written", "verified", "removed", "removal-failed"}]
  BY DEF WInv, Shapes
<1>2. "default" \in Switches /\ "internal" \in Switches
  BY DEF Switches
<1> QED BY <1>1, <1>2 DEF Enter, asideVars, guestVars, Writes, Verifies, VmMoves, Address

LEMMA Afters ==
  /\ After("H1") = "H2" /\ After("H2") = "H3" /\ After("H3") = "G1" /\ After("G1") = "G2"
  /\ After("G2") = "G3" /\ After("G3") = "G4" /\ After("G4") = "G4host" /\ After("G4host") = "G4write"
  /\ After("G4write") = "G4verify" /\ After("G4verify") = "G5" /\ After("G5") = "G6"
  /\ After("G6") = "G6close" /\ After("G6close") = "G7" /\ After("G7") = "G7host"
  /\ After("G7host") = "G8" /\ After("G8") = "G9" /\ After("G9") = "G10" /\ After("G10") = "G11"
  /\ After("G11") = "G12" /\ After("G13") = "G13close"
  /\ PostSteps > 0 => After("G12") = "G13"
  /\ ~(PostSteps > 0) => After("G12") = "G13close"
BY DEF After, Flow

LEMMA AnswerKeeps == ASSUME WInv, Answer PROVE WInv'
<1>0. Path /\ PreSteps \in Nat \ {0} /\ PostSteps \in Nat
  BY WindowsSetupAssumption DEF WInv
<1>1. CASE pc = "H1"
  <2>1. /\ Enter("H2", ledger, open) /\ UNCHANGED asideVars /\ UNCHANGED <<steps, outcome, asideVars>>
        /\ UNCHANGED steps /\ secret' = secret /\ secret' \in {None, "good", "bad"} /\ pc \in Phases /\ "H2" \in Phases
    BY <1>1, Afters, PhasesAre DEF Answer, Prompts, WInv, Shapes
  <2>2. Path'
    BY <1>0, <1>1, <2>1, Arriving DEF Path, Counted, Ledgered, Placed, ToVerify, AfterMove, AfterShare, AfterSteps, AfterVerify, BeforeAnswer, VmMoves
  <2> QED BY <2>1, <2>2, GoingOn
<1>2. CASE pc = "H3" /\ job = "done"
  <2>1. /\ Enter("G2", ledger, open) /\ UNCHANGED asideVars /\ UNCHANGED <<steps, outcome, asideVars>>
        /\ UNCHANGED steps /\ secret' = secret /\ secret' \in {None, "good", "bad"} /\ pc \in Phases /\ "G2" \in Phases
    BY <1>2, Afters, PhasesAre DEF Answer, Prompts, WInv, Shapes
  <2>2. Path'
    BY <1>0, <1>2, <2>1, Arriving DEF Path, Counted, Ledgered, Placed, ToVerify, AfterMove, AfterShare, AfterSteps, AfterVerify, BeforeAnswer, VmMoves
  <2> QED BY <2>1, <2>2, GoingOn
<1>3. CASE pc = "H3" /\ job # "done"
  <2>1. /\ Enter("G1", ledger, open) /\ UNCHANGED asideVars /\ UNCHANGED <<steps, outcome, asideVars>>
        /\ UNCHANGED steps /\ secret' = secret /\ secret' \in {None, "good", "bad"} /\ pc \in Phases /\ "G1" \in Phases
    BY <1>3, Afters, PhasesAre DEF Answer, Prompts, WInv, Shapes
  <2>2. Path'
    BY <1>0, <1>3, <2>1, Arriving DEF Path, Counted, Ledgered, Placed, ToVerify, AfterMove, AfterShare, AfterSteps, AfterVerify, BeforeAnswer, VmMoves
  <2> QED BY <2>1, <2>2, GoingOn
<1>4. CASE pc = "G4"
  <2>1. /\ Enter("G4host", ledger, open) /\ UNCHANGED asideVars /\ UNCHANGED <<steps, outcome, asideVars>>
        /\ UNCHANGED steps /\ secret' # None /\ secret' \in {None, "good", "bad"} /\ pc \in Phases /\ "G4host" \in Phases
    BY <1>4, Afters, WindowsSetupAssumption, PhasesAre DEF Answer, Prompts, WInv, Shapes
  <2>2. Path'
    BY <1>0, <1>4, <2>1, Arriving DEF Path, Counted, Ledgered, Placed, ToVerify, AfterMove, AfterShare, AfterSteps, AfterVerify, BeforeAnswer, VmMoves
  <2> QED BY <2>1, <2>2, GoingOn
<1> QED BY <1>1, <1>2, <1>3, <1>4 DEF Answer, Prompts

LEMMA HostCheckKeeps == ASSUME WInv, HostCheck PROVE WInv'
<1>0. Path /\ PreSteps \in Nat \ {0} /\ PostSteps \in Nat
  BY WindowsSetupAssumption DEF WInv
<1>1. CASE pc = "H2"
  <2>1. /\ Enter("H3", ledger, open) /\ UNCHANGED asideVars /\ UNCHANGED <<steps, outcome, asideVars>>
        /\ UNCHANGED steps /\ secret' = secret /\ secret' \in {None, "good", "bad"} /\ pc \in Phases /\ "H3" \in Phases
    BY <1>1, Afters, PhasesAre DEF HostCheck, HostChecks, GoesOn, WInv, Shapes
  <2>2. Path'
    BY <1>0, <1>1, <2>1, Arriving DEF Path, Counted, Ledgered, Placed, ToVerify, AfterMove, AfterShare, AfterSteps, AfterVerify, BeforeAnswer, VmMoves
  <2> QED BY <2>1, <2>2, GoingOn
<1>2. CASE pc = "G4host"
  <2>1. /\ Enter("G4write", ledger, open) /\ UNCHANGED asideVars /\ UNCHANGED <<steps, outcome, asideVars>>
        /\ UNCHANGED steps /\ secret' = secret /\ secret' \in {None, "good", "bad"} /\ pc \in Phases /\ "G4write" \in Phases
    BY <1>2, Afters, PhasesAre DEF HostCheck, HostChecks, GoesOn, WInv, Shapes
  <2>2. Path'
    BY <1>0, <1>2, <2>1, Arriving DEF Path, Counted, Ledgered, Placed, ToVerify, AfterMove, AfterShare, AfterSteps, AfterVerify, BeforeAnswer, VmMoves
  <2> QED BY <2>1, <2>2, GoingOn
<1>3. CASE pc = "G7host"
  <2>1. /\ Enter("G8", ledger, open) /\ UNCHANGED asideVars /\ UNCHANGED <<steps, outcome, asideVars>>
        /\ UNCHANGED steps /\ secret' = secret /\ secret' \in {None, "good", "bad"} /\ pc \in Phases /\ "G8" \in Phases
    BY <1>3, Afters, PhasesAre DEF HostCheck, HostChecks, GoesOn, WInv, Shapes
  <2>2. Path'
    BY <1>0, <1>3, <2>1, Arriving DEF Path, Counted, Ledgered, Placed, ToVerify, AfterMove, AfterShare, AfterSteps, AfterVerify, BeforeAnswer, VmMoves
  <2> QED BY <2>1, <2>2, GoingOn
<1> QED BY <1>1, <1>2, <1>3 DEF HostCheck, HostChecks

LEMMA MovedKeeps == ASSUME WInv, Moved PROVE WInv'
<1>0. Path /\ PreSteps \in Nat \ {0} /\ PostSteps \in Nat /\ job = "done"
  BY WindowsSetupAssumption DEF WInv, Moved
<1>1. CASE pc = "G1"
  <2>1. /\ Enter("G2", ledger, open) /\ UNCHANGED asideVars /\ UNCHANGED <<steps, outcome, asideVars>>
        /\ UNCHANGED steps /\ secret' = secret /\ secret' \in {None, "good", "bad"} /\ pc \in Phases /\ "G2" \in Phases
    BY <1>1, Afters, PhasesAre DEF Moved, VmMoves, GoesOn, WInv, Shapes
  <2>2. Path'
    BY <1>0, <1>1, <2>1, Arriving DEF Path, Counted, Ledgered, Placed, ToVerify, AfterMove, AfterShare, AfterSteps, AfterVerify, BeforeAnswer, VmMoves
  <2> QED BY <2>1, <2>2, GoingOn
<1>2. CASE pc = "G9"
  <2>1. /\ Enter("G10", ledger, open) /\ UNCHANGED asideVars /\ UNCHANGED <<steps, outcome, asideVars>>
        /\ UNCHANGED steps /\ secret' = secret /\ secret' \in {None, "good", "bad"} /\ pc \in Phases /\ "G10" \in Phases
    BY <1>2, Afters, PhasesAre DEF Moved, VmMoves, GoesOn, WInv, Shapes
  <2>2. Path'
    BY <1>0, <1>2, <2>1, Arriving DEF Path, Counted, Ledgered, Placed, ToVerify, AfterMove, AfterShare, AfterSteps, AfterVerify, BeforeAnswer, VmMoves
  <2> QED BY <2>1, <2>2, GoingOn
<1> QED BY <1>1, <1>2 DEF Moved, VmMoves

LEMMA WorkDoneKeeps == ASSUME WInv, WorkDone PROVE WInv'
<1>0. Path /\ PreSteps \in Nat \ {0} /\ PostSteps \in Nat /\ (pc = "G7" => ~pending)
  BY WindowsSetupAssumption DEF WInv, WorkDone, Passes
<1>1. CASE pc = "G2"
  <2>1. /\ Enter("G3", ledger, open) /\ UNCHANGED asideVars /\ UNCHANGED <<steps, outcome, asideVars>>
        /\ UNCHANGED steps /\ secret' = secret /\ secret' \in {None, "good", "bad"} /\ pc \in Phases /\ "G3" \in Phases
    BY <1>1, Afters, PhasesAre DEF WorkDone, GoesOn, WInv, Shapes
  <2>2. Path'
    BY <1>0, <1>1, <2>1, Arriving DEF Path, Counted, Ledgered, Placed, ToVerify, AfterMove, AfterShare, AfterSteps, AfterVerify, BeforeAnswer, VmMoves
  <2> QED BY <2>1, <2>2, GoingOn
<1>2. CASE pc = "G3"
  <2>1. /\ Enter("G4", ledger, open) /\ UNCHANGED asideVars /\ UNCHANGED <<steps, outcome, asideVars>>
        /\ UNCHANGED steps /\ secret' = secret /\ secret' \in {None, "good", "bad"} /\ pc \in Phases /\ "G4" \in Phases
    BY <1>2, Afters, PhasesAre DEF WorkDone, GoesOn, WInv, Shapes
  <2>2. Path'
    BY <1>0, <1>2, <2>1, Arriving DEF Path, Counted, Ledgered, Placed, ToVerify, AfterMove, AfterShare, AfterSteps, AfterVerify, BeforeAnswer, VmMoves
  <2> QED BY <2>1, <2>2, GoingOn
<1>3. CASE pc = "G4write"
  <2>1. /\ Enter("G4verify", ledger, open) /\ UNCHANGED asideVars /\ UNCHANGED <<steps, outcome, asideVars>>
        /\ UNCHANGED steps /\ secret' = secret /\ secret' \in {None, "good", "bad"} /\ pc \in Phases /\ "G4verify" \in Phases
    BY <1>3, Afters, PhasesAre DEF WorkDone, GoesOn, WInv, Shapes
  <2>2. Path'
    BY <1>0, <1>3, <2>1, Arriving DEF Path, Counted, Ledgered, Placed, ToVerify, AfterMove, AfterShare, AfterSteps, AfterVerify, BeforeAnswer, VmMoves
  <2> QED BY <2>1, <2>2, GoingOn
<1>4. CASE pc = "G5"
  <2>1. /\ Enter("G6", ledger, open) /\ UNCHANGED asideVars /\ UNCHANGED <<steps, outcome, asideVars>>
        /\ UNCHANGED steps /\ secret' = secret /\ secret' \in {None, "good", "bad"} /\ pc \in Phases /\ "G6" \in Phases
    BY <1>4, Afters, PhasesAre DEF WorkDone, GoesOn, WInv, Shapes
  <2>2. Path'
    BY <1>0, <1>4, <2>1, Arriving DEF Path, Counted, Ledgered, Placed, ToVerify, AfterMove, AfterShare, AfterSteps, AfterVerify, BeforeAnswer, VmMoves
  <2> QED BY <2>1, <2>2, GoingOn
<1>5. CASE pc = "G7"
  <2>1. /\ Enter("G7host", ledger, open) /\ UNCHANGED asideVars /\ UNCHANGED <<steps, outcome, asideVars>>
        /\ UNCHANGED steps /\ secret' = secret /\ secret' \in {None, "good", "bad"} /\ pc \in Phases /\ "G7host" \in Phases
    BY <1>5, Afters, PhasesAre DEF WorkDone, GoesOn, WInv, Shapes
  <2>2. Path'
    BY <1>0, <1>5, <2>1, Arriving DEF Path, Counted, Ledgered, Placed, ToVerify, AfterMove, AfterShare, AfterSteps, AfterVerify, BeforeAnswer, VmMoves
  <2> QED BY <2>1, <2>2, GoingOn
<1>6. CASE pc = "G8"
  <2>1. /\ Enter("G9", ledger, open) /\ UNCHANGED asideVars /\ UNCHANGED <<steps, outcome, asideVars>>
        /\ UNCHANGED steps /\ secret' = secret /\ secret' \in {None, "good", "bad"} /\ pc \in Phases /\ "G9" \in Phases
    BY <1>6, Afters, PhasesAre DEF WorkDone, GoesOn, WInv, Shapes
  <2>2. Path'
    BY <1>0, <1>6, <2>1, Arriving DEF Path, Counted, Ledgered, Placed, ToVerify, AfterMove, AfterShare, AfterSteps, AfterVerify, BeforeAnswer, VmMoves
  <2> QED BY <2>1, <2>2, GoingOn
<1>7. CASE pc = "G10"
  <2>1. /\ Enter("G11", ledger, open) /\ UNCHANGED asideVars /\ UNCHANGED <<steps, outcome, asideVars>>
        /\ UNCHANGED steps /\ secret' = secret /\ secret' \in {None, "good", "bad"} /\ pc \in Phases /\ "G11" \in Phases
    BY <1>7, Afters, PhasesAre DEF WorkDone, GoesOn, WInv, Shapes
  <2>2. Path'
    BY <1>0, <1>7, <2>1, Arriving DEF Path, Counted, Ledgered, Placed, ToVerify, AfterMove, AfterShare, AfterSteps, AfterVerify, BeforeAnswer, VmMoves
  <2> QED BY <2>1, <2>2, GoingOn
<1>8. CASE pc = "G11"
  <2>1. /\ Enter("G12", ledger, open) /\ UNCHANGED asideVars /\ UNCHANGED <<steps, outcome, asideVars>>
        /\ UNCHANGED steps /\ secret' = secret /\ secret' \in {None, "good", "bad"} /\ pc \in Phases /\ "G12" \in Phases
    BY <1>8, Afters, PhasesAre DEF WorkDone, GoesOn, WInv, Shapes
  <2>2. Path'
    BY <1>0, <1>8, <2>1, Arriving DEF Path, Counted, Ledgered, Placed, ToVerify, AfterMove, AfterShare, AfterSteps, AfterVerify, BeforeAnswer, VmMoves
  <2> QED BY <2>1, <2>2, GoingOn
<1> QED BY <1>1, <1>2, <1>3, <1>4, <1>5, <1>6, <1>7, <1>8 DEF WorkDone, GuestWork, Steps, Verifies, Closes, Writes

LEMMA GuestRejectsKeeps == ASSUME WInv, GuestRejects PROVE WInv'
<1>0. Path /\ PreSteps \in Nat \ {0} /\ PostSteps \in Nat
  BY WindowsSetupAssumption DEF WInv
<1>1. CASE pc = "G2"
  <2>1. /\ Enter("H3", ledger, open) /\ UNCHANGED asideVars /\ UNCHANGED <<steps, outcome, asideVars>>
        /\ UNCHANGED steps /\ secret' = secret /\ secret' \in {None, "good", "bad"} /\ pc \in Phases /\ "H3" \in Phases
    BY <1>1, Afters, PhasesAre DEF GuestRejects, HasResult, WInv, Shapes
  <2>2. Path'
    BY <1>0, <1>1, <2>1, Arriving DEF Path, Counted, Ledgered, Placed, ToVerify, AfterMove, AfterShare, AfterSteps, AfterVerify, BeforeAnswer, VmMoves
  <2> QED BY <2>1, <2>2, GoingOn
<1> QED BY <1>1 DEF GuestRejects, HasResult

LEMMA WrongPasswordKeeps == ASSUME WInv, WrongPassword PROVE WInv'
<1>0. Path /\ PreSteps \in Nat \ {0} /\ PostSteps \in Nat
  BY WindowsSetupAssumption DEF WInv
<1>1. CASE pc = "G4verify"
  <2>1. /\ Enter("G4", ledger, open) /\ UNCHANGED asideVars /\ UNCHANGED <<steps, outcome, asideVars>>
        /\ UNCHANGED steps /\ secret' = secret /\ secret' \in {None, "good", "bad"} /\ pc \in Phases /\ "G4" \in Phases
    BY <1>1, Afters, PhasesAre DEF WrongPassword, HasResult, WInv, Shapes
  <2>2. Path'
    BY <1>0, <1>1, <2>1, Arriving DEF Path, Counted, Ledgered, Placed, ToVerify, AfterMove, AfterShare, AfterSteps, AfterVerify, BeforeAnswer, VmMoves
  <2> QED BY <2>1, <2>2, GoingOn
<1> QED BY <1>1 DEF WrongPassword, HasResult

\* A step more of the directory, or the phase after it.
LEMMA StepDoneKeeps == ASSUME WInv, StepDone PROVE WInv'
<1>0. /\ Path /\ PreSteps \in Nat \ {0} /\ PostSteps \in Nat /\ pc \in Phases
      /\ ledger \in [Switches -> {"none", "written", "verified", "removed", "removal-failed"}]
      /\ open \in SUBSET Switches /\ steps \in [Steps -> Nat] /\ secret \in {None, "good", "bad"}
  BY WindowsSetupAssumption, PhasesAre DEF WInv, Shapes, StepDone, Steps
<1>1. \A a \in Switches : Agrees(ledger, a)
  BY <1>0, Owns
<1>2. /\ pc \in Steps /\ steps' = [steps EXCEPT ![pc] = @ + 1] /\ steps' \in [Steps -> Nat] /\ secret' = secret
      /\ UNCHANGED <<outcome, asideVars>> /\ UNCHANGED asideVars
      /\ steps[pc] + 1 < StepsOf(pc) => Enter(pc, ledger, open)
      /\ ~(steps[pc] + 1 < StepsOf(pc)) => Enter(After(pc), ledger, open)
  BY <1>0 DEF StepDone, GoesOn, MoreSteps
<1>3. ASSUME NEW p \in {pc, After(pc)}, Enter(p, ledger, open), p \in Phases \ {"G4write", "G8", "G4verify", "G12", "G1", "G9"}
      PROVE  /\ pc' = p /\ secret' = secret /\ pending' = pending /\ conn' = conn
             /\ ledger' = ledger /\ open' = open /\ job' = job /\ to' = to
  BY <1>2, <1>3, PhasesAre DEF Enter, asideVars, guestVars, Writes, Verifies, VmMoves
<1>4. ASSUME NEW p \in Phases, Enter(p, ledger, open), Path' PROVE WInv'
  <2>1. UNCHANGED <<outcome, asideVars>>
    BY <1>2
  <2>2. steps' \in [Steps -> Nat] /\ secret' \in {None, "good", "bad"}
    BY <1>0, <1>2
  <2> QED BY <1>0, <1>1, <1>4, <2>1, <2>2, Entering
<1>5. CASE pc = "G6"
  <2>1. steps'["G6"] = steps["G6"] + 1 /\ steps'["G13"] = steps["G13"] /\ steps["G6"] \in Nat /\ StepsOf("G6") = PreSteps
    BY <1>0, <1>2, <1>5 DEF Steps, StepsOf
  <2>2. CASE steps["G6"] + 1 < PreSteps
    <3>1. Enter("G6", ledger, open) /\ "G6" \in Phases
      BY <1>2, <1>5, <2>1, <2>2, PhasesAre
    <3>2. Path'
      BY <1>0, <1>3, <1>5, <2>1, <2>2, <3>1 DEF Path, Counted, Ledgered, Placed, ToVerify, AfterMove, AfterShare, AfterSteps, AfterVerify, BeforeAnswer, VmMoves
    <3> QED BY <1>4, <3>1, <3>2
  <2>3. CASE ~(steps["G6"] + 1 < PreSteps)
    <3>1. Enter("G6close", ledger, open) /\ "G6close" \in Phases
      BY <1>2, <1>5, <2>1, <2>3, Afters, PhasesAre
    <3>2. Path'
      BY <1>0, <1>3, <1>5, <2>1, <2>3, <3>1, Afters DEF Path, Counted, Ledgered, Placed, ToVerify, AfterMove, AfterShare, AfterSteps, AfterVerify, BeforeAnswer, VmMoves
    <3> QED BY <1>4, <3>1, <3>2
  <2> QED BY <2>2, <2>3
<1>6. CASE pc = "G13"
  <2>1. steps'["G13"] = steps["G13"] + 1 /\ steps'["G6"] = steps["G6"] /\ steps["G13"] \in Nat /\ StepsOf("G13") = PostSteps
    BY <1>0, <1>2, <1>6 DEF Steps, StepsOf
  <2>2. CASE steps["G13"] + 1 < PostSteps
    <3>1. Enter("G13", ledger, open) /\ "G13" \in Phases
      BY <1>2, <1>6, <2>1, <2>2, PhasesAre
    <3>2. Path'
      BY <1>0, <1>3, <1>6, <2>1, <2>2, <3>1 DEF Path, Counted, Ledgered, Placed, ToVerify, AfterMove, AfterShare, AfterSteps, AfterVerify, BeforeAnswer, VmMoves
    <3> QED BY <1>4, <3>1, <3>2
  <2>3. CASE ~(steps["G13"] + 1 < PostSteps)
    <3>1. Enter("G13close", ledger, open) /\ "G13close" \in Phases
      BY <1>2, <1>6, <2>1, <2>3, Afters, PhasesAre
    <3>2. Path'
      BY <1>0, <1>3, <1>6, <2>1, <2>3, <3>1, Afters DEF Path, Counted, Ledgered, Placed, ToVerify, AfterMove, AfterShare, AfterSteps, AfterVerify, BeforeAnswer, VmMoves
    <3> QED BY <1>4, <3>1, <3>2
  <2> QED BY <2>2, <2>3
<1> QED BY <1>2, <1>5, <1>6 DEF Steps

LEMMA VerifiedKeeps == ASSUME WInv, Verified PROVE WInv'
<1>0. /\ Path /\ PreSteps \in Nat \ {0} /\ PostSteps \in Nat /\ pc \in Phases
      /\ ledger \in [Switches -> {"none", "written", "verified", "removed", "removal-failed"}]
      /\ open \in SUBSET Switches /\ steps \in [Steps -> Nat] /\ secret \in {None, "good", "bad"}
  BY WindowsSetupAssumption, PhasesAre DEF WInv, Shapes, Verified, Verifies
<1> DEFINE l == [ledger EXCEPT ![Address(pc)] = "verified"]
<1>1. /\ pc \in Verifies /\ cred[Address(pc)] = "good" /\ Enter(After(pc), l, open)
      /\ UNCHANGED <<outcome, asideVars>> /\ UNCHANGED asideVars /\ steps' = steps /\ secret' = secret
  BY DEF Verified, GoesOn
<1>2. Address(pc) \in Switches /\ "default" \in Switches /\ "internal" \in Switches
  BY DEF Address, Switches
<1>3. /\ l \in [Switches -> {"none", "written", "verified", "removed", "removal-failed"}]
      /\ l[Address(pc)] = "verified" /\ \A a \in Switches : a # Address(pc) => l[a] = ledger[a]
  BY <1>0, <1>2
<1> HIDE DEF l
<1>4. \A a \in Switches : Agrees(l, a)
  BY <1>0, <1>1, <1>3, Owns DEF Agrees
<1>5. ASSUME NEW p \in Phases, p = After(pc), Path' PROVE WInv'
  <2>1. UNCHANGED <<outcome, asideVars>> /\ Enter(p, l, open)
    BY <1>1, <1>5
  <2>2. steps' \in [Steps -> Nat] /\ secret' \in {None, "good", "bad"}
    BY <1>0, <1>1
  <2> QED BY <1>0, <1>3, <1>4, <1>5, <2>1, <2>2, Entering
<1>6. ASSUME NEW p \in Phases \ {"G4write", "G8", "G4verify", "G12", "G1", "G9"}, p = After(pc)
      PROVE  /\ pc' = p /\ pending' = pending /\ conn' = conn
             /\ ledger' = l /\ open' = open /\ job' = job /\ to' = to
  BY <1>1, <1>6, PhasesAre DEF Enter, asideVars, guestVars, Writes, Verifies, VmMoves
<1>7. CASE pc = "G4verify"
  <2>1. "G5" \in Phases \ {"G4write", "G8", "G4verify", "G12", "G1", "G9"} /\ "G5" = After(pc) /\ Address(pc) = "default"
    BY <1>7, Afters, PhasesAre DEF Address
  <2>2. Path'
    BY <1>0, <1>1, <1>2, <1>3, <1>6, <1>7, <2>1 DEF Path, Counted, Ledgered, Placed, ToVerify, AfterMove, AfterShare, AfterSteps, AfterVerify, BeforeAnswer, VmMoves
  <2> QED BY <1>5, <2>1, <2>2
<1>8. CASE pc = "G12" /\ PostSteps > 0
  <2>1. "G13" \in Phases \ {"G4write", "G8", "G4verify", "G12", "G1", "G9"} /\ "G13" = After(pc) /\ Address(pc) = "internal"
    BY <1>8, Afters, PhasesAre DEF Address
  <2>2. Path'
    BY <1>0, <1>1, <1>2, <1>3, <1>6, <1>8, <2>1, PhasesAre DEF Path, Counted, Ledgered, Placed, ToVerify, AfterMove, AfterShare, AfterSteps, AfterVerify, BeforeAnswer, VmMoves
  <2> QED BY <1>5, <2>1, <2>2
<1>9. CASE pc = "G12" /\ ~(PostSteps > 0)
  <2>1. "G13close" \in Phases \ {"G4write", "G8", "G4verify", "G12", "G1", "G9"} /\ "G13close" = After(pc) /\ Address(pc) = "internal"
    BY <1>9, Afters, PhasesAre DEF Address
  <2>2. Path'
    BY <1>0, <1>1, <1>2, <1>3, <1>6, <1>9, <2>1, PhasesAre DEF Path, Counted, Ledgered, Placed, ToVerify, AfterMove, AfterShare, AfterSteps, AfterVerify, BeforeAnswer, VmMoves
  <2> QED BY <1>5, <2>1, <2>2
<1> QED BY <1>1, <1>7, <1>8, <1>9 DEF Verifies


\* The connection is closed: on to G7, or the end.
LEMMA ClosedOnKeeps == ASSUME WInv, Closed, pc = "G6close" PROVE WInv'
<1>0. /\ Path /\ PreSteps \in Nat \ {0} /\ PostSteps \in Nat /\ pc \in Phases /\ Closing
      /\ ledger \in [Switches -> {"none", "written", "verified", "removed", "removal-failed"}]
      /\ open \in SUBSET Switches /\ steps \in [Steps -> Nat] /\ secret \in {None, "good", "bad"}
  BY WindowsSetupAssumption, PhasesAre DEF WInv, Shapes
<1>1. /\ script = <<>> /\ Enter("G7", ledger, open \ {"default"})
      /\ UNCHANGED <<outcome, asideVars>> /\ UNCHANGED asideVars /\ steps' = steps /\ secret' = secret
  BY Afters DEF Closed, GoesOn, HasResult
<1>2. /\ pc' = "G7" /\ pending' = pending /\ conn' = conn
      /\ ledger' = ledger /\ open' = open \ {"default"} /\ job' = job /\ to' = to
  BY <1>1 DEF Enter, asideVars, guestVars, Writes, Verifies, VmMoves
<1>3. "default" \notin conn
  <2>1. <<Doing("close", "default")>> # <<>> /\ Lost # <<>>
    BY EffectOf, OfOne, LostScript DEF Switches
  <2> QED BY <1>0, <1>1, <2>1 DEF Closing
<1>4. Path'
  BY <1>0, <1>1, <1>2, <1>3 DEF Path, Counted, Ledgered, Placed, ToVerify, AfterMove, AfterShare, AfterSteps, AfterVerify, BeforeAnswer, VmMoves
<1>5. /\ \A a \in Switches : Agrees(ledger, a)
      /\ "G7" \in Phases /\ open \ {"default"} \in SUBSET Switches
      /\ steps' \in [Steps -> Nat] /\ secret' \in {None, "good", "bad"}
  BY <1>0, <1>1, Owns, PhasesAre
<1>6. UNCHANGED <<outcome, asideVars>>
  BY <1>1
<1> QED BY <1>0, <1>1, <1>4, <1>5, <1>6, Entering

-----------------------------------------------------------------------------
\* The end of the phases: what the flow awaited is left behind, or has been given up.

LEMMA Ends ==
  ASSUME WInv, pc \in Phases, NEW o \in SUBSET Switches,
         NEW x \in {"success", "failure", "cancelled"}, EndsWith(x, ledger, o),
         behind' \in {behind, script}, interrupted' \in {interrupted, 0}, job' = job, to' = to,
         x = "success" =>
           /\ job = "done" /\ to = "internal" /\ behind' = None
           /\ steps["G6"] = PreSteps /\ steps["G13"] = PostSteps
           /\ \A a \in Switches : ledger[a] = "verified"
           /\ conn = {} /\ o = {}
  PROVE  WInv'
<1>1. /\ behind = None /\ ~stray /\ ~hung /\ cleaned = {}
      /\ interrupted = None /\ outcome = None
  BY DEF WInv, Fresh
<1>2. /\ outcome' = x /\ pc' \in {"dispose", "drain"} /\ ledger' = ledger /\ open' = o
      /\ script' = None /\ t' = 0 /\ since' = 0 /\ steps' = steps /\ secret' = secret
      /\ stray' = stray /\ hung' = hung /\ cleaned' = {} /\ power' = power /\ switch' = switch
      /\ pending' = pending /\ cred' = cred /\ conn' = conn
      /\ pc' = "dispose" => Unverified(ledger) = {}
      /\ pc' = "drain" => Items(ledger, o) # {}
  BY <1>1 DEF EndsWith, guestVars, Items
<1>3. pc' \notin Phases /\ pc' \notin {"report", "ended", "cleaning"}
  BY <1>2, PhasesAre
<1>4. Of(behind') \subseteq Of(script) \cup Of(behind) /\ Of(script') = {}
  BY <1>2, OfNone
<1>5. Shapes'
  <2>1. behind' \in {None} \cup Seq(Effect)
    BY DEF WInv, Shapes
  <2>2. stray' \in BOOLEAN /\ hung' \in BOOLEAN
    BY <1>2 DEF WInv, Shapes
  <2>3. /\ job' \in {"none", "query", "stop", "confirm", "connect", "start", "done", "failed"}
        /\ to' \in Switches /\ switch' \in Switches
        /\ power' \in {"Running", "Stopping", "Off"}
        /\ pending' \in BOOLEAN
        /\ cred' \in [Switches -> {"none", "old", "good", "bad"}]
        /\ conn' \subseteq Switches
    BY <1>2 DEF WInv, Shapes
  <2>4. /\ ledger' \in [Switches -> {"none", "written", "verified", "removed", "removal-failed"}]
        /\ steps' \in [Steps -> Nat] /\ secret' \in {None, "good", "bad"}
    BY <1>2 DEF WInv, Shapes
  <2> QED BY <1>2, <2>1, <2>2, <2>3, <2>4 DEF Shapes, Ending
<1>6. Fresh' /\ Scripted' /\ Known' /\ Path' /\ Closing'
  <2>1. Path'
    BY <1>3, PhasesAre DEF Path, Counted, Ledgered, Placed, ToVerify, AfterMove, AfterShare, AfterSteps, AfterVerify, BeforeAnswer
  <2>2. pc' \notin {"G6close", "G13close"}
    BY <1>2
  <2>3. Known'
    BY <1>2, <1>4 DEF WInv, Known
  <2> QED BY <1>3, <2>1, <2>2, <2>3 DEF Fresh, Scripted, Closing
<1>7. MoveOrder'
  <2>1. NoSteps(script) /\ NoSteps(behind) => NoSteps(script)' /\ NoSteps(behind)'
    BY <1>4 DEF NoSteps
  <2> QED BY <1>2, <2>1 DEF WInv, MoveOrder
<1>8. Careful'
  <2>1. /\ \A e \in Of(script) \cup Of(behind) : Touches(e) => ledger[e.at] \in {"written", "removal-failed"}
        /\ \A a \in Switches : Agrees(ledger, a)
    BY <1>1 DEF WInv, Careful
  <2>2. \A a \in Switches : Agrees(ledger, a)'
    BY <1>2, <2>1 DEF Agrees
  <2> QED BY <1>2, <1>4, <2>1, <2>2 DEF Careful
<1>9. Cleaning'
  <2>1. ~AtFooter'
    BY <1>3 DEF AtFooter
  <2>2. pc' = "dispose" => \A a \in Switches : ledger'[a] # "written"
    BY <1>2 DEF Unverified
  <2> QED BY <1>2, <1>3, <1>4, <2>1, <2>2 DEF Cleaning, NoSteps
<1>10. Success'
  <2>1. x = "success" => pc' = "dispose"
    BY <1>2 DEF Items, Unverified
  <2> QED BY <1>1, <1>2, <2>1 DEF Success
<1>11. Hanging' /\ Timing' /\ NothingLeftRunning'
  BY <1>1, <1>2, <1>3, WindowsSetupAssumption DEF Hanging, Timing, NothingLeftRunning, AtFooter
<1> QED BY <1>5, <1>6, <1>7, <1>8, <1>9, <1>10, <1>11 DEF WInv

LEMMA FailKeeps == ASSUME WInv, pc \in Phases, Fail PROVE WInv'
<1>1. open \in SUBSET Switches
  BY DEF WInv, Shapes
<1> QED BY <1>1, Ends DEF Fail

LEMMA GivingUpKeeps ==
  ASSUME WInv, HostCheckFails \/ MoveFailed \/ WorkFails
  PROVE  WInv'
<1>1. pc \in Phases
  BY DEF HostCheckFails, MoveFailed, WorkFails, Phases
<1> QED BY <1>1, FailKeeps DEF HostCheckFails, MoveFailed, WorkFails

LEMMA PromptEndsKeeps == ASSUME WInv, PromptEnds PROVE WInv'
<1>1. open \in SUBSET Switches /\ pc \in Phases
  BY DEF WInv, Shapes, PromptEnds, Phases
<1> QED BY <1>1, Ends DEF PromptEnds

\* Success is reported with what Path says of the last phase.
LEMMA ClosedAtEndKeeps == ASSUME WInv, Closed, pc = "G13close" PROVE WInv'
<1> DEFINE o == open \ {"internal"}
<1>1. /\ script = <<>> /\ EndsWith("success", ledger, o)
      /\ behind' = behind /\ interrupted' = interrupted /\ job' = job /\ to' = to
  BY DEF Closed, HasResult
<1>2. pc \in Phases /\ open \subseteq Switches /\ conn \subseteq Switches /\ behind = None
  BY PhasesAre DEF WInv, Shapes, Fresh
<1>3. /\ job = "done" /\ to = "internal" /\ steps["G6"] = PreSteps /\ steps["G13"] = PostSteps
      /\ ledger["default"] = "verified" /\ ledger["internal"] = "verified"
      /\ "default" \notin open /\ "default" \notin conn
  BY DEF WInv, Path, Counted, Ledgered, Placed, AfterMove, AfterShare, AfterSteps, AfterVerify, BeforeAnswer
<1>4. "internal" \notin conn
  <2>1. <<Doing("close", "internal")>> # <<>> /\ Lost # <<>>
    BY EffectOf, OfOne, LostScript DEF Switches
  <2> QED BY <1>1, <2>1 DEF WInv, Closing
<1>5. o = {} /\ conn = {} /\ o \in SUBSET Switches /\ \A a \in Switches : ledger[a] = "verified"
  BY <1>2, <1>3, <1>4 DEF Switches
<1> HIDE DEF o
<1> QED BY <1>1, <1>2, <1>3, <1>5, Ends

LEMMA ClosedKeeps == ASSUME WInv, Closed PROVE WInv'
BY ClosedOnKeeps, ClosedAtEndKeeps DEF Closed, Closes

LEMMA CtrlCKeeps == ASSUME WInv, CtrlC PROVE WInv'
<1>1. CASE pc \in Guarded
  <2>1. open \in SUBSET Switches /\ pc \in Phases
    BY <1>1 DEF WInv, Shapes, Guarded
  <2>2. /\ EndsWith("cancelled", ledger, open)
        /\ behind' = script /\ interrupted' = 0 /\ job' = job /\ to' = to
    BY <1>1 DEF CtrlC
  <2> QED BY <2>1, <2>2, Ends
<1>2. CASE pc \notin Guarded
  <2>1. /\ interrupted' = t /\ pc \notin Phases
        /\ UNCHANGED <<flowVars, execVars, t, since, vmVars, guestVars>>
    BY <1>2 DEF CtrlC, Guarded
  <2>2. Timing'
    <3>1. t \in Nat /\ interrupted' # None
      BY <2>1, WindowsSetupAssumption DEF WInv, Timing
    <3> QED BY <2>1, <3>1 DEF WInv, Timing, flowVars
  <2>3. UNCHANGED <<pc, steps, secret, outcome, ledger, open, script, behind, stray, hung, cleaned,
                    job, to, power, switch, pending, cred, conn>>
    BY <2>1 DEF flowVars, execVars, vmVars, guestVars
  <2>4. Shapes' /\ Scripted' /\ Known' /\ Closing' /\ Path' /\ MoveOrder'
    BY <2>3 DEF WInv, Shapes, Scripted, Known, Path, Counted, Ledgered, Placed, Closing, MoveOrder, NoSteps
  <2>5. Fresh' /\ Careful' /\ Success' /\ Hanging' /\ NothingLeftRunning'
    BY <2>1, <2>3 DEF WInv, Fresh, Careful, Agrees, Success, Hanging, BridgeBehind, NothingLeftRunning, AtFooter
  <2>6. Cleaning'
    BY <2>3 DEF WInv, Cleaning, AtFooter, NoSteps
  <2> QED BY <2>2, <2>4, <2>5, <2>6 DEF WInv
<1> QED BY <1>1, <1>2

\* Killed, or forced: the footer is not printed.
LEMMA ExitsKeeps ==
  ASSUME WInv, NEW x \in {"killed", "forced"}, Exits(x)
  PROVE  WInv'
<1>1. /\ pc' = "ended" /\ outcome' = x
      /\ UNCHANGED <<steps, secret, ledger, open, script, behind, stray, hung, cleaned, t, since,
                     interrupted, job, to, power, switch, pending, cred, conn>>
  BY DEF Exits, execVars, timeVars, vmVars, guestVars
<1>2. "ended" \notin Phases
  BY PhasesAre
<1>3. Shapes' /\ Careful' /\ MoveOrder' /\ Timing'
  <2>1. Shapes'
    BY <1>1 DEF WInv, Shapes
  <2>2. Careful' /\ MoveOrder'
    BY <1>1 DEF WInv, Careful, Agrees, MoveOrder, NoSteps
  <2>3. Timing'
    BY <1>1 DEF WInv, Timing
  <2> QED BY <2>1, <2>2, <2>3
<1>4. Fresh' /\ Scripted' /\ Known' /\ Path' /\ Closing'
  <2>1. Path'
    BY <1>1, PhasesAre DEF Path, Counted, Ledgered, Placed, ToVerify, AfterMove, AfterShare, AfterSteps, AfterVerify, BeforeAnswer
  <2>2. Known'
    BY <1>1 DEF WInv, Known
  <2> QED BY <1>1, <1>2, <2>1, <2>2 DEF Fresh, Scripted, Closing
<1>5. ~AtFooter' /\ Cleaning' /\ Success' /\ Hanging' /\ NothingLeftRunning'
  BY <1>1 DEF AtFooter, Cleaning, Success, Hanging, NothingLeftRunning, Ending
<1> QED BY <1>3, <1>4, <1>5 DEF WInv

LEMMA LeavingKeeps == ASSUME WInv, SecondCtrlC \/ ExitForced \/ CtrlCInReport PROVE WInv'
BY ExitsKeeps DEF SecondCtrlC, ExitForced, CtrlCInReport

-----------------------------------------------------------------------------
\* The machine.

\* What a step of the move that leaves the guest alone has to show.
LEMMA MoveSteps ==
  ASSUME WInv, UNCHANGED <<flowVars, execVars, timeVars, to, cred, conn>>, pc # "ended",
         job \in {"query", "stop", "confirm", "connect", "start"}, job' \in {"stop", "confirm", "connect", "start", "done", "failed"},
         switch' \in Switches, power' \in {"Running", "Stopping", "Off"}, pending' \in {pending, FALSE},
         MoveOrder'
  PROVE  WInv'
<1>1. UNCHANGED <<pc, steps, secret, outcome, ledger, open, script, behind, stray, hung, cleaned,
                  t, since, interrupted, to, cred, conn>>
  BY DEF flowVars, execVars, timeVars
<1>2. Shapes'
  <2>1. pending' \in BOOLEAN
    BY DEF WInv, Shapes
  <2> QED BY <1>1, <2>1 DEF WInv, Shapes
<1>3. Fresh' /\ Scripted' /\ Known' /\ Closing' /\ Careful' /\ Timing'
  BY <1>1 DEF WInv, Fresh, Scripted, Known, Closing, Careful, Agrees, Timing
<1>4. Cleaning' /\ Hanging' /\ NothingLeftRunning'
  BY <1>1 DEF WInv, Cleaning, NoSteps, AtFooter, Hanging, BridgeBehind, NothingLeftRunning
<1>5. Success'
  BY <1>1 DEF WInv, Success
<1>6. Path'
  <2>1. pc \notin Phases \ VmMoves
    BY DEF WInv, Path, Placed
  <2>2. pc \notin AfterMove
    BY DEF WInv, Path, Placed
  <2>3. ~pending => ~pending'
    OBVIOUS
  <2>4. Counted' /\ Ledgered'
    BY <1>1, <2>3 DEF WInv, Path, Counted, Ledgered
  <2>5. Placed'
    BY <1>1, <2>1, <2>2, PhasesAre DEF WInv, Path, Placed, VmMoves
  <2> QED BY <2>4, <2>5 DEF Path
<1> QED BY <1>2, <1>3, <1>4, <1>5, <1>6 DEF WInv

LEMMA Waiting ==
  ASSUME WInv, UNCHANGED <<flowVars, execVars, timeVars, to>>
  PROVE  /\ steps' = steps /\ ledger' = ledger /\ to' = to
         /\ NoSteps(script) => NoSteps(script)'
         /\ NoSteps(behind) => NoSteps(behind)'
BY DEF flowVars, execVars, NoSteps

LEMMA QueryKeeps == ASSUME WInv, Query PROVE WInv'
<1>1. /\ job = "query" /\ pc # "ended" /\ job' = Plan
      /\ UNCHANGED <<flowVars, execVars, timeVars, to, cred, conn>> /\ UNCHANGED <<flowVars, execVars, timeVars, to>>
      /\ power' = power /\ switch' = switch /\ pending' = pending
  BY DEF Query, Moving, guestVars
<1>2. /\ job' \in {"start", "connect", "done", "stop"}
      /\ job' \in {"start", "connect"} => power = "Off"
      /\ job' \in {"start", "done"} => switch = to /\ to = "default"
  BY <1>1 DEF Plan
<1>3. MoveOrder'
  BY <1>1, <1>2, Waiting DEF WInv, MoveOrder
<1>4. switch' \in Switches /\ power' \in {"Running", "Stopping", "Off"}
  BY <1>1 DEF WInv, Shapes
<1> QED BY <1>1, <1>2, <1>3, <1>4, MoveSteps

LEMMA StopVmKeeps == ASSUME WInv, StopVm PROVE WInv'
<1>1. /\ job = "stop" /\ pc # "ended" /\ job' = "confirm"
      /\ UNCHANGED <<flowVars, execVars, timeVars, to, cred, conn>> /\ UNCHANGED <<flowVars, execVars, timeVars, to>>
      /\ power' \in {power, "Stopping"} /\ switch' = switch /\ pending' = pending
  BY DEF StopVm, Moving, guestVars
<1>2. MoveOrder'
  BY <1>1, Waiting DEF WInv, MoveOrder
<1>3. switch' \in Switches /\ power' \in {"Running", "Stopping", "Off"}
  BY <1>1 DEF WInv, Shapes
<1> QED BY <1>1, <1>2, <1>3, MoveSteps

LEMMA ConfirmOffKeeps == ASSUME WInv, ConfirmOff PROVE WInv'
<1>1. /\ job = "confirm" /\ pc # "ended" /\ job' = "connect" /\ power = "Off"
      /\ UNCHANGED <<flowVars, execVars, timeVars, to, cred, conn>> /\ UNCHANGED <<flowVars, execVars, timeVars, to>>
      /\ power' = power /\ switch' = switch /\ pending' = pending
  BY DEF ConfirmOff, Confirmed, Moving, guestVars
<1>2. MoveOrder'
  BY <1>1, Waiting DEF WInv, MoveOrder
<1>3. switch' \in Switches /\ power' \in {"Running", "Stopping", "Off"}
  BY <1>1 DEF WInv, Shapes
<1> QED BY <1>1, <1>2, <1>3, MoveSteps

LEMMA ConnectKeeps == ASSUME WInv, Connect PROVE WInv'
<1>1. /\ job = "connect" /\ pc # "ended" /\ job' = "start" /\ switch' = to
      /\ UNCHANGED <<flowVars, execVars, timeVars, to, cred, conn>> /\ UNCHANGED <<flowVars, execVars, timeVars, to>>
      /\ power' = power /\ pending' = pending
  BY DEF Connect, Moving, guestVars
<1>2. MoveOrder'
  BY <1>1, Waiting DEF WInv, MoveOrder
<1>3. switch' \in Switches /\ power' \in {"Running", "Stopping", "Off"}
  BY <1>1 DEF WInv, Shapes
<1> QED BY <1>1, <1>2, <1>3, MoveSteps

LEMMA StartVmKeeps == ASSUME WInv, StartVm PROVE WInv'
<1>1. /\ job = "start" /\ pc # "ended" /\ job' = "done" /\ power' = "Running" /\ pending' = FALSE
      /\ UNCHANGED <<flowVars, execVars, timeVars, to, cred, conn>> /\ UNCHANGED <<flowVars, execVars, timeVars, to>>
      /\ switch' = switch
  BY DEF StartVm, Moving
<1>2. MoveOrder'
  BY <1>1, Waiting DEF WInv, MoveOrder
<1>3. switch' \in Switches
  BY <1>1 DEF WInv, Shapes
<1> QED BY <1>1, <1>2, <1>3, MoveSteps

LEMMA MoveFailsKeeps == ASSUME WInv, MoveFails PROVE WInv'
<1>1. /\ job \in {"query", "confirm", "connect", "start"} /\ pc # "ended" /\ job' = "failed"
      /\ UNCHANGED <<flowVars, execVars, timeVars, to, cred, conn>> /\ UNCHANGED <<flowVars, execVars, timeVars, to>>
      /\ power' = power /\ switch' = switch /\ pending' = pending
  BY DEF MoveFails, Moving, guestVars
<1>2. MoveOrder'
  BY <1>1, Waiting DEF WInv, MoveOrder
<1>3. switch' \in Switches /\ power' \in {"Running", "Stopping", "Off"}
  BY <1>1 DEF WInv, Shapes
<1> QED BY <1>1, <1>2, <1>3, MoveSteps

\* The guest has shut down: nothing it was doing goes on.
LEMMA GoesOffKeeps == ASSUME WInv, GoesOff PROVE WInv'
<1>1. /\ power = "Stopping" /\ power' = "Off" /\ conn' = {}
      /\ script' = IF script = None THEN None ELSE Lost
      /\ behind' = IF behind = None \/ stray THEN None ELSE Lost
      /\ UNCHANGED <<pc, steps, secret, outcome, ledger, open, stray, hung, cleaned, t, since,
                     interrupted, job, to, switch, pending, cred>>
  BY DEF GoesOff, flowVars, timeVars
<1>2. /\ \A e \in Of(script') : e.do = "lost"
      /\ \A e \in Of(behind') : e.do = "lost"
      /\ script' # None <=> script # None
      /\ script' \in {None} \cup Seq(Effect) /\ behind' \in {None} \cup Seq(Effect)
  BY <1>1, LostScript, OfNone
<1>3. Shapes' /\ Timing'
  <2>1. Shapes'
    BY <1>1, <1>2 DEF WInv, Shapes
  <2>2. Timing'
    BY <1>1 DEF WInv, Timing
  <2> QED BY <2>1, <2>2
<1>4. Fresh' /\ Scripted' /\ Known' /\ Path'
  <2>1. Fresh'
    BY <1>1, <1>2 DEF WInv, Fresh
  <2>2. Scripted' /\ Known'
    BY <1>1, <1>2 DEF Scripted, Belongs, Known
  <2>3. Path'
    BY <1>1 DEF WInv, Path, Counted, Ledgered, Placed
  <2> QED BY <2>1, <2>2, <2>3
<1>5. Closing'
  <2>1. pc \in Closes => script' = Lost
    BY <1>1, PhasesAre DEF WInv, Fresh, GuestWork, Closes
  <2> QED BY <1>1, <2>1 DEF Closing, Closes
<1>6. MoveOrder'
  BY <1>1, <1>2 DEF WInv, MoveOrder, NoSteps
<1>7. Careful'
  BY <1>1, <1>2 DEF WInv, Careful, Agrees, Touches
<1>8. Cleaning'
  BY <1>1, <1>2 DEF WInv, Cleaning, AtFooter, NoSteps
<1>9. Success'
  BY <1>1 DEF WInv, Success, MoveOrder
<1>10. Hanging' /\ NothingLeftRunning'
  BY <1>1, LostScript DEF WInv, Hanging, BridgeBehind, NothingLeftRunning, AtFooter
<1> QED BY <1>3, <1>4, <1>5, <1>6, <1>7, <1>8, <1>9, <1>10 DEF WInv

\* An effect of a script changes at its address only what the ledger makes no promise of.
LEMMA DoesCarefully ==
  ASSUME Shapes, NEW e \in Effect, Does(e), Touches(e) => ledger[e.at] \in {"written", "removal-failed"},
         \A a \in Switches : Agrees(ledger, a), ledger' = ledger
  PROVE  \A a \in Switches : Agrees(ledger, a)'
<1>1. /\ e.at \in Switches /\ cred \in [Switches -> {"none", "old", "good", "bad"}]
  BY DEF Shapes, Effect
<1>2. CASE Touches(e)
  <2>1. \A a \in Switches : a # e.at => cred'[a] = cred[a]
    BY <1>1 DEF Does
  <2>2. ASSUME NEW a \in Switches PROVE Agrees(ledger, a)'
    BY <1>2, <2>1 DEF Agrees
  <2> QED BY <2>2
<1>3. CASE ~Touches(e)
  BY <1>3 DEF Does, Touches, Agrees
<1> QED BY <1>2, <1>3

LEMMA DoesTypes ==
  ASSUME Shapes, NEW e \in Effect, Does(e), e.do = "write" => secret # None
  PROVE  /\ cred' \in [Switches -> {"none", "old", "good", "bad"}] /\ conn' \subseteq Switches
         /\ pending' \in BOOLEAN /\ (e.do # "step" /\ ~pending => ~pending')
BY DEF Shapes, Does, Effect

LEMMA ScriptRunsKeeps == ASSUME WInv, ScriptRuns PROVE WInv'
<1> DEFINE e == Head(script)
<1>1. /\ script # None /\ script # <<>> /\ Does(e) /\ script' = Tail(script)
      /\ cleaned' = IF pc \in Ending THEN cleaned \cup {e.at} ELSE cleaned
      /\ UNCHANGED <<pc, steps, secret, outcome, ledger, open, behind, stray, hung, t, since,
                     interrupted, job, to, power, switch>>
  BY DEF ScriptRuns, flowVars, timeVars, vmVars
<1>2. /\ script \in Seq(Effect) /\ e \in Effect /\ e \in Of(script)
      /\ script' \in Seq(Effect) /\ Of(script') \subseteq Of(script) /\ script' # None
      /\ e.at \in Switches
  <2>1. script \in Seq(Effect)
    BY <1>1 DEF WInv, Shapes
  <2> QED BY <1>1, <2>1, OfTail, NoneIsNoScript DEF Effect
<1> HIDE DEF e
<1>3. /\ cred' \in [Switches -> {"none", "old", "good", "bad"}] /\ conn' \subseteq Switches
      /\ pending' \in BOOLEAN /\ (e.do # "step" /\ ~pending => ~pending')
  BY <1>1, <1>2, DoesTypes DEF WInv, Known
<1>4. Shapes' /\ Timing'
  <2>1. cleaned' \subseteq Switches
    BY <1>1, <1>2 DEF WInv, Shapes
  <2>2. Shapes'
    BY <1>1, <1>2, <1>3, <2>1 DEF WInv, Shapes
  <2>3. Timing'
    BY <1>1 DEF WInv, Timing
  <2> QED BY <2>2, <2>3
<1>5. Fresh' /\ Scripted' /\ Known'
  <2>1. pc \in Phases => pc \notin Ending
    BY PhasesAre DEF Ending
  <2> QED BY <1>1, <1>2, <2>1 DEF WInv, Fresh, Scripted, Known
<1>6. pc \in Phases => Belongs(e, pc) /\ e.do # "lost"
  BY <1>1, <1>2 DEF WInv, Scripted, Does
<1>7. Path'
  <2>1. pc \in {"G7host", "G8", "G9"} => e.do # "step"
    BY <1>6, PhasesAre DEF Belongs, Steps
  <2>2. pc \in AfterShare => e.at = "internal"
    BY <1>6, PhasesAre DEF Belongs, Address, AfterShare, AfterMove
  <2>3. conn' \subseteq conn \cup {e.at}
    BY <1>1 DEF Does
  <2>4. Counted' /\ Placed'
    BY <1>1 DEF WInv, Path, Counted, Placed
  <2>5. Ledgered'
    BY <1>1, <1>3, <2>1, <2>2, <2>3 DEF WInv, Path, Ledgered
  <2> QED BY <2>4, <2>5 DEF Path
<1>8. Closing'
  <2>1. ASSUME NEW a \in Switches, script \in {<<Doing("close", a)>>, Lost} \/ script = <<>>
        PROVE  script' = <<>> /\ a \notin conn'
    <3>1. script = <<Doing("close", a)>> /\ Doing("close", a) \in Effect /\ Doing("close", a).do = "close" /\ Doing("close", a).at = a
      <4>1. script # Lost
        <5>1. script = Lost => e.do = "lost"
          BY <1>2, LostScript
        <5> QED BY <1>1, <5>1 DEF Does
      <4> QED BY <1>1, <2>1, <4>1, EffectOf
    <3>2. script' = <<>> /\ e = Doing("close", a)
      BY <1>1, <3>1, OfOne DEF e
    <3> QED BY <1>1, <3>1, <3>2 DEF Does
  <2> QED BY <1>1, <2>1 DEF WInv, Closing, Switches
<1>9. MoveOrder'
  <2>1. NoSteps(script) => NoSteps(script)' /\ e.do # "step"
    BY <1>2 DEF NoSteps
  <2> QED BY <1>1, <1>3, <2>1 DEF WInv, MoveOrder, NoSteps
<1>10. Careful'
  <2> SUFFICES ASSUME ~stray PROVE Careful'
    BY <1>1 DEF Careful
  <2>1. /\ \A x \in Of(script) \cup Of(behind) : Touches(x) => ledger[x.at] \in {"written", "removal-failed"}
        /\ \A a \in Switches : Agrees(ledger, a)
    BY DEF WInv, Careful
  <2>2. \A a \in Switches : Agrees(ledger, a)'
    BY <1>1, <1>2, <2>1, DoesCarefully DEF WInv
  <2> QED BY <1>1, <1>2, <2>1, <2>2 DEF Careful
<1>11. Cleaning'
  <2>1. pc = "cleaning" /\ ~stray => \A a \in cleaned' : ledger'[a] = "written" => cred'[a] = "none"
    <3> SUFFICES ASSUME pc = "cleaning", ~stray, NEW a \in cleaned', ledger'[a] = "written" PROVE cred'[a] = "none"
      OBVIOUS
    <3>1. /\ e.do \in {"drop", "close"} /\ (e.do = "close" => ledger[e.at] # "written")
          /\ \A b \in cleaned : ledger[b] = "written" => cred[b] = "none"
          /\ cred \in [Switches -> {"none", "old", "good", "bad"}]
      BY <1>1, <1>2 DEF WInv, Cleaning, Does, Shapes
    <3>2. a = e.at \/ a \in cleaned
      BY <1>1 DEF Ending
    <3>3. a \in Switches
      BY <1>2, <3>2 DEF WInv, Shapes
    <3> QED BY <1>1, <1>2, <3>1, <3>2, <3>3 DEF Does
  <2>2. pc # "drain"
    BY <1>1 DEF WInv, Cleaning
  <2> QED BY <1>1, <1>2, <2>1, <2>2 DEF WInv, Cleaning, AtFooter, NoSteps
<1>12. Success' /\ Hanging' /\ NothingLeftRunning'
  BY <1>1 DEF WInv, Success, Hanging, BridgeBehind, NothingLeftRunning, AtFooter
<1> QED BY <1>4, <1>5, <1>7, <1>8, <1>9, <1>10, <1>11, <1>12 DEF WInv

LEMMA BehindRunsKeeps == ASSUME WInv, BehindRuns PROVE WInv'
<1> DEFINE e == Head(behind)
<1>1. /\ behind # None /\ behind # <<>> /\ Does(e)
      /\ behind' = IF stray /\ Len(behind) = 1 THEN None ELSE Tail(behind)
      /\ UNCHANGED <<pc, steps, secret, outcome, ledger, open, script, stray, hung, cleaned, t, since,
                     interrupted, job, to, power, switch>>
  BY DEF BehindRuns, flowVars, timeVars, vmVars
<1>2. /\ e \in Effect /\ e \in Of(behind) /\ behind' \in {None} \cup Seq(Effect)
      /\ Of(behind') \subseteq Of(behind) /\ (~stray => behind' # None)
      /\ e.at \in Switches
  <2>1. behind \in Seq(Effect)
    BY <1>1 DEF WInv, Shapes
  <2> QED BY <1>1, <2>1, OfTail, OfNone, NoneIsNoScript DEF Effect
<1> HIDE DEF e
<1>3. /\ cred' \in [Switches -> {"none", "old", "good", "bad"}] /\ conn' \subseteq Switches
      /\ pending' \in BOOLEAN /\ (e.do # "step" /\ ~pending => ~pending')
  BY <1>1, <1>2, DoesTypes DEF WInv, Known
<1>4. Shapes' /\ Timing'
  <2>1. Shapes'
    BY <1>1, <1>2, <1>3 DEF WInv, Shapes
  <2>2. Timing'
    BY <1>1 DEF WInv, Timing
  <2> QED BY <2>1, <2>2
<1>5. pc \notin Phases
  BY <1>1 DEF WInv, Fresh
<1>6. Fresh' /\ Scripted' /\ Known' /\ Path' /\ Closing'
  <2>1. Path'
    BY <1>1, <1>5, PhasesAre DEF Path, Counted, Ledgered, Placed, ToVerify, AfterMove, AfterShare, AfterSteps, AfterVerify, BeforeAnswer
  <2>2. Known'
    BY <1>1, <1>2 DEF WInv, Known
  <2> QED BY <1>1, <1>5, <2>1, <2>2, PhasesAre DEF Fresh, Scripted, Closing
<1>7. MoveOrder'
  <2>1. NoSteps(behind) => NoSteps(behind)' /\ e.do # "step"
    BY <1>2 DEF NoSteps
  <2> QED BY <1>1, <1>3, <2>1 DEF WInv, MoveOrder, NoSteps
<1>8. Careful'
  <2> SUFFICES ASSUME ~stray PROVE Careful'
    BY <1>1 DEF Careful
  <2>1. /\ \A x \in Of(script) \cup Of(behind) : Touches(x) => ledger[x.at] \in {"written", "removal-failed"}
        /\ \A a \in Switches : Agrees(ledger, a)
    BY DEF WInv, Careful
  <2>2. \A a \in Switches : Agrees(ledger, a)'
    BY <1>1, <1>2, <2>1, DoesCarefully DEF WInv
  <2> QED BY <1>1, <1>2, <2>1, <2>2 DEF Careful
<1>9. Cleaning'
  <2>1. pc = "cleaning" => stray
    BY <1>1 DEF WInv, Cleaning
  <2> QED BY <1>1, <2>1 DEF WInv, Cleaning, AtFooter, NoSteps
<1>10. Success' /\ Hanging' /\ NothingLeftRunning'
  BY <1>1, <1>2 DEF WInv, Success, Hanging, BridgeBehind, NothingLeftRunning, AtFooter
<1> QED BY <1>4, <1>6, <1>7, <1>8, <1>9, <1>10 DEF WInv

\* A step that only ends a script or a bridge: less is still to be done.
LEMMA LessToDo ==
  ASSUME WInv, UNCHANGED <<flowVars, cleaned, timeVars, vmVars, guestVars>>, pc \notin Phases,
         script' \in {None} \cup Seq(Effect), behind' \in {None} \cup Seq(Effect), stray' \in BOOLEAN, hung' \in BOOLEAN,
         Of(script') \subseteq Of(script), Of(behind') \subseteq Of(script) \cup Of(behind),
         stray => stray',
         pc = "drain" => script' = None,
         pc = "cleaning" => script' # None /\ (~stray' => behind' = None),
         outcome = "success" => script' = None /\ behind' = None /\ ~stray' /\ ~hung',
         Hanging', NothingLeftRunning'
  PROVE  WInv'
<1>1. UNCHANGED <<pc, steps, secret, outcome, ledger, open, cleaned, t, since, interrupted,
                  job, to, power, switch, pending, cred, conn>>
  BY DEF flowVars, timeVars, vmVars, guestVars
<1>2. Shapes' /\ Timing'
  <2>1. Shapes'
    BY <1>1 DEF WInv, Shapes
  <2>2. Timing'
    BY <1>1 DEF WInv, Timing
  <2> QED BY <2>1, <2>2
<1>3. Fresh' /\ Scripted' /\ Known' /\ Path' /\ Closing'
  <2>1. Path'
    BY <1>1, PhasesAre DEF Path, Counted, Ledgered, Placed, ToVerify, AfterMove, AfterShare, AfterSteps, AfterVerify, BeforeAnswer
  <2>2. Known'
    BY <1>1 DEF WInv, Known
  <2> QED BY <1>1, <2>1, <2>2, PhasesAre DEF Fresh, Scripted, Closing
<1>4. MoveOrder'
  <2>1. NoSteps(script) /\ NoSteps(behind) => NoSteps(script)' /\ NoSteps(behind)'
    BY DEF NoSteps
  <2> QED BY <1>1, <2>1 DEF WInv, MoveOrder
<1>5. Careful'
  BY <1>1 DEF WInv, Careful, Agrees
<1>6. Cleaning'
  <2>1. NoSteps(script) => NoSteps(script)'
    BY DEF NoSteps
  <2>2. pc = "cleaning" /\ ~stray' => \A a \in cleaned : ledger[a] = "written" => cred[a] = "none"
    BY DEF WInv, Cleaning
  <2>3. pc = "cleaning" =>
          \A e \in Of(script') : e.do \in {"lost", "drop", "close"} /\ (e.do = "close" => ledger[e.at] # "written")
    BY DEF WInv, Cleaning
  <2>4. /\ pc = "drain" => cleaned = {}
        /\ pc \in Ending \cup {"report"} => NoSteps(script)
        /\ pc = "dispose" \/ AtFooter => \A a \in Switches : ledger[a] # "written"
    BY DEF WInv, Cleaning
  <2> QED BY <1>1, <2>1, <2>2, <2>3, <2>4 DEF Cleaning, AtFooter
<1>7. Success'
  BY <1>1 DEF WInv, Success
<1> QED BY <1>2, <1>3, <1>4, <1>5, <1>6, <1>7 DEF WInv

LEMMA BehindEndsKeeps == ASSUME WInv, BehindEnds PROVE WInv'
<1>1. /\ behind # None /\ ~stray /\ ~hung /\ behind' = None
      /\ UNCHANGED <<flowVars, script, stray, hung, cleaned, timeVars, vmVars, guestVars>>
  BY DEF BehindEnds
<1>2. /\ pc' = pc /\ outcome' = outcome /\ script' = script /\ stray' = stray /\ hung' = hung
      /\ UNCHANGED <<flowVars, cleaned, timeVars, vmVars, guestVars>>
  BY <1>1 DEF flowVars
<1>3. /\ pc \notin Phases /\ pc # "cleaning"
      /\ script \in {None} \cup Seq(Effect) /\ stray \in BOOLEAN /\ hung \in BOOLEAN
      /\ pc = "drain" => script = None
      /\ outcome = "success" => behind = None
  BY <1>1 DEF WInv, Fresh, Shapes, Cleaning, Success
<1>4. Of(script') = Of(script) /\ Of(behind') = {}
  BY <1>1, <1>2, OfNone
<1>5. Hanging' /\ NothingLeftRunning'
  BY <1>1, <1>2 DEF WInv, Hanging, NothingLeftRunning, AtFooter
<1> QED BY <1>1, <1>2, <1>3, <1>4, <1>5, LessToDo

LEMMA ItemFailsKeeps == ASSUME WInv, ItemFails PROVE WInv'
<1>1. /\ pc \in {"cleaning", "dispose"} /\ script # None /\ script # <<>> /\ script' = Tail(script)
      /\ UNCHANGED <<flowVars, cleaned, timeVars, vmVars, guestVars>>
      /\ pc' = pc /\ outcome' = outcome /\ behind' = behind /\ stray' = stray /\ hung' = hung
  BY DEF ItemFails, flowVars
<1>2. script \in Seq(Effect)
  BY <1>1 DEF WInv, Shapes
<1>3. script' \in Seq(Effect) /\ script' # None /\ Of(script') \subseteq Of(script) /\ Of(behind') = Of(behind)
  BY <1>1, <1>2, OfTail, NoneIsNoScript
<1>4. /\ pc \notin Phases /\ behind \in {None} \cup Seq(Effect) /\ stray \in BOOLEAN /\ hung \in BOOLEAN
      /\ outcome # "success"
      /\ pc = "cleaning" => (~stray => behind = None)
  BY <1>1, PhasesAre DEF WInv, Shapes, Cleaning, Success
<1>5. Hanging' /\ NothingLeftRunning'
  BY <1>1 DEF WInv, Hanging, BridgeBehind, NothingLeftRunning, AtFooter
<1> QED BY <1>1, <1>3, <1>4, <1>5, LessToDo

LEMMA CleanupEndsKeeps == ASSUME WInv, CleanupEnds PROVE WInv'
<1>1. /\ pc = "dispose" /\ script # None /\ ~hung /\ script' = None
      /\ UNCHANGED <<flowVars, cleaned, timeVars, vmVars, guestVars>>
      /\ pc' = pc /\ outcome' = outcome /\ behind' = behind /\ stray' = stray /\ hung' = hung
  BY DEF CleanupEnds, flowVars
<1>2. Of(script') = {} /\ Of(behind') = Of(behind)
  BY <1>1, OfNone
<1>3. /\ pc \notin Phases /\ behind \in {None} \cup Seq(Effect) /\ stray \in BOOLEAN /\ hung \in BOOLEAN
      /\ outcome # "success"
  BY <1>1, PhasesAre DEF WInv, Shapes, Success
<1>4. Hanging' /\ NothingLeftRunning'
  BY <1>1 DEF Hanging, NothingLeftRunning, AtFooter
<1> QED BY <1>1, <1>2, <1>3, <1>4, LessToDo

\* A killed bridge closes, or does not yet.
LEMMA BridgeDiesKeeps ==
  ASSUME WInv, BridgeDies, pc \in {"drain", "dispose", "report"}, outcome # "success",
         UNCHANGED <<flowVars, cleaned, timeVars, vmVars, guestVars>>
  PROVE  WInv'
<1>1. pc' = pc /\ outcome' = outcome /\ script' = None /\ hung' = FALSE
  BY DEF BridgeDies, flowVars
<1>2. PICK goesOn \in BOOLEAN :
        /\ stray' = (stray \/ goesOn)
        /\ behind' = IF goesOn THEN IF script = None THEN behind ELSE script
                     ELSE IF stray THEN behind ELSE None
  BY DEF BridgeDies
<1>3. /\ Of(script') = {} /\ Of(behind') \subseteq Of(script) \cup Of(behind)
      /\ stray' \in BOOLEAN /\ (stray => stray') /\ (behind' # None => stray')
      /\ behind' \in {None} \cup Seq(Effect)
  <2>1. script \in {None} \cup Seq(Effect) /\ behind \in {None} \cup Seq(Effect)
    BY DEF WInv, Shapes
  <2> QED BY <1>1, <1>2, <2>1, OfNone
<1>4. pc \notin Phases
  BY PhasesAre
<1>5. Hanging' /\ NothingLeftRunning'
  BY <1>1, <1>3 DEF Hanging, NothingLeftRunning
<1> QED BY <1>1, <1>3, <1>4, <1>5, LessToDo

LEMMA StillHangsKeeps ==
  ASSUME WInv, hung' = TRUE, pc = "dispose" \/ (pc = "drain" /\ BridgeBehind), outcome # "success",
         UNCHANGED <<script, behind, stray>>, UNCHANGED <<flowVars, cleaned, timeVars, vmVars, guestVars>>
  PROVE  WInv'
<1>1. pc' = pc /\ outcome' = outcome /\ script' = script /\ behind' = behind /\ stray' = stray
  BY DEF flowVars
<1>2. /\ pc \notin Phases /\ Of(script') = Of(script) /\ Of(behind') = Of(behind)
      /\ script \in {None} \cup Seq(Effect) /\ behind \in {None} \cup Seq(Effect) /\ stray \in BOOLEAN
      /\ pc = "drain" => script = None
  BY <1>1, PhasesAre DEF WInv, Shapes, Cleaning
<1>3. Hanging' /\ NothingLeftRunning'
  BY <1>1 DEF WInv, Hanging, BridgeBehind, NothingLeftRunning, AtFooter
<1> QED BY <1>1, <1>2, <1>3, LessToDo

LEMMA KillsKeep == ASSUME WInv, DrainExpires \/ DisposeExpires \/ HungCloses PROVE WInv'
<1>1. CASE DrainExpires
  <2>1. outcome # "success"
    BY <1>1 DEF DrainExpires, WInv, Success
  <2> QED BY <1>1, <2>1, BridgeDiesKeeps, StillHangsKeeps DEF DrainExpires, Kill
<1>2. CASE DisposeExpires
  <2>1. outcome # "success"
    BY <1>2 DEF DisposeExpires, Outstanding, BridgeBehind, WInv, Success
  <2> QED BY <1>2, <2>1, BridgeDiesKeeps, StillHangsKeeps DEF DisposeExpires, Kill
<1>3. CASE HungCloses
  <2>1. outcome # "success" /\ pc \in {"drain", "dispose", "report"}
    BY <1>3 DEF HungCloses, WInv, Success, Hanging
  <2> QED BY <1>3, <2>1, BridgeDiesKeeps DEF HungCloses
<1> QED BY <1>1, <1>2, <1>3

-----------------------------------------------------------------------------
\* The ending.

\* The cleanup script: what the ledger calls written is deleted, the rest is closed.
LEMMA CleanupScriptDoes ==
  ASSUME Shapes
  PROVE  /\ Sent(CleanupScript) \in Seq(Effect)
         /\ \A e \in Of(Sent(CleanupScript)) :
              \/ e.do = "lost"
              \/ e.do = "drop" /\ ledger[e.at] = "written"
              \/ e.do = "close" /\ ledger[e.at] # "written"
<1> DEFINE Cleans(e) == \/ e.do = "drop" /\ ledger[e.at] = "written"
                        \/ e.do = "close" /\ ledger[e.at] # "written"
           Kind(a) == IF ledger[a] = "written" THEN "drop" ELSE "close"
           Item(a) == IF a \notin Items(ledger, open) THEN <<>> ELSE <<Doing(Kind(a), a)>>
           d == Doing(Kind("default"), "default")
           i == Doing(Kind("internal"), "internal")
<1>1. d \in Effect /\ i \in Effect /\ Cleans(d) /\ Cleans(i)
  BY EffectOf DEF Switches
<1>2. CleanupScript = Item("default") \o Item("internal")
  BY DEF CleanupScript
<1>3. Item("default") \in {<<>>, <<d>>} /\ Item("internal") \in {<<>>, <<i>>}
  OBVIOUS
<1> HIDE DEF Cleans, Item, d, i
<1>4. CleanupScript \in {<<>>, <<d>>, <<i>>, <<d>> \o <<i>>}
  <2>1. <<>> \o <<>> = <<>>
    OBVIOUS
  <2>2. <<>> \o <<i>> = <<i>>
    OBVIOUS
  <2>3. <<d>> \o <<>> = <<d>>
    OBVIOUS
  <2> QED BY <1>2, <1>3, <2>1, <2>2, <2>3
<1>5. CleanupScript \in Seq(Effect) /\ \A e \in Of(CleanupScript) : Cleans(e)
  <2>1. <<>> \in Seq(Effect) /\ \A e \in Of(<<>>) : Cleans(e)
    BY OfNone
  <2>2. <<d>> \in Seq(Effect) /\ \A e \in Of(<<d>>) : Cleans(e)
    BY <1>1, OfOne
  <2>3. <<i>> \in Seq(Effect) /\ \A e \in Of(<<i>>) : Cleans(e)
    BY <1>1, OfOne
  <2>4. <<d>> \o <<i>> \in Seq(Effect) /\ \A e \in Of(<<d>> \o <<i>>) : Cleans(e)
    BY <1>1, OfTwo
  <2> QED BY <1>4, <2>1, <2>2, <2>3, <2>4
<1> QED BY <1>5, LostScript DEF Sent, Cleans

LEMMA DrainedKeeps == ASSUME WInv, Drained PROVE WInv'
<1>1. /\ pc = "drain" /\ pc' = "cleaning" /\ script' = Sent(CleanupScript) /\ (behind = None \/ stray)
      /\ UNCHANGED <<steps, secret, outcome, ledger, open, behind, stray, hung, cleaned, t, since,
                     interrupted, job, to, power, switch, pending, cred, conn>>
  BY DEF Drained, BridgeBehind, timeVars, vmVars, guestVars
<1>2. /\ script' \in Seq(Effect) /\ script' # None
      /\ \A e \in Of(script') : \/ e.do = "lost"
                                \/ e.do = "drop" /\ ledger[e.at] = "written"
                                \/ e.do = "close" /\ ledger[e.at] # "written"
  BY <1>1, CleanupScriptDoes, NoneIsNoScript DEF WInv
<1>3. "cleaning" \notin Phases
  BY PhasesAre
<1>4. Shapes' /\ Timing'
  <2>1. Shapes'
    BY <1>1, <1>2 DEF WInv, Shapes, Ending
  <2>2. Timing'
    BY <1>1 DEF WInv, Timing
  <2> QED BY <2>1, <2>2
<1>5. Fresh' /\ Scripted' /\ Known' /\ Path' /\ Closing'
  <2>1. Path'
    BY <1>1, PhasesAre DEF Path, Counted, Ledgered, Placed, ToVerify, AfterMove, AfterShare, AfterSteps, AfterVerify, BeforeAnswer
  <2>2. Known'
    BY <1>1, <1>2 DEF WInv, Known
  <2> QED BY <1>1, <1>3, <2>1, <2>2 DEF Fresh, Scripted, Closing
<1>6. NoSteps(script)'
  BY <1>2 DEF NoSteps
<1>7. MoveOrder'
  BY <1>1, <1>6 DEF WInv, MoveOrder, NoSteps
<1>8. Careful'
  <2>1. \A e \in Of(script') : Touches(e) => ledger[e.at] = "written"
    BY <1>2 DEF Touches
  <2> QED BY <1>1, <2>1 DEF WInv, Careful, Agrees
<1>9. Cleaning'
  <2>1. cleaned = {}
    BY <1>1 DEF WInv, Cleaning
  <2> QED BY <1>1, <1>2, <1>6, <2>1 DEF Cleaning, AtFooter
<1>10. Success' /\ Hanging' /\ NothingLeftRunning'
  BY <1>1 DEF WInv, Success, Hanging, BridgeBehind, NothingLeftRunning, AtFooter
<1> QED BY <1>4, <1>5, <1>7, <1>8, <1>9, <1>10 DEF WInv

\* The ledger's last word: removed is what the cleanup script says it has removed.
LEMMA ToDisposeKeeps ==
  ASSUME WInv, NEW s \in SUBSET Switches, pc \in {"drain", "cleaning"}, ToDispose(s),
         script' \in {None, script}, t <= CleanupBudget, s = {} \/ (pc = "cleaning" /\ script' = None),
         ~stray => \A a \in s : ledger[a] = "written" => cred[a] = "none"
  PROVE  WInv'
<1>1. /\ pc' = "dispose" /\ since' = t /\ ledger' = Accounted(s) /\ open' = open \ s
      /\ UNCHANGED <<steps, secret, outcome, behind, stray, hung, cleaned, t,
                     interrupted, job, to, power, switch, pending, cred, conn>>
  BY DEF ToDispose, vmVars, guestVars
<1>2. Of(script') \subseteq Of(script) /\ Of(behind') = Of(behind)
  BY <1>1, OfNone
<1>3. /\ ledger \in [Switches -> {"none", "written", "verified", "removed", "removal-failed"}]
      /\ ledger' \in [Switches -> {"none", "written", "verified", "removed", "removal-failed"}]
      /\ \A a \in Switches :
           /\ ledger[a] # "written" => ledger'[a] = ledger[a]
           /\ ledger[a] = "written" => ledger'[a] = IF a \in s THEN "removed" ELSE "removal-failed"
  BY <1>1 DEF WInv, Shapes, Accounted
<1>4. "dispose" \notin Phases
  BY PhasesAre
<1>5. Shapes' /\ Timing'
  <2>1. Shapes'
    BY <1>1, <1>3 DEF WInv, Shapes, Ending
  <2>2. Timing'
    BY <1>1, WindowsSetupAssumption DEF WInv, Timing
  <2> QED BY <2>1, <2>2
<1>6. Fresh' /\ Scripted' /\ Known' /\ Path' /\ Closing'
  <2>1. Path'
    BY <1>1, PhasesAre DEF Path, Counted, Ledgered, Placed, ToVerify, AfterMove, AfterShare, AfterSteps, AfterVerify, BeforeAnswer
  <2>2. Known'
    BY <1>1, <1>2 DEF WInv, Known
  <2> QED BY <1>1, <1>4, <2>1, <2>2 DEF Fresh, Scripted, Closing
<1>7. MoveOrder'
  <2>1. (NoSteps(script) => NoSteps(script)') /\ (NoSteps(behind) => NoSteps(behind)')
    BY <1>2 DEF NoSteps
  <2>2. "default" \in Switches /\ "internal" \in Switches
    BY DEF Switches
  <2>3. ledger["default"] = "verified" => ledger'["default"] = "verified"
    BY <1>3, <2>2
  <2>4. ledger["internal"] # "none" => ledger'["internal"] # "none"
    BY <1>3, <2>2
  <2> QED BY <1>1, <2>1, <2>3, <2>4 DEF WInv, MoveOrder
<1>8. Careful'
  <2> SUFFICES ASSUME ~stray PROVE Careful'
    BY <1>1 DEF Careful
  <2>1. /\ \A e \in Of(script) \cup Of(behind) : Touches(e) => ledger[e.at] \in {"written", "removal-failed"}
        /\ \A a \in Switches : Agrees(ledger, a)
    BY DEF WInv, Careful
  <2>2. Of(script) \cup Of(behind) \subseteq Effect
    BY OfEffects DEF WInv, Shapes
  <2>3. s = {} \/ Of(script') \cup Of(behind') = {}
    BY <1>2, OfNone DEF WInv, Cleaning
  <2>4. \A a \in Switches : Agrees(ledger, a)'
    BY <1>1, <1>3, <2>1 DEF Agrees
  <2>5. ASSUME NEW e \in Of(script') \cup Of(behind'), Touches(e) PROVE ledger'[e.at] \in {"written", "removal-failed"}
    BY <1>2, <1>3, <2>1, <2>2, <2>3, <2>5 DEF Effect
  <2> QED BY <1>1, <2>4, <2>5 DEF Careful
<1>9. Cleaning'
  <2>1. NoSteps(script)'
    BY <1>2 DEF WInv, Cleaning, NoSteps, Ending
  <2> QED BY <1>1, <1>3, <2>1 DEF Cleaning
<1>10. Success' /\ Hanging' /\ NothingLeftRunning'
  <2>1. outcome # "success"
    BY DEF WInv, Success
  <2> QED BY <1>1, <2>1 DEF WInv, Success, Hanging, NothingLeftRunning, AtFooter
<1> QED BY <1>5, <1>6, <1>7, <1>8, <1>9, <1>10 DEF WInv

LEMMA CleanupOverKeeps == ASSUME WInv, CleanupDone \/ CleanupFails \/ BudgetExpires PROVE WInv'
<1>1. pc \in {"drain", "cleaning"} =>
        t <= CleanupBudget /\ cleaned \in SUBSET Switches /\ {} \in SUBSET Switches
  BY DEF WInv, Timing, Shapes
<1>2. CASE CleanupDone
  <2>1. ~stray => \A a \in cleaned : ledger[a] = "written" => cred[a] = "none"
    BY <1>2 DEF CleanupDone, HasResult, WInv, Cleaning
  <2> QED BY <1>1, <1>2, <2>1, ToDisposeKeeps DEF CleanupDone, HasResult
<1>3. CASE CleanupFails
  BY <1>1, <1>3, ToDisposeKeeps DEF CleanupFails
<1>4. CASE BudgetExpires
  BY <1>1, <1>4, ToDisposeKeeps DEF BudgetExpires
<1> QED BY <1>2, <1>3, <1>4

\* Nothing is outstanding, and it is the footer's turn.
LEMMA DisposedKeeps == ASSUME WInv, Disposed PROVE WInv'
<1>1. /\ pc = "dispose" /\ pc' \in {"report", "ended"} /\ script = None /\ (behind # None => stray)
      /\ UNCHANGED <<steps, secret, outcome, ledger, open, script, behind, stray, hung, cleaned, t, since,
                     interrupted, job, to, power, switch, pending, cred, conn>>
  BY DEF Disposed, Outstanding, BridgeBehind, execVars, timeVars, vmVars, guestVars
<1>2. "report" \notin Phases /\ "ended" \notin Phases
  BY PhasesAre
<1>3. Shapes' /\ Timing' /\ MoveOrder' /\ Careful'
  <2>1. Shapes'
    BY <1>1 DEF WInv, Shapes
  <2>2. Timing' /\ MoveOrder' /\ Careful'
    BY <1>1 DEF WInv, Timing, MoveOrder, NoSteps, Careful, Agrees
  <2> QED BY <2>1, <2>2
<1>4. Fresh' /\ Scripted' /\ Known' /\ Path' /\ Closing'
  <2>1. Path'
    BY <1>1, PhasesAre DEF Path, Counted, Ledgered, Placed, ToVerify, AfterMove, AfterShare, AfterSteps, AfterVerify, BeforeAnswer
  <2>2. Known'
    BY <1>1 DEF WInv, Known
  <2> QED BY <1>1, <1>2, <2>1, <2>2 DEF Fresh, Scripted, Closing
<1>5. Cleaning' /\ Success' /\ Hanging' /\ NothingLeftRunning'
  BY <1>1 DEF WInv, Cleaning, NoSteps, Ending, Success, Hanging, NothingLeftRunning, AtFooter
<1> QED BY <1>3, <1>4, <1>5 DEF WInv

LEMMA ReportKeeps == ASSUME WInv, Report PROVE WInv'
<1>1. /\ pc = "report" /\ pc' = "ended"
      /\ UNCHANGED <<steps, secret, outcome, ledger, open, script, behind, stray, hung, cleaned, t, since,
                     interrupted, job, to, power, switch, pending, cred, conn>>
  BY DEF Report, execVars, timeVars, vmVars, guestVars
<1>2. "ended" \notin Phases
  BY PhasesAre
<1>3. Shapes' /\ Timing' /\ MoveOrder' /\ Careful'
  <2>1. Shapes'
    BY <1>1 DEF WInv, Shapes
  <2>2. Timing' /\ MoveOrder' /\ Careful'
    BY <1>1 DEF WInv, Timing, MoveOrder, NoSteps, Careful, Agrees
  <2> QED BY <2>1, <2>2
<1>4. Fresh' /\ Scripted' /\ Known' /\ Path' /\ Closing'
  <2>1. Path'
    BY <1>1, PhasesAre DEF Path, Counted, Ledgered, Placed, ToVerify, AfterMove, AfterShare, AfterSteps, AfterVerify, BeforeAnswer
  <2>2. Known'
    BY <1>1 DEF WInv, Known
  <2> QED BY <1>1, <1>2, <2>1, <2>2 DEF Fresh, Scripted, Closing
<1>5. Cleaning' /\ Success' /\ Hanging' /\ NothingLeftRunning'
  BY <1>1 DEF WInv, Cleaning, Ending, Success, Hanging, NothingLeftRunning, AtFooter
<1> QED BY <1>3, <1>4, <1>5 DEF WInv

\* Time passes only where no timer is due.
LEMMA TickKeeps == ASSUME WInv, Tick PROVE WInv'
<1>1. /\ \/ pc = "drain" /\ t < CleanupBudget
         \/ pc = "cleaning" /\ t < CleanupBudget
         \/ pc = "dispose"
      /\ t' = t + 1
      /\ UNCHANGED <<pc, steps, secret, outcome, ledger, open, script, behind, stray, hung, cleaned, since,
                     interrupted, job, to, power, switch, pending, cred, conn>>
  BY DEF Tick, flowVars, execVars, vmVars, guestVars
<1>2. Timing'
  <2>1. t \in Nat /\ since \in 0 .. t /\ interrupted \in {None} \cup 0 .. t
        /\ (pc \in {"drain", "cleaning"} => since = 0)
        /\ since <= CleanupBudget
    BY DEF WInv, Timing
  <2>2. /\ t' \in Nat /\ since' \in 0 .. t' /\ interrupted' \in {None} \cup 0 .. t'
        /\ since' <= CleanupBudget
    BY <1>1, <2>1
  <2>4. pc' \in {"drain", "cleaning"} => since' = 0 /\ t' <= CleanupBudget
    BY <1>1, <2>1, WindowsSetupAssumption
  <2> QED BY <2>2, <2>4 DEF Timing
<1>3. Shapes'
  BY <1>1 DEF WInv, Shapes
<1>4. pc \notin Phases
  BY <1>1, PhasesAre
<1>5. Fresh' /\ Scripted' /\ Known' /\ Path' /\ Closing' /\ MoveOrder' /\ Careful'
  <2>1. Path' /\ Known' /\ Closing' /\ MoveOrder'
    BY <1>1 DEF WInv, Path, Counted, Ledgered, Placed, Known, Closing, MoveOrder, NoSteps
  <2> QED BY <1>1, <1>4, <2>1 DEF WInv, Fresh, Scripted, Careful, Agrees
<1>6. Cleaning' /\ Success' /\ Hanging' /\ NothingLeftRunning'
  BY <1>1 DEF WInv, Cleaning, NoSteps, AtFooter, Success, Hanging, BridgeBehind, NothingLeftRunning
<1> QED BY <1>2, <1>3, <1>5, <1>6 DEF WInv

-----------------------------------------------------------------------------

LEMMA WInvInit == Init => WInv
<1> SUFFICES ASSUME Init PROVE WInv
  OBVIOUS
<1>1. /\ pc = "H1" /\ steps = [p \in Steps |-> 0] /\ secret = None /\ outcome = None
      /\ ledger = [a \in Switches |-> "none"] /\ open = {}
      /\ script = None /\ behind = None /\ stray = FALSE /\ hung = FALSE /\ cleaned = {}
      /\ t = 0 /\ since = 0 /\ interrupted = None /\ job = "none" /\ to = "default"
      /\ power \in {"Running", "Stopping", "Off"} /\ switch \in Switches
      /\ pending \in BOOLEAN /\ cred \in [Switches -> {"none", "old"}] /\ conn = {}
  BY DEF Init
<1>2. "H1" \in Phases /\ "H1" \notin GuestWork /\ "default" \in Switches
  BY PhasesAre DEF GuestWork, Steps, Writes, Verifies, Closes, Switches
<1>3. steps["G6"] = 0 /\ steps["G13"] = 0
  BY <1>1 DEF Steps
<1>4. Shapes
  BY <1>1, <1>2 DEF Shapes
<1>5. Fresh /\ Scripted /\ Known /\ Closing
  BY <1>1, <1>2, OfNone DEF Fresh, Scripted, Known, Closing
<1>6. Path
  BY <1>1, <1>3 DEF Path, Counted, Ledgered, Placed, ToVerify, AfterMove, AfterShare, AfterSteps, AfterVerify, BeforeAnswer
<1>7. MoveOrder /\ Success /\ Hanging
  BY <1>1, WindowsSetupAssumption DEF MoveOrder, Success, Hanging
<1>8. Careful
  BY <1>1, OfNone DEF Careful, Agrees
<1>9. Cleaning /\ NothingLeftRunning
  BY <1>1 DEF Cleaning, NothingLeftRunning, AtFooter, Ending
<1>10. Timing
  BY <1>1, WindowsSetupAssumption DEF Timing
<1> QED BY <1>4, <1>5, <1>6, <1>7, <1>8, <1>9, <1>10 DEF WInv

LEMMA WInvNext == WInv /\ [Next]_vars => WInv'
<1> SUFFICES ASSUME WInv, [Next]_vars PROVE WInv'
  OBVIOUS
<1>1. CASE FlowNext
  BY <1>1, AnswerKeeps, PromptEndsKeeps, HostCheckKeeps, GivingUpKeeps, MovedKeeps, WorkDoneKeeps,
     GuestRejectsKeeps, StepDoneKeeps, VerifiedKeeps, WrongPasswordKeeps, ClosedKeeps DEF FlowNext
<1>2. CASE EndNext
  BY <1>2, DrainedKeeps, KillsKeep, CleanupOverKeeps, DisposedKeeps, LeavingKeeps, TickKeeps DEF EndNext
<1>3. CASE WorldNext
  BY <1>3, QueryKeeps, StopVmKeeps, ConfirmOffKeeps, ConnectKeeps, StartVmKeeps, MoveFailsKeeps,
     GoesOffKeeps, ScriptRunsKeeps, BehindRunsKeeps, BehindEndsKeeps, ItemFailsKeeps, CleanupOverKeeps,
     CleanupEndsKeeps, KillsKeep, ReportKeeps DEF WorldNext
<1>4. CASE CtrlC \/ SecondCtrlC \/ CtrlCInReport
  BY <1>4, CtrlCKeeps, LeavingKeeps
<1>5. CASE UNCHANGED vars
  <2>1. UNCHANGED <<pc, steps, secret, outcome, ledger, open, script, behind, stray, hung, cleaned, t, since,
                    interrupted, job, to, power, switch, pending, cred, conn>>
    BY <1>5 DEF vars, flowVars, execVars, timeVars, vmVars, guestVars
  <2>2. Shapes' /\ Fresh' /\ Scripted' /\ Known' /\ Path' /\ Closing'
    BY <2>1 DEF WInv, Shapes, Fresh, Scripted, Known, Path, Counted, Ledgered, Placed, Closing
  <2>3. MoveOrder' /\ Careful' /\ Cleaning' /\ Success' /\ Hanging' /\ Timing' /\ NothingLeftRunning'
    BY <2>1 DEF WInv, MoveOrder, NoSteps, Careful, Agrees, Cleaning, AtFooter, Success, Hanging, BridgeBehind,
                Timing, NothingLeftRunning
  <2> QED BY <2>2, <2>3 DEF WInv
<1> QED BY <1>1, <1>2, <1>3, <1>4, <1>5 DEF Next

\* The invariant behind the properties below.
THEOREM SetupInvariant == Spec => []WInv
<1> QED BY WInvInit, WInvNext, PTL DEF Spec

\* A bridge that does not close when it is killed is remembered.
Held == held \in BOOLEAN /\ (hung => held)

\* Only a kill, or a bridge that closes, changes what hangs.
LEMMA HeldChanges ==
  ASSUME [Next]_vars
  PROVE  held' = TRUE \/ (held' = held /\ (hung' = hung \/ hung' = FALSE))
<1>1. CASE FlowNext
  <2>1. CASE Answer \/ HostCheck \/ Moved \/ WorkDone \/ GuestRejects \/ StepDone \/ Verified \/ WrongPassword
    BY <2>1 DEF Answer, HostCheck, Moved, WorkDone, GuestRejects, StepDone, Verified, WrongPassword, GoesOn, asideVars
  <2>2. CASE PromptEnds \/ HostCheckFails \/ MoveFailed \/ WorkFails
    BY <2>2 DEF PromptEnds, HostCheckFails, MoveFailed, WorkFails, Fail, EndsWith
  <2>3. CASE Closed
    BY <2>3 DEF Closed, GoesOn, EndsWith, asideVars
  <2> QED BY <1>1, <2>1, <2>2, <2>3 DEF FlowNext
<1>2. CASE EndNext
  <2>1. CASE DrainExpires \/ DisposeExpires
    BY <2>1 DEF DrainExpires, DisposeExpires, Kill, BridgeDies
  <2>2. CASE Drained \/ BudgetExpires \/ Disposed \/ ExitForced \/ Tick
    BY <2>2 DEF Drained, BudgetExpires, Disposed, ExitForced, Exits, Tick, ToDispose, execVars
  <2> QED BY <1>2, <2>1, <2>2 DEF EndNext
<1>3. CASE WorldNext
  <2>1. CASE Query \/ StopVm \/ ConfirmOff \/ Connect \/ StartVm \/ MoveFails \/ GoesOff
    BY <2>1 DEF Query, StopVm, ConfirmOff, Connect, StartVm, MoveFails, GoesOff, execVars
  <2>2. CASE ScriptRuns \/ BehindRuns \/ BehindEnds \/ ItemFails \/ CleanupDone \/ CleanupFails \/ CleanupEnds
    BY <2>2 DEF ScriptRuns, BehindRuns, BehindEnds, ItemFails, CleanupDone, CleanupFails, CleanupEnds, ToDispose
  <2>3. CASE HungCloses \/ Report
    BY <2>3 DEF HungCloses, BridgeDies, Report, execVars
  <2> QED BY <1>3, <2>1, <2>2, <2>3 DEF WorldNext
<1>4. CASE CtrlC \/ SecondCtrlC \/ CtrlCInReport
  BY <1>4 DEF CtrlC, SecondCtrlC, CtrlCInReport, Exits, EndsWith, execVars
<1>5. CASE UNCHANGED vars
  BY <1>5 DEF vars, execVars
<1> QED BY <1>1, <1>2, <1>3, <1>4, <1>5 DEF Next

LEMMA HeldInvariant == Spec => []Held
<1>1. Init => Held
  BY DEF Init, Held
<1>2. Held /\ [Next]_vars => Held'
  BY HeldChanges DEF Held
<1> QED BY <1>1, <1>2, PTL DEF Spec

\* Types.
THEOREM SetupTypes == Spec => []TypeOK
<1>1. WInv /\ Held => TypeOK
  <2> SUFFICES ASSUME WInv, Held PROVE TypeOK
    OBVIOUS
  <2> QED BY DEF WInv, Shapes, Timing, TypeOK, Held
<1> QED BY <1>1, SetupInvariant, HeldInvariant, PTL

\* While something is outstanding and no killed bridge hangs, the ending's limits have not run
\* out: it is not they that the exit deadline cuts short.
Deadline ==
  /\ pc \in Ending /\ ~hung /\ Outstanding => t <= CleanupBudget + DisposeTimeout
  /\ outcome = "forced" => pc = "ended" /\ hung
  /\ interrupted = None /\ ~held => t <= CleanupBudget + DisposeTimeout

\* Where the clock is at 0 nothing is due.
LEMMA NothingDue == ASSUME t' = 0, outcome' # "forced" PROVE Deadline'
<1>1. CleanupBudget + DisposeTimeout \in Nat
  BY WindowsSetupAssumption
<1> QED BY <1>1 DEF Deadline

\* Nothing new is outstanding.
LEMMA NothingNew ==
  ASSUME Deadline, UNCHANGED <<pc, outcome, t, hung, held>>, Outstanding' => Outstanding,
         interrupted' = None => interrupted = None
  PROVE  Deadline'
BY DEF Deadline

LEMMA PhasesDeadline == ASSUME WInv, FlowNext PROVE Deadline'
<1>1. pc \in Phases => t = 0 /\ outcome # "forced"
  BY WindowsSetupAssumption DEF WInv, Fresh
<1>2. ASSUME NEW x \in {"failure", "cancelled", "success"}, NEW l, NEW o, EndsWith(x, l, o)
      PROVE  Deadline'
  BY <1>2, NothingDue DEF EndsWith
<1>3. ASSUME pc \in Phases, UNCHANGED <<outcome, asideVars>> PROVE Deadline'
  BY <1>1, <1>3, NothingDue DEF asideVars, timeVars
<1>4. ASSUME pc \in Phases, NEW l, NEW o, GoesOn(l, o) PROVE Deadline'
  BY <1>3, <1>4 DEF GoesOn
<1>5. Prompts \cup HostChecks \cup VmMoves \cup GuestWork \subseteq Phases
      /\ Steps \cup Verifies \cup Closes \cup {"G2", "G4verify"} \subseteq GuestWork
  BY PhasesAre DEF Phases, GuestWork, Steps, Verifies, Closes
<1>6. CASE Answer
  BY <1>3, <1>5, <1>6 DEF Answer
<1>7. CASE PromptEnds \/ HostCheckFails \/ MoveFailed \/ WorkFails
  BY <1>2, <1>7 DEF PromptEnds, HostCheckFails, MoveFailed, WorkFails, Fail
<1>8. CASE HostCheck \/ Moved
  BY <1>4, <1>5, <1>8 DEF HostCheck, Moved
<1>9. CASE WorkDone \/ Verified
  BY <1>4, <1>5, <1>9 DEF WorkDone, Verified
<1>10. CASE GuestRejects \/ WrongPassword
  BY <1>3, <1>5, <1>10 DEF GuestRejects, WrongPassword, HasResult
<1>11. CASE StepDone
  BY <1>3, <1>4, <1>5, <1>11 DEF StepDone
<1>12. CASE Closed
  BY <1>2, <1>4, <1>5, <1>12 DEF Closed
<1> QED
  BY <1>6, <1>7, <1>8, <1>9, <1>10, <1>11, <1>12 DEF FlowNext

LEMMA CtrlCDeadline == ASSUME WInv, Deadline, CtrlC \/ SecondCtrlC \/ CtrlCInReport PROVE Deadline'
<1>1. CASE CtrlC /\ pc \in Guarded
  BY <1>1, NothingDue DEF CtrlC, EndsWith
<1>2. CASE CtrlC /\ pc \notin Guarded
  <2>1. interrupted' # None
    BY <1>2, WindowsSetupAssumption DEF CtrlC, WInv, Timing
  <2> QED BY <1>2, <2>1, NothingNew DEF CtrlC, flowVars, execVars, Outstanding, BridgeBehind
<1>3. CASE SecondCtrlC \/ CtrlCInReport
  BY <1>3 DEF SecondCtrlC, CtrlCInReport, Exits, Deadline, Ending, execVars, timeVars
<1> QED BY <1>1, <1>2, <1>3

\* A bridge that is killed, or closes, takes what is outstanding with it.
LEMMA BridgeDiesDeadline ==
  ASSUME WInv, Deadline, BridgeDies \/ Kill, UNCHANGED <<pc, outcome, t, interrupted>>,
         outcome # "forced", Held
  PROVE  Deadline'
<1>1. CASE BridgeDies
  <2>1. ~Outstanding'
    BY <1>1, NoneIsNoScript DEF BridgeDies, Outstanding, BridgeBehind
  <2>2. held' = held
    BY <1>1 DEF BridgeDies
  <2> QED BY <2>1, <2>2 DEF Deadline
<1>2. CASE hung' = TRUE /\ held' = TRUE
  BY <1>2 DEF Deadline
<1> QED BY <1>1, <1>2 DEF Kill

LEMMA EndDeadline == ASSUME WInv, Held, Deadline, EndNext PROVE Deadline'
<1>1. /\ pc \in {"drain", "cleaning"} => t <= CleanupBudget
      /\ t \in Nat /\ since \in Nat /\ since <= CleanupBudget
      /\ CleanupBudget \in Nat /\ DisposeTimeout \in Nat
  BY WindowsSetupAssumption DEF WInv, Timing
<1>2. pc # "ended" => outcome # "forced"
  BY DEF Deadline
<1>3. ASSUME pc \in {"drain", "cleaning"}, t' = t, UNCHANGED <<outcome, interrupted, held>> PROVE Deadline'
  BY <1>1, <1>2, <1>3 DEF Deadline
<1>4. CASE Drained
  BY <1>3, <1>4 DEF Drained, timeVars
<1>5. CASE BudgetExpires
  BY <1>3, <1>5 DEF BudgetExpires, ToDispose
<1>6. CASE DrainExpires \/ DisposeExpires
  BY <1>2, <1>6, BridgeDiesDeadline DEF DrainExpires, DisposeExpires, flowVars, timeVars
<1>7. CASE Disposed
  BY <1>2, <1>7 DEF Disposed, Deadline, Ending, execVars, timeVars
<1>8. CASE ExitForced
  <2>1. interrupted \in 0 .. t /\ t - interrupted >= ExitDeadline
    BY <1>8 DEF ExitForced, ExitDue, WInv, Timing
  <2>2. ~(t <= CleanupBudget + DisposeTimeout)
    BY <1>1, <2>1, WindowsSetupAssumption
  <2>3. hung
    BY <1>8, <2>2 DEF ExitForced, Deadline
  <2> QED BY <1>8, <2>3 DEF ExitForced, Exits, execVars, timeVars, Deadline, Ending
<1>9. CASE Tick
  <2>1. /\ UNCHANGED <<pc, outcome, script, behind, stray, hung, held, interrupted>> /\ t' = t + 1
        /\ pc \in {"drain", "cleaning", "dispose"}
        /\ pc \in {"drain", "cleaning"} => t < CleanupBudget
        /\ pc = "dispose" => hung \/ t - since < DisposeTimeout
    BY <1>9 DEF Tick, flowVars, execVars, DisposeLimit
  <2>2. ~hung => t' <= CleanupBudget + DisposeTimeout
    BY <1>1, <2>1
  <2>3. ~held => ~hung
    BY DEF Held
  <2> QED BY <1>2, <2>1, <2>2, <2>3 DEF Deadline
<1> QED BY <1>4, <1>5, <1>6, <1>7, <1>8, <1>9 DEF EndNext

LEMMA WorldDeadline == ASSUME WInv, Held, Deadline, WorldNext PROVE Deadline'
<1>1. /\ pc \in {"drain", "cleaning"} => t <= CleanupBudget
      /\ t \in Nat /\ CleanupBudget \in Nat /\ DisposeTimeout \in Nat
  BY WindowsSetupAssumption DEF WInv, Timing
<1>2. pc # "ended" => outcome # "forced"
  BY DEF Deadline
<1>3. CASE Query \/ StopVm \/ ConfirmOff \/ Connect \/ StartVm \/ MoveFails
  BY <1>3, NothingNew DEF Query, StopVm, ConfirmOff, Connect, StartVm, MoveFails, flowVars, execVars, timeVars,
                          Outstanding, BridgeBehind
<1>4. CASE GoesOff
  <2>1. (script' # None => script # None) /\ (behind' # None => behind # None /\ ~stray)
    BY <1>4 DEF GoesOff
  <2> QED BY <1>4, <2>1, NothingNew DEF GoesOff, flowVars, timeVars, Outstanding, BridgeBehind
<1>5. CASE ScriptRuns \/ ItemFails
  BY <1>5, NothingNew DEF ScriptRuns, ItemFails, flowVars, timeVars, Outstanding, BridgeBehind
<1>6. CASE BehindRuns \/ BehindEnds \/ CleanupEnds
  BY <1>6, NothingNew DEF BehindRuns, BehindEnds, CleanupEnds, flowVars, timeVars, Outstanding, BridgeBehind
<1>7. CASE CleanupDone \/ CleanupFails
  <2>1. pc \in {"drain", "cleaning"} /\ UNCHANGED <<t, outcome, interrupted, held>>
    BY <1>7 DEF CleanupDone, CleanupFails, HasResult, ToDispose
  <2> QED BY <1>1, <1>2, <2>1 DEF Deadline
<1>8. CASE HungCloses
  BY <1>2, <1>8, BridgeDiesDeadline DEF HungCloses, flowVars, timeVars
<1>9. CASE Report
  BY <1>2, <1>9 DEF Report, Deadline, Ending, execVars, timeVars
<1> QED BY <1>3, <1>4, <1>5, <1>6, <1>7, <1>8, <1>9 DEF WorldNext

\* An ending nobody interrupts keeps its limits unless it waits for a killed bridge, and the
\* exit deadline cuts one short only while it does (guestExecutor.ts:283-294,
\* interruptHandler.ts:4).
THEOREM LimitsFit == Spec => []EndingFits
<1>1. Init => Deadline
  BY WindowsSetupAssumption DEF Init, Deadline, Ending
<1>2. WInv /\ Held /\ Deadline /\ [Next]_vars => Deadline'
  <2> SUFFICES ASSUME WInv, Held, Deadline, [Next]_vars PROVE Deadline'
    OBVIOUS
  <2>1. CASE UNCHANGED vars
    BY <2>1, NothingNew DEF vars, flowVars, execVars, timeVars, Outstanding, BridgeBehind
  <2> QED BY <2>1, PhasesDeadline, CtrlCDeadline, EndDeadline, WorldDeadline DEF Next
<1>3. Deadline => EndingFits
  BY DEF Deadline, EndingFits
<1> QED BY <1>1, <1>2, <1>3, SetupInvariant, HeldInvariant, PTL DEF Spec

\* The footer tells the truth about the share credentials, whatever Ctrl+C has left running
\* in the guest, unless a bridge was killed (shareCredential.ts:713).
THEOREM FooterIsTrue == Spec => []LedgerIsTrue
<1>1. WInv => LedgerIsTrue
  <2> SUFFICES ASSUME WInv, AtFooter, ~stray, NEW a \in Switches
               PROVE  /\ ledger[a] # "written"
                      /\ ledger[a] = "none" => cred[a] \in {"none", "old"}
                      /\ ledger[a] = "verified" => cred[a] = "good"
                      /\ ledger[a] = "removed" => cred[a] = "none"
    BY DEF LedgerIsTrue
  <2> QED BY DEF WInv, Careful, Cleaning, Agrees
<1> QED BY <1>1, SetupInvariant, PTL

\* A run that reports success has done everything (setupFlow.ts:545).
THEOREM SuccessMeansDone == Spec => []SuccessIsComplete
<1>1. WInv => SuccessIsComplete
  <2> SUFFICES ASSUME WInv, outcome = "success" PROVE SuccessIsComplete
    BY DEF SuccessIsComplete
  <2>1. power = "Running" /\ switch = "internal" /\ conn = {} /\ open = {}
    BY DEF WInv, Success, MoveOrder
  <2>2. \A a \in Switches : ledger[a] = "verified" /\ cred[a] = "good"
    BY DEF WInv, Success, Careful, Agrees
  <2>3. steps = [p \in Steps |-> StepsOf(p)]
    <3>1. steps \in [Steps -> Nat] /\ steps["G6"] = PreSteps /\ steps["G13"] = PostSteps
      BY DEF WInv, Shapes, Success
    <3> QED BY <3>1 DEF Steps, StepsOf
  <2> QED BY <2>1, <2>2, <2>3 DEF SuccessIsComplete
<1> QED BY <1>1, SetupInvariant, PTL

\* No bridge is outstanding when the footer is printed (guestExecutor.ts:301).
THEOREM NothingGoesOn == Spec => []NothingLeftRunning
<1>1. WInv => NothingLeftRunning
  BY DEF WInv
<1> QED BY <1>1, SetupInvariant, PTL

\* No other action moves the adapter.
LEMMA OnlyConnect == ASSUME [Next]_vars, switch' # switch PROVE Connect
<1>1. ~FlowNext
  <2>1. ~(Answer \/ HostCheck \/ Moved \/ WorkDone \/ GuestRejects \/ StepDone \/ Verified \/ WrongPassword)
    BY DEF Answer, HostCheck, Moved, WorkDone, GuestRejects, StepDone, Verified, WrongPassword, GoesOn, asideVars
  <2>2. ~(PromptEnds \/ HostCheckFails \/ MoveFailed \/ WorkFails)
    BY DEF PromptEnds, HostCheckFails, MoveFailed, WorkFails, Fail, EndsWith
  <2>3. ~Closed
    BY DEF Closed, GoesOn, EndsWith, asideVars
  <2> QED BY <2>1, <2>2, <2>3 DEF FlowNext
<1>2. ~EndNext
  BY DEF EndNext, Drained, DrainExpires, BudgetExpires, DisposeExpires, Disposed, ExitForced, Exits,
         Tick, ToDispose, vmVars
<1>3. ~(CtrlC \/ SecondCtrlC \/ CtrlCInReport) /\ vars' # vars
  BY DEF CtrlC, SecondCtrlC, CtrlCInReport, Exits, EndsWith, vars, vmVars
<1>4. WorldNext => Connect
  <2>1. ~(Query \/ StopVm \/ ConfirmOff \/ StartVm \/ MoveFails \/ GoesOff)
    BY DEF Query, StopVm, ConfirmOff, StartVm, MoveFails, GoesOff
  <2>2. ~(ScriptRuns \/ BehindRuns \/ BehindEnds \/ ItemFails \/ CleanupDone \/ CleanupFails \/ CleanupEnds)
    BY DEF ScriptRuns, BehindRuns, BehindEnds, ItemFails, CleanupDone, CleanupFails, CleanupEnds, ToDispose, vmVars
  <2>3. ~(HungCloses \/ Report)
    BY DEF HungCloses, Report, vmVars
  <2> QED BY <2>1, <2>2, <2>3 DEF WorldNext
<1> QED BY <1>1, <1>2, <1>3, <1>4 DEF Next

\* The machine is moved only when it is off, and isolated only when all that must come before
\* has been done, even by a move that Ctrl+C has made the flow leave (setupFlow.ts:444).
THEOREM IsolatesGated == Spec => IsolationIsGated
<1>1. WInv /\ [Next]_vars =>
        [switch' # switch =>
           /\ power = "Off"
           /\ switch' = "internal" =>
                /\ steps["G6"] = PreSteps /\ ~pending
                /\ ledger["default"] = "verified" /\ ledger["internal"] # "none"]_vars
  <2> SUFFICES ASSUME WInv, [Next]_vars, switch' # switch
               PROVE  /\ power = "Off"
                      /\ switch' = "internal" =>
                           /\ steps["G6"] = PreSteps /\ ~pending
                           /\ ledger["default"] = "verified" /\ ledger["internal"] # "none"
    OBVIOUS
  <2>1. Connect
    BY OnlyConnect
  <2> QED BY <2>1 DEF Connect, Moving, WInv, MoveOrder
<1> QED BY <1>1, SetupInvariant, PTL DEF Spec, IsolationIsGated

=============================================================================
