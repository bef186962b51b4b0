------------------------------ MODULE DhcpServer ------------------------------
(***************************************************************************)
(* The DHCP server of run-hosting (dhcpServer.ts, dhcpHandler.ts,          *)
(* dhcpLeases.ts): a table of leases kept in memory, its handler, and the  *)
(* guests on the switch, each of which sends datagrams that are delivered  *)
(* in order or lost, and heeds only the answer to the last one it sent.    *)
(*                                                                         *)
(* An address is its slot in the pool.  Times are what is left of them:    *)
(* a tick takes one off every lease, a lease with nothing left has         *)
(* expired.  The guests follow RFC 2131: they count a lease from the       *)
(* moment they asked for it and drop it when it has run out.  `ours` and   *)
(* `grace` are history: acknowledged by the run-hosting running now, and   *)
(* how long leases of the run before may still be in use.                  *)
(***************************************************************************)
EXTENDS Naturals, Sequences

CONSTANTS
  Clients,              \* guests, by client identity
  Size,                 \* addresses in the pool
  Host,                 \* the slot of the host's own address, if it is in the pool
  Hash,                 \* hash32 of each identity
  LeaseTime,            \* leaseSeconds, in ticks
  None,
  MaxSent               \* bound: datagrams of one guest under way at one time

Slots == 0 .. Size - 1

ASSUME DhcpAssumption ==
  /\ Size \in Nat \ {0} /\ LeaseTime \in Nat \ {0} /\ MaxSent \in Nat
  /\ Hash \in [Clients -> Nat]
  /\ None \notin Nat
  /\ None \notin [owner: Clients, left: Nat] \cup [addr: Nat, left: Nat, ours: BOOLEAN]
  /\ None \notin [kind: {"discover", "request"}, addr: Nat \cup {None}, left: Nat]
  /\ None \notin [kind: {"offer", "ack", "nak"}, addr: Nat \cup {None}, ours: BOOLEAN]

VARIABLES
  \* -- the server
  leases,               \* per slot: its lease, or None
  declined,             \* slots a guest found in use
  \* -- the network
  sent,                 \* per guest: datagrams on their way to the server
  answer,               \* per guest: the answer to its last datagram, or None
  \* -- the guests
  asks,                 \* the transaction a guest waits for, and what is left of what it asks
  uses,                 \* the address a guest uses
  \* -- history
  grace

serverVars == <<leases, declined>>
vars == <<serverVars, sent, answer, asks, uses, grace>>

Lease == [owner: Clients, left: 0 .. LeaseTime]
Message ==
  [kind: {"discover", "request", "elsewhere", "release"}, addr: Slots \cup {None}]
    \cup [kind: {"decline"}, addr: Slots]
Answer == [kind: {"offer", "ack", "nak"}, addr: Slots \cup {None}, ours: BOOLEAN]
Ask == [kind: {"discover", "request"}, addr: Slots \cup {None}, left: 0 .. LeaseTime]
Use == [addr: Slots, left: 1 .. LeaseTime, ours: BOOLEAN]

-----------------------------------------------------------------------------
\* The lease table.

\* mutant: a lease is over one tick too early.
LiveUntilLastTick(a) == leases[a] # None /\ leases[a].left > 1

Live(a) == leases[a] # None /\ leases[a].left > 0

\* `existing`: a guest may hold two leases; which one is found depends on the table's order.
Existing(c) == {a \in Slots : Live(a) /\ leases[a].owner = c}

\* mutant: a lease is not extended when its guest asks again.
AssignedOnce(a, c) ==
  leases' = IF Live(a) THEN leases ELSE [leases EXCEPT ![a] = [owner |-> c, left |-> LeaseTime]]

Assigned(a, c) == leases' = [leases EXCEPT ![a] = [owner |-> c, left |-> LeaseTime]]

Free(a) == a # Host /\ a \notin declined /\ ~Live(a)

\* The first free slot after the one the identity hashes to.
Probed(c) ==
  {a \in Slots : \E i \in Slots :
     /\ a = (Hash[c] + i) % Size /\ Free(a)
     /\ \A j \in 0 .. i - 1 : ~Free((Hash[c] + j) % Size)}

\* `acquire`, to which the guest's own lease comes first.
Acquired(c) == IF Existing(c) # {} THEN Existing(c) ELSE Probed(c)

\* mutant: what is leased is refused whoever holds the lease.
GrantedIfFree(c, a) == a \in Slots /\ Free(a)

\* `request` acknowledges.
Granted(c, a) ==
  /\ a \in Slots \ ({Host} \cup declined)
  /\ Live(a) => leases[a].owner = c

\* `release` frees the lease it finds first.
Released(c) ==
  \/ Existing(c) = {} /\ UNCHANGED leases
  \/ \E a \in Existing(c) : leases' = [leases EXCEPT ![a] = None]

Declined(a) == declined' = declined \cup {a} /\ leases' = [leases EXCEPT ![a] = None]

-----------------------------------------------------------------------------
\* handleDhcp, one datagram at a time.

\* The next datagram of c to arrive.
Arrives(c, kind) ==
  /\ sent[c] # <<>> /\ Head(sent[c]).kind = kind
  /\ sent' = [sent EXCEPT ![c] = Tail(@)]

\* c heeds the answer to the last datagram it sent, while it waits for one.
Answered(c, kind, a) ==
  answer' = IF Len(sent[c]) = 1 /\ asks[c] # None
            THEN [answer EXCEPT ![c] = [kind |-> kind, addr |-> a, ours |-> TRUE]]
            ELSE answer

\* DISCOVER: the offer reserves the address as a lease does; without one there is no answer.
Discovered(c) ==
  /\ Arrives(c, "discover")
  /\ \/ Acquired(c) = {} /\ UNCHANGED <<leases, answer>>
     \/ \E a \in Acquired(c) : Assigned(a, c) /\ Answered(c, "offer", a)
  /\ UNCHANGED <<declined, asks, uses, grace>>

\* REQUEST, of the address in the option or else the one in ciaddr.
Requested(c) ==
  /\ Arrives(c, "request")
  /\ LET a == Head(sent[c]).addr IN
       \/ Granted(c, a) /\ Assigned(a, c) /\ Answered(c, "ack", a)
       \/ ~Granted(c, a) /\ UNCHANGED leases /\ Answered(c, "nak", None)
  /\ UNCHANGED <<declined, asks, uses, grace>>

\* RELEASE, or a REQUEST that names another server.
GivenUp(c) ==
  /\ Arrives(c, "release") \/ Arrives(c, "elsewhere")
  /\ Released(c)
  /\ UNCHANGED <<declined, answer, asks, uses, grace>>

DeclineReceived(c) ==
  /\ Arrives(c, "decline")
  /\ Declined(Head(sent[c]).addr)
  /\ UNCHANGED <<answer, asks, uses, grace>>

\* run-hosting stops and is started again: the table was in its memory.
Restart ==
  /\ leases' = [a \in Slots |-> None]
  /\ declined' = {}
  /\ answer' = [c \in Clients |->
                  IF answer[c] = None THEN None ELSE [answer[c] EXCEPT !.ours = FALSE]]
  /\ uses' = [c \in Clients |-> IF uses[c] = None THEN None ELSE [uses[c] EXCEPT !.ours = FALSE]]
  /\ grace' = LeaseTime
  /\ UNCHANGED <<sent, asks>>

-----------------------------------------------------------------------------
\* The network.

Lose(c) ==
  /\ sent[c] # <<>>
  /\ sent' = [sent EXCEPT ![c] = Tail(@)]
  /\ UNCHANGED <<serverVars, answer, asks, uses, grace>>

LoseAnswer(c) ==
  /\ answer[c] # None
  /\ answer' = [answer EXCEPT ![c] = None]
  /\ UNCHANGED <<serverVars, sent, asks, uses, grace>>

-----------------------------------------------------------------------------
\* The guests.

Send(c, kind, a) ==
  /\ Len(sent[c]) < MaxSent
  /\ sent' = [sent EXCEPT ![c] = Append(@, [kind |-> kind, addr |-> a])]
  /\ answer' = [answer EXCEPT ![c] = None]

Waits(c, kind, a) == asks' = [asks EXCEPT ![c] = [kind |-> kind, addr |-> a, left |-> LeaseTime]]

WaitsNoMore(c) == asks' = [asks EXCEPT ![c] = None]

Stops(c) == uses' = [uses EXCEPT ![c] = None]

\* c boots, or has lost its address.
Discover(c) ==
  /\ Send(c, "discover", None) /\ Waits(c, "discover", None) /\ Stops(c)
  /\ UNCHANGED <<serverVars, grace>>

\* c boots and asks for an address it remembers (or for none, or one of another network).
Reboot(c, a) ==
  /\ Send(c, "request", a) /\ Waits(c, "request", a) /\ Stops(c)
  /\ UNCHANGED <<serverVars, grace>>

Renew(c) ==
  /\ uses[c] # None
  /\ Send(c, "request", uses[c].addr) /\ Waits(c, "request", uses[c].addr)
  /\ UNCHANGED <<serverVars, uses, grace>>

Release(c) ==
  /\ uses[c] # None
  /\ Send(c, "release", None) /\ WaitsNoMore(c) /\ Stops(c)
  /\ UNCHANGED <<serverVars, grace>>

\* c accepts the offer, or that of another server.
TakeOffer(c) ==
  /\ answer[c] # None /\ answer[c].kind = "offer"
  /\ \/ Send(c, "request", answer[c].addr) /\ Waits(c, "request", answer[c].addr)
     \/ Send(c, "elsewhere", None) /\ WaitsNoMore(c)
  /\ UNCHANGED <<serverVars, uses, grace>>

\* c uses the address, unless it finds it in use.
TakeAck(c) ==
  /\ answer[c] # None /\ answer[c].kind = "ack" /\ asks[c].left > 0
  /\ \/ /\ uses' = [uses EXCEPT ![c] = [addr |-> answer[c].addr, left |-> asks[c].left,
                                        ours |-> answer[c].ours]]
        /\ answer' = [answer EXCEPT ![c] = None]
        /\ UNCHANGED sent
     \/ uses[c] = None /\ Send(c, "decline", answer[c].addr) /\ UNCHANGED uses
  /\ WaitsNoMore(c)
  /\ UNCHANGED <<serverVars, grace>>

TakeNak(c) ==
  /\ answer[c] # None /\ answer[c].kind = "nak"
  /\ answer' = [answer EXCEPT ![c] = None]
  /\ WaitsNoMore(c) /\ Stops(c)
  /\ UNCHANGED <<serverVars, sent, grace>>

-----------------------------------------------------------------------------
\* Time.

Less(n) == IF n = 0 THEN 0 ELSE n - 1

Aged(r) == IF r = None THEN None ELSE [r EXCEPT !.left = Less(@)]

Tick ==
  /\ leases' = [a \in Slots |-> Aged(leases[a])]
  /\ asks' = [c \in Clients |-> Aged(asks[c])]
  /\ uses' = [c \in Clients |->
                IF uses[c] # None /\ uses[c].left = 1 THEN None ELSE Aged(uses[c])]
  /\ grace' = Less(grace)
  /\ UNCHANGED <<declined, sent, answer>>

-----------------------------------------------------------------------------
Init ==
  /\ leases = [a \in Slots |-> None] /\ declined = {}
  /\ sent = [c \in Clients |-> <<>>] /\ answer = [c \in Clients |-> None]
  /\ asks = [c \in Clients |-> None] /\ uses = [c \in Clients |-> None]
  /\ grace = 0

Handle(c) == Discovered(c) \/ Requested(c) \/ GivenUp(c) \/ DeclineReceived(c)

Guest(c) ==
  \/ Discover(c) \/ (\E a \in Slots \cup {None} : Reboot(c, a)) \/ Renew(c) \/ Release(c)
  \/ TakeOffer(c) \/ TakeAck(c) \/ TakeNak(c)

Next ==
  \/ \E c \in Clients : Handle(c) \/ Guest(c) \/ Lose(c) \/ LoseAnswer(c)
  \/ Restart
  \/ Tick

Spec == Init /\ [][Next]_vars

-----------------------------------------------------------------------------
\* Properties.

\* The type invariant; a guest never uses the host's own address (dhcpLeases.ts:53, 64).
TypeOK ==
  /\ leases \in [Slots -> Lease \cup {None}] /\ declined \subseteq Slots
  /\ sent \in [Clients -> Seq(Message)] /\ \A c \in Clients : Len(sent[c]) <= MaxSent
  /\ answer \in [Clients -> Answer \cup {None}]
  /\ asks \in [Clients -> Ask \cup {None}]
  /\ uses \in [Clients -> Use \cup {None}]
  /\ \A c \in Clients : uses[c] # None => uses[c].addr # Host
  /\ grace \in 0 .. LeaseTime

\* No two guests use one address, whatever datagrams are lost or late and whatever leases
\* run out meanwhile; after a restart of run-hosting, which forgets its leases, the guests
\* it has acknowledged never share one, and within one lease time nobody does.
NoDuplicateAddress ==
  \A c, d \in Clients :
    c # d /\ uses[c] # None /\ uses[d] # None /\ uses[c].addr = uses[d].addr =>
      grace > 0 /\ ~(uses[c].ours /\ uses[d].ours)

\* A guest never uses an address for longer than the server keeps it for that guest:
\* neither a late RELEASE, nor a second lease, nor the expiry takes it away before.
LeaseBacksUse ==
  \A c \in Clients :
    uses[c] # None /\ uses[c].ours =>
      LET a == uses[c].addr IN
        a \in declined \/ (Live(a) /\ leases[a].owner = c /\ leases[a].left >= uses[c].left)

\* A guest that renews what this run of the server has acknowledged is refused only when
\* the address was declined meanwhile (dhcpLeases.ts:60-69).
RenewalIsGranted ==
  \A c \in Clients :
    answer[c] # None /\ answer[c].kind = "nak" /\ answer[c].ours
      /\ uses[c] # None /\ uses[c].ours =>
        uses[c].addr \in declined
=============================================================================
