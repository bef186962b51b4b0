-------------------------- MODULE DhcpServer_proofs --------------------------
(***************************************************************************)
(* What the DHCP server guarantees for any number of guests, any pool and  *)
(* any lease time, over a network that loses datagrams, proved by TLAPS.   *)
(***************************************************************************)
EXTENDS DhcpServer, SequenceTheorems, TLAPS

\* What a guest waits for is the answer to the last datagram it sent,
LastIsAsked(c) ==
  asks[c] # None /\ sent[c] # <<>> =>
    sent[c][Len(sent[c])] = [kind |-> asks[c].kind, addr |-> asks[c].addr]

\* ... and an answer it has not taken yet is to that one.
AnswersAsked(c) ==
  answer[c] # None =>
    /\ asks[c] # None /\ sent[c] = <<>>
    /\ answer[c].kind = "offer" => asks[c].kind = "discover" /\ answer[c].addr \in Slots
    /\ answer[c].kind # "offer" => asks[c].kind = "request"
    /\ answer[c].kind = "ack" =>
         answer[c].addr = asks[c].addr /\ answer[c].addr \in Slots \ {Host}

\* A guest that uses an address asks for nothing else.
OnlyRenews(c) ==
  uses[c] # None =>
    /\ asks[c] # None => asks[c].kind = "request" /\ asks[c].addr = uses[c].addr
    /\ \A i \in 1 .. Len(sent[c]) :
         sent[c][i].kind = "request" /\ sent[c][i].addr = uses[c].addr

\* c has been granted an address by this run of the server, and may use it.
Using(c) == uses[c] # None /\ uses[c].ours
Acked(c) == answer[c] # None /\ answer[c].kind = "ack" /\ answer[c].ours /\ asks[c].left > 0

\* The table has a lease of a for c, for n more ticks at least.
Leased(c, a, n) == leases[a] # None /\ leases[a].owner = c /\ leases[a].left >= n

\* What is granted is kept for as long as the guest may use it.
Backed(c) ==
  /\ Using(c) => uses[c].addr \in declined \/ Leased(c, uses[c].addr, uses[c].left)
  /\ Acked(c) => answer[c].addr \in declined \/ Leased(c, answer[c].addr, asks[c].left)

Holds(c, a) == (Using(c) /\ uses[c].addr = a) \/ (Acked(c) /\ answer[c].addr = a)

Exclusive == \A c, d \in Clients, a \in Slots : Holds(c, a) /\ Holds(d, a) => c = d

\* What an earlier run granted runs out within the grace.
Fades(c) ==
  /\ uses[c] # None /\ ~uses[c].ours => uses[c].left <= grace
  /\ answer[c] # None /\ answer[c].kind = "ack" /\ ~answer[c].ours => asks[c].left <= grace

Refused(c) ==
  answer[c] # None /\ answer[c].kind = "nak" /\ answer[c].ours /\ Using(c) =>
    uses[c].addr \in declined

Guarded(c) == LastIsAsked(c) /\ AnswersAsked(c) /\ OnlyRenews(c) /\ Backed(c) /\ Fades(c) /\ Refused(c)

IInv == TypeOK /\ (\A c \in Clients : Guarded(c)) /\ Exclusive

-----------------------------------------------------------------------------
\* None is none of the records it stands in for.
LEMMA NoneIsNoRecord == None \notin Lease \cup Answer \cup Ask \cup Use
<1>1. Slots \subseteq Nat /\ 0 .. LeaseTime \subseteq Nat /\ 1 .. LeaseTime \subseteq Nat
  BY DhcpAssumption DEF Slots
<1>2. None \notin Lease /\ None \notin Use
  BY <1>1, DhcpAssumption DEF Lease, Use
<1>3. None \notin Ask /\ None \notin Answer
  BY <1>1, DhcpAssumption DEF Ask, Answer
<1> QED
  BY <1>2, <1>3

\* A tick keeps the order of what is left.
LEMMA LessIsMonotone ==
  /\ \A n \in 0 .. LeaseTime : Less(n) \in 0 .. LeaseTime
  /\ \A m, n \in 0 .. LeaseTime : m <= n => Less(m) <= Less(n)
  /\ \A n \in 1 .. LeaseTime : n # 1 => Less(n) \in 1 .. LeaseTime
  /\ \A n \in 0 .. LeaseTime : Less(n) > 0 => n > 0
BY DhcpAssumption DEF Less

LEMMA InitIInv == Init => IInv
<1> SUFFICES ASSUME Init PROVE IInv
  OBVIOUS
<1> USE DhcpAssumption DEF Init
<1>1. TypeOK
  BY DEF TypeOK
<1>2. ASSUME NEW c \in Clients PROVE Guarded(c)
  BY DEF Guarded, LastIsAsked, AnswersAsked, OnlyRenews, Backed, Using, Acked, Fades, Refused
<1>3. Exclusive
  BY DEF Exclusive, Holds, Using, Acked
<1> QED
  BY <1>1, <1>2, <1>3 DEF IInv

\* What the arrival, or the loss, of a datagram of c leaves on the way.
LEMMA DatagramLeaves ==
  ASSUME IInv, NEW c \in Clients, sent[c] # <<>>, sent' = [sent EXCEPT ![c] = Tail(@)],
         UNCHANGED <<asks, uses>>
  PROVE  /\ answer[c] = None
         /\ sent' \in [Clients -> Seq(Message)] /\ \A d \in Clients : Len(sent'[d]) <= MaxSent
         /\ sent'[c] = <<>> <=> Len(sent[c]) = 1
         /\ \A d \in Clients : LastIsAsked(d)' /\ OnlyRenews(d)'
         /\ Head(sent[c]) = sent[c][1] /\ sent[c][1] \in Message
<1> USE DEF IInv, TypeOK
<1>1. answer[c] = None
  BY DEF Guarded, AnswersAsked
<1> DEFINE s == sent[c]  t == Tail(sent[c])
<1>2. /\ s \in Seq(Message) /\ Len(s) \in Nat \ {0} /\ s[1] \in Message /\ Head(s) = s[1]
      /\ t \in Seq(Message) /\ Len(t) = Len(s) - 1
      /\ \A i \in 1 .. Len(t) : t[i] = s[i + 1]
  BY HeadTailProperties, EmptySeq, LenProperties
<1>4. sent'[c] = t /\ \A d \in Clients \ {c} : sent'[d] = sent[d]
  OBVIOUS
<1> HIDE DEF s, t
<1>3. t = <<>> <=> Len(s) = 1
  <2>1. t = <<>> => Len(t) = 0
    BY EmptySeq
  <2>2. t # <<>> => Len(t) # 0
    BY <1>2, EmptySeq
  <2> QED
    BY <1>2, <2>1, <2>2
<1>5. sent' \in [Clients -> Seq(Message)] /\ \A d \in Clients : Len(sent'[d]) <= MaxSent
  BY <1>2, DhcpAssumption DEF s, t
<1>6. ASSUME NEW d \in Clients PROVE LastIsAsked(d)' /\ OnlyRenews(d)'
  <2>1. CASE d # c
    BY <1>4, <1>6, <2>1 DEF Guarded, LastIsAsked, OnlyRenews
  <2>2. CASE d = c
    <3>1. LastIsAsked(c)'
      <4> SUFFICES ASSUME asks[c] # None, t # <<>>
                   PROVE  t[Len(t)] = [kind |-> asks[c].kind, addr |-> asks[c].addr]
        BY <1>4 DEF LastIsAsked
      <4>1. Len(t) \in 1 .. Len(t) /\ t[Len(t)] = s[Len(s)]
        BY <1>2, <1>3
      <4> QED
        BY <4>1 DEF Guarded, LastIsAsked, s
    <3>2. OnlyRenews(c)'
      <4> SUFFICES ASSUME uses[c] # None, NEW i \in 1 .. Len(t)
                   PROVE  t[i].kind = "request" /\ t[i].addr = uses[c].addr
        BY <1>4 DEF Guarded, OnlyRenews
      <4>1. i + 1 \in 1 .. Len(s) /\ t[i] = s[i + 1]
        BY <1>2
      <4> QED
        BY <4>1 DEF Guarded, OnlyRenews, s
    <3> QED
      BY <2>2, <3>1, <3>2
  <2> QED
    BY <2>1, <2>2
<1> QED
  BY <1>1, <1>2, <1>3, <1>4, <1>5, <1>6 DEF s

\* The answer to the last datagram is an answer to what is asked.
LEMMA AnswerFits ==
  ASSUME IInv, NEW c \in Clients, sent[c] # <<>>, sent' = [sent EXCEPT ![c] = Tail(@)],
         UNCHANGED <<asks, uses>>,
         NEW kind \in {"offer", "ack", "nak"}, NEW a \in Slots \cup {None},
         Answered(c, kind, a),
         kind = "offer" => Head(sent[c]).kind = "discover" /\ a \in Slots,
         kind # "offer" => Head(sent[c]).kind = "request",
         kind = "ack" => a = Head(sent[c]).addr /\ a \in Slots \ {Host}
  PROVE  /\ answer' \in [Clients -> Answer \cup {None}]
         /\ \A d \in Clients : AnswersAsked(d)'
         /\ \A d \in Clients \ {c} : answer'[d] = answer[d]
         /\ answer'[c] = None
              \/ (answer'[c] = [kind |-> kind, addr |-> a, ours |-> TRUE] /\ asks[c] # None
                  /\ Head(sent[c]) = [kind |-> asks[c].kind, addr |-> asks[c].addr])
<1> USE DEF IInv, TypeOK
<1>1. /\ answer[c] = None /\ Head(sent[c]) = sent[c][1]
      /\ sent'[c] = <<>> <=> Len(sent[c]) = 1
  BY DatagramLeaves
<1>2. CASE Len(sent[c]) = 1 /\ asks[c] # None
  <2>1. /\ answer' = [answer EXCEPT ![c] = [kind |-> kind, addr |-> a, ours |-> TRUE]]
        /\ [kind |-> kind, addr |-> a, ours |-> TRUE] \in Answer
    BY <1>2 DEF Answered, Answer
  <2>2. Head(sent[c]) = [kind |-> asks[c].kind, addr |-> asks[c].addr]
    BY <1>1, <1>2 DEF Guarded, LastIsAsked
  <2>3. sent'[c] = <<>>
    BY <1>1, <1>2
  <2>4. ASSUME NEW d \in Clients PROVE AnswersAsked(d)'
    <3>1. CASE d = c
      BY <1>2, <2>1, <2>2, <2>3, <3>1 DEF AnswersAsked
    <3>2. CASE d # c
      BY <2>1, <3>2 DEF Guarded, AnswersAsked
    <3> QED
      BY <3>1, <3>2
  <2> QED
    BY <1>2, <2>1, <2>2, <2>4
<1>3. CASE ~(Len(sent[c]) = 1 /\ asks[c] # None)
  <2>1. answer' = answer
    BY <1>3 DEF Answered
  <2>2. ASSUME NEW d \in Clients PROVE AnswersAsked(d)'
    BY <1>1, <2>1 DEF Guarded, AnswersAsked
  <2> QED
    BY <1>1, <2>1, <2>2
<1> QED
  BY <1>2, <1>3

\* While the guests stay as they are, an address assigned to c is nobody else's.
LEMMA AssignedIsFree ==
  ASSUME IInv, NEW c \in Clients, NEW d \in Clients \ {c}, NEW a \in Slots,
         Live(a) => leases[a].owner = c, Holds(d, a)
  PROVE  a \in declined
<1> USE DEF IInv, TypeOK
<1>2. CASE Using(d) /\ uses[d].addr = a
  BY <1>2 DEF Guarded, Backed, Leased, Live, Using, Use, Lease
<1>3. CASE Acked(d) /\ answer[d].addr = a
  BY <1>3 DEF Guarded, Backed, Leased, Live, Acked, AnswersAsked, Ask, Lease
<1> QED
  BY <1>2, <1>3 DEF Holds

-----------------------------------------------------------------------------
\* The server.

\* A lease is given, or extended, and the guest told so.
LEMMA AssignStep ==
  ASSUME IInv, NEW c \in Clients, sent[c] # <<>>, sent' = [sent EXCEPT ![c] = Tail(@)],
         UNCHANGED <<declined, asks, uses, grace>>,
         NEW a \in Slots, Live(a) => leases[a].owner = c,
         Assigned(a, c),
         NEW kind \in {"offer", "ack"}, Answered(c, kind, a),
         kind = "offer" => Head(sent[c]).kind = "discover",
         kind = "ack" => Head(sent[c]).kind = "request" /\ a = Head(sent[c]).addr
                         /\ a \notin declined /\ a # Host
  PROVE  IInv'
<1>1. /\ answer[c] = None
      /\ sent' \in [Clients -> Seq(Message)] /\ \A d \in Clients : Len(sent'[d]) <= MaxSent
      /\ \A d \in Clients : LastIsAsked(d)' /\ OnlyRenews(d)'
  BY DatagramLeaves
<1>2. /\ answer' \in [Clients -> Answer \cup {None}]
      /\ \A d \in Clients : AnswersAsked(d)'
      /\ \A d \in Clients \ {c} : answer'[d] = answer[d]
      /\ answer'[c] = None
           \/ (answer'[c] = [kind |-> kind, addr |-> a, ours |-> TRUE] /\ asks[c] # None)
  <2>1. /\ kind \in {"offer", "ack", "nak"} /\ a \in Slots \cup {None}
        /\ kind = "offer" => Head(sent[c]).kind = "discover" /\ a \in Slots
        /\ kind # "offer" => Head(sent[c]).kind = "request"
        /\ kind = "ack" => a = Head(sent[c]).addr /\ a \in Slots \ {Host}
    OBVIOUS
  <2> QED
    BY <2>1, AnswerFits
<1> USE DEF IInv, TypeOK
<1>3. /\ leases' = [leases EXCEPT ![a] = [owner |-> c, left |-> LeaseTime]]
      /\ leases' \in [Slots -> Lease \cup {None}]
      /\ leases'[a] = [owner |-> c, left |-> LeaseTime] /\ leases'[a] # None
  <2>1. [owner |-> c, left |-> LeaseTime] \in Lease
    BY DhcpAssumption DEF Lease
  <2>2. [owner |-> c, left |-> LeaseTime] # None
    BY DhcpAssumption
  <2> QED
    BY <2>1, <2>2 DEF Assigned
<1>4. TypeOK'
  BY <1>1, <1>2, <1>3
<1>5. ASSUME NEW d \in Clients PROVE Backed(d)' /\ Fades(d)' /\ Refused(d)'
  <2>1. CASE d = c
    <3>1. ASSUME Using(c) PROVE uses[c].addr \in declined \/ Leased(c, uses[c].addr, uses[c].left)'
      BY <1>3, <3>1 DEF Guarded, Backed, Leased, Using, Use, Lease
    <3>2. ASSUME Acked(c)' PROVE answer'[c].addr = a /\ Leased(c, a, asks[c].left)'
      BY <1>2, <1>3, <3>2 DEF Acked, Leased, Ask, Lease
    <3>3. Backed(c)'
      BY <3>1, <3>2 DEF Backed, Using, Leased
    <3>4. Fades(c)' /\ Refused(c)'
      BY <1>2 DEF Guarded, Fades, Refused, Using
    <3> QED
      BY <2>1, <3>3, <3>4
  <2>2. CASE d # c
    <3>1. answer'[d] = answer[d]
      BY <1>2, <2>2
    <3>2. ASSUME Using(d), uses[d].addr \notin declined
          PROVE  Leased(d, uses[d].addr, uses[d].left)'
      <4>1. uses[d].addr \in Slots \ {a} /\ Leased(d, uses[d].addr, uses[d].left)
        BY <2>2, <3>2, AssignedIsFree DEF Holds, Using, Use, Guarded, Backed
      <4> QED
        BY <1>3, <4>1 DEF Leased
    <3>3. ASSUME Acked(d), answer[d].addr \notin declined
          PROVE  Leased(d, answer[d].addr, asks[d].left)'
      <4>1. answer[d].addr \in Slots \ {a} /\ Leased(d, answer[d].addr, asks[d].left)
        BY <2>2, <3>3, AssignedIsFree DEF Holds, Acked, Guarded, Backed, AnswersAsked
      <4> QED
        BY <1>3, <3>1, <4>1 DEF Leased
    <3>4. Backed(d)'
      BY <3>1, <3>2, <3>3 DEF Backed, Using, Acked
    <3>5. Fades(d)' /\ Refused(d)'
      BY <3>1 DEF Guarded, Fades, Refused, Using
    <3> QED
      BY <3>4, <3>5
  <2> QED
    BY <2>1, <2>2
<1>6. Exclusive'
  <2>1. \A d \in Clients \ {c}, b \in Slots : Holds(d, b)' => Holds(d, b)
    BY <1>2 DEF Holds, Using, Acked
  <2>2. \A b \in Slots : Holds(c, b)' => Holds(c, b) \/ (b = a /\ kind = "ack")
    BY <1>2 DEF Holds, Using, Acked
  <2>3. kind = "ack" => \A d \in Clients \ {c} : ~Holds(d, a)
    BY AssignedIsFree
  <2> SUFFICES ASSUME NEW d \in Clients, NEW e \in Clients, NEW b \in Slots,
                      Holds(d, b)', Holds(e, b)'
               PROVE  d = e
    BY DEF Exclusive
  <2>4. CASE d # c /\ e # c
    BY <2>1, <2>4 DEF Exclusive
  <2>5. CASE d = c \/ e = c
    BY <2>1, <2>2, <2>3, <2>5 DEF Exclusive
  <2> QED
    BY <2>4, <2>5
<1> QED
  BY <1>1, <1>2, <1>4, <1>5, <1>6 DEF Guarded

\* Datagrams that only take leases away which nobody relies on, or none.
LEMMA DropStep ==
  ASSUME IInv, NEW c \in Clients, sent[c] # <<>>, sent' = [sent EXCEPT ![c] = Tail(@)],
         UNCHANGED <<answer, asks, uses, grace>>,
         leases' \in [Slots -> Lease \cup {None}],
         declined \subseteq declined', declined' \subseteq Slots,
         \A d \in Clients, b \in Slots : Holds(d, b) /\ b \notin declined' => leases'[b] = leases[b]
  PROVE  IInv'
<1>1. /\ answer[c] = None
      /\ sent' \in [Clients -> Seq(Message)] /\ \A d \in Clients : Len(sent'[d]) <= MaxSent
      /\ \A d \in Clients : LastIsAsked(d)' /\ OnlyRenews(d)'
  BY DatagramLeaves
<1> USE DEF IInv, TypeOK
<1>2. TypeOK'
  BY <1>1
<1>3. ASSUME NEW d \in Clients PROVE AnswersAsked(d)' /\ Backed(d)' /\ Fades(d)' /\ Refused(d)'
  <2>1. AnswersAsked(d)'
    BY <1>1 DEF Guarded, AnswersAsked
  <2>2. ASSUME Using(d), uses[d].addr \notin declined'
        PROVE  Leased(d, uses[d].addr, uses[d].left)'
    <3>1. uses[d].addr \in Slots /\ Holds(d, uses[d].addr) /\ Leased(d, uses[d].addr, uses[d].left)
      BY <2>2 DEF Guarded, Backed, Holds, Using, Use
    <3> QED
      BY <2>2, <3>1 DEF Leased
  <2>3. ASSUME Acked(d), answer[d].addr \notin declined'
        PROVE  Leased(d, answer[d].addr, asks[d].left)'
    <3>1. answer[d].addr \in Slots /\ Holds(d, answer[d].addr)
          /\ Leased(d, answer[d].addr, asks[d].left)
      BY <2>3 DEF Guarded, Backed, Holds, Acked, AnswersAsked
    <3> QED
      BY <2>3, <3>1 DEF Leased
  <2>4. Backed(d)'
    BY <2>2, <2>3 DEF Backed, Using, Acked
  <2>5. Fades(d)' /\ Refused(d)'
    BY DEF Guarded, Fades, Refused, Using
  <2> QED
    BY <2>1, <2>4, <2>5
<1>4. Exclusive'
  BY DEF Exclusive, Holds, Using, Acked
<1> QED
  BY <1>1, <1>2, <1>3, <1>4 DEF Guarded

LEMMA DiscoveredStep ==
  ASSUME IInv, NEW c \in Clients, Discovered(c)
  PROVE  IInv'
<1>1. /\ sent[c] # <<>> /\ sent' = [sent EXCEPT ![c] = Tail(@)] /\ Head(sent[c]).kind = "discover"
      /\ UNCHANGED <<declined, asks, uses, grace>>
  BY DEF Discovered, Arrives
<1>2. CASE UNCHANGED <<leases, answer>>
  BY <1>1, <1>2, DropStep DEF IInv, TypeOK
<1>3. CASE \E a \in Acquired(c) : Assigned(a, c) /\ Answered(c, "offer", a)
  <2>1. PICK a \in Acquired(c) : Assigned(a, c) /\ Answered(c, "offer", a)
    BY <1>3
  <2>2. a \in Slots /\ (Live(a) => leases[a].owner = c)
    BY DEF Acquired, Existing, Probed, Free
  <2> QED
    BY <1>1, <2>1, <2>2, AssignStep
<1> QED
  BY <1>2, <1>3 DEF Discovered

LEMMA RequestedStep ==
  ASSUME IInv, NEW c \in Clients, Requested(c)
  PROVE  IInv'
<1> DEFINE a == Head(sent[c]).addr
<1>1. /\ sent[c] # <<>> /\ sent' = [sent EXCEPT ![c] = Tail(@)] /\ Head(sent[c]).kind = "request"
      /\ UNCHANGED <<declined, asks, uses, grace>>
      /\ \/ Granted(c, a) /\ Assigned(a, c) /\ Answered(c, "ack", a)
         \/ ~Granted(c, a) /\ UNCHANGED leases /\ Answered(c, "nak", None)
  BY DEF Requested, Arrives
<1>2. CASE Granted(c, a) /\ Assigned(a, c) /\ Answered(c, "ack", a)
  <2>1. a \in Slots /\ a \notin declined /\ a # Host /\ (Live(a) => leases[a].owner = c)
    BY <1>2 DEF Granted
  <2> QED
    BY <1>1, <1>2, <2>1, AssignStep
<1>3. CASE ~Granted(c, a) /\ UNCHANGED leases /\ Answered(c, "nak", None)
  <2>1. /\ answer[c] = None /\ Head(sent[c]) = sent[c][1] /\ sent[c][1] \in Message
        /\ sent' \in [Clients -> Seq(Message)] /\ \A d \in Clients : Len(sent'[d]) <= MaxSent
        /\ \A d \in Clients : LastIsAsked(d)' /\ OnlyRenews(d)'
    BY <1>1, DatagramLeaves
  <2>2. /\ answer' \in [Clients -> Answer \cup {None}]
        /\ \A d \in Clients : AnswersAsked(d)'
        /\ \A d \in Clients \ {c} : answer'[d] = answer[d]
        /\ answer'[c] # None => answer'[c].kind = "nak"
    <3>1. /\ "nak" \in {"offer", "ack", "nak"} /\ None \in Slots \cup {None}
          /\ sent[c] # <<>> /\ sent' = [sent EXCEPT ![c] = Tail(@)]
          /\ UNCHANGED <<asks, uses>> /\ Answered(c, "nak", None)
          /\ "nak" = "offer" => Head(sent[c]).kind = "discover" /\ None \in Slots
          /\ "nak" # "offer" => Head(sent[c]).kind = "request"
          /\ "nak" = "ack" => None = Head(sent[c]).addr /\ None \in Slots \ {Host}
      BY <1>1, <1>3
    <3>2. /\ answer' \in [Clients -> Answer \cup {None}]
          /\ \A d \in Clients : AnswersAsked(d)'
          /\ \A d \in Clients \ {c} : answer'[d] = answer[d]
          /\ answer'[c] = None \/ answer'[c] = [kind |-> "nak", addr |-> None, ours |-> TRUE]
      BY <3>1, AnswerFits
    <3> QED
      BY <3>2
  <2> USE DEF IInv, TypeOK
  <2>3. Using(c) => uses[c].addr \in declined
    <3> SUFFICES ASSUME Using(c), uses[c].addr \notin declined PROVE FALSE
      OBVIOUS
    <3>1. uses[c].addr = a
      <4>1. Len(sent[c]) \in Nat \ {0}
        BY <1>1, EmptySeq
      <4> QED
        BY <2>1, <4>1 DEF Guarded, OnlyRenews, Using
    <3>2. a \in Slots \ {Host} /\ Leased(c, a, uses[c].left) /\ uses[c].left > 0
      BY <3>1 DEF Guarded, Backed, Using, Use
    <3> QED
      BY <1>3, <3>1, <3>2 DEF Granted, Live, Leased
  <2>4. ASSUME NEW d \in Clients PROVE Backed(d)' /\ Fades(d)' /\ Refused(d)'
    <3>1. Acked(d)' => Acked(d) /\ answer'[d] = answer[d]
      BY <1>1, <2>2 DEF Acked
    <3> QED
      BY <1>1, <1>3, <2>2, <2>3, <3>1 DEF Guarded, Backed, Fades, Refused, Using, Leased
  <2>5. Exclusive'
    <3>1. ASSUME NEW d \in Clients, NEW b \in Slots, Holds(d, b)' PROVE Holds(d, b)
      <4>1. Using(d)' => Using(d) /\ uses'[d] = uses[d]
        BY <1>1 DEF Using
      <4>2. Acked(d)' => Acked(d) /\ answer'[d] = answer[d]
        BY <1>1, <2>2 DEF Acked
      <4> QED
        BY <3>1, <4>1, <4>2 DEF Holds
    <3>2. Exclusive
      OBVIOUS
    <3> HIDE DEF IInv, TypeOK
    <3> QED
      BY <3>1, <3>2 DEF Exclusive
  <2> QED
    BY <1>1, <1>3, <2>1, <2>2, <2>4, <2>5 DEF Guarded
<1> QED
  BY <1>1, <1>2, <1>3

LEMMA GivenUpStep ==
  ASSUME IInv, NEW c \in Clients, GivenUp(c)
  PROVE  IInv'
<1>1. /\ sent[c] # <<>> /\ sent' = [sent EXCEPT ![c] = Tail(@)]
      /\ Head(sent[c]).kind \in {"release", "elsewhere"}
      /\ UNCHANGED <<declined, answer, asks, uses, grace>> /\ Released(c)
  BY DEF GivenUp, Arrives
<1>2. CASE UNCHANGED leases
  BY <1>1, <1>2, DropStep DEF IInv, TypeOK
<1>3. CASE \E a \in Existing(c) : leases' = [leases EXCEPT ![a] = None]
  <2>1. PICK a \in Existing(c) : leases' = [leases EXCEPT ![a] = None]
    BY <1>3
  <2>2. a \in Slots /\ leases[a].owner = c
    BY DEF Existing
  <2>3. \A b \in Slots : ~Holds(c, b)
    <3>1. answer[c] = None /\ Head(sent[c]) = sent[c][1] /\ Len(sent[c]) \in Nat \ {0}
      BY <1>1, DatagramLeaves, EmptySeq DEF IInv, TypeOK
    <3>2. uses[c] = None
      BY <1>1, <3>1 DEF IInv, Guarded, OnlyRenews
    <3> QED
      BY <3>1, <3>2 DEF Holds, Using, Acked
  <2>4. ASSUME NEW d \in Clients, NEW b \in Slots, Holds(d, b), b \notin declined
        PROVE  leases'[b] = leases[b]
    BY <2>1, <2>2, <2>3, <2>4, AssignedIsFree DEF IInv, TypeOK
  <2>5. leases' \in [Slots -> Lease \cup {None}]
    BY <2>1 DEF IInv, TypeOK
  <2>6. declined \subseteq declined' /\ declined' \subseteq Slots /\ declined' = declined
    BY <1>1 DEF IInv, TypeOK
  <2> QED
    BY <1>1, <2>4, <2>5, <2>6, DropStep
<1> QED
  BY <1>1, <1>2, <1>3 DEF Released

LEMMA DeclineReceivedStep ==
  ASSUME IInv, NEW c \in Clients, DeclineReceived(c)
  PROVE  IInv'
<1> DEFINE a == Head(sent[c]).addr
<1>1. /\ sent[c] # <<>> /\ sent' = [sent EXCEPT ![c] = Tail(@)] /\ Head(sent[c]).kind = "decline"
      /\ declined' = declined \cup {a} /\ leases' = [leases EXCEPT ![a] = None]
      /\ UNCHANGED <<answer, asks, uses, grace>>
  BY DEF DeclineReceived, Arrives, Declined
<1>2. a \in Slots
  BY <1>1, DatagramLeaves DEF Message
<1>3. leases' \in [Slots -> Lease \cup {None}] /\ declined' \subseteq Slots
  BY <1>1, <1>2 DEF IInv, TypeOK
<1> QED
  BY <1>1, <1>3, DropStep

\* What the restart forgets is nobody's any more.
LEMMA RestartStep ==
  ASSUME IInv, Restart
  PROVE  IInv'
<1> USE DEF IInv, TypeOK
<1>1. ASSUME NEW c \in Clients
      PROVE  /\ answer'[c] \in Answer \cup {None}
             /\ answer[c] = None => answer'[c] = None
             /\ answer'[c] # None => /\ answer[c] # None
                                     /\ answer'[c].kind = answer[c].kind
                                     /\ answer'[c].addr = answer[c].addr /\ ~answer'[c].ours
  <2>1. answer'[c] = IF answer[c] = None THEN None ELSE [answer[c] EXCEPT !.ours = FALSE]
    BY DEF Restart
  <2>2. CASE answer[c] # None
    BY <2>1, <2>2 DEF Answer
  <2> QED
    BY <2>1, <2>2
<1>2. ASSUME NEW c \in Clients
      PROVE  /\ uses'[c] \in Use \cup {None}
             /\ uses'[c] # None => /\ uses[c] # None
                                   /\ uses'[c].addr = uses[c].addr /\ uses'[c].left = uses[c].left
                                   /\ ~uses'[c].ours
  <2>1. uses'[c] = IF uses[c] = None THEN None ELSE [uses[c] EXCEPT !.ours = FALSE]
    BY DEF Restart
  <2>2. CASE uses[c] # None
    BY <2>1, <2>2 DEF Use
  <2> QED
    BY <2>1, <2>2
<1>3. /\ UNCHANGED <<sent, asks>> /\ grace' = LeaseTime
      /\ leases' \in [Slots -> Lease \cup {None}] /\ declined' \subseteq Slots
      /\ grace' \in 0 .. LeaseTime
  BY DhcpAssumption DEF Restart
<1>4. TypeOK'
  <2>1. answer' \in [Clients -> Answer \cup {None}]
    BY <1>1 DEF Restart
  <2>2. uses' \in [Clients -> Use \cup {None}]
    BY <1>2 DEF Restart
  <2> QED
    BY <1>2, <1>3, <2>1, <2>2
<1>5. ASSUME NEW c \in Clients PROVE Guarded(c)'
  <2>1. LastIsAsked(c)' /\ OnlyRenews(c)'
    BY <1>2, <1>3 DEF Guarded, LastIsAsked, OnlyRenews
  <2>2. AnswersAsked(c)'
    BY <1>1, <1>3 DEF Guarded, AnswersAsked
  <2>3. ~Using(c)' /\ ~Acked(c)'
    BY <1>1, <1>2 DEF Using, Acked
  <2>4. Backed(c)' /\ Refused(c)'
    BY <2>3 DEF Backed, Refused
  <2>5. Fades(c)'
    BY <1>1, <1>2, <1>3 DEF Fades, Use, Ask, Guarded, AnswersAsked
  <2> QED
    BY <2>1, <2>2, <2>4, <2>5 DEF Guarded
<1>6. Exclusive'
  BY <1>1, <1>2 DEF Exclusive, Holds, Using, Acked
<1> QED
  BY <1>4, <1>5, <1>6

\* A tick takes as much from the guests as from the table.
LEMMA TickStep ==
  ASSUME IInv, Tick
  PROVE  IInv'
<1> USE DEF IInv, TypeOK
<1>1. ASSUME NEW a \in Slots
      PROVE  /\ leases'[a] \in Lease \cup {None}
             /\ leases[a] # None => /\ leases'[a] # None /\ leases'[a].owner = leases[a].owner
                                    /\ leases'[a].left = Less(leases[a].left)
  <2>1. leases'[a] = Aged(leases[a])
    BY DEF Tick
  <2>2. CASE leases[a] # None
    <3>1. Less(leases[a].left) \in 0 .. LeaseTime
      BY <2>2, LessIsMonotone DEF Lease
    <3> QED
      BY <2>1, <2>2, <3>1, NoneIsNoRecord DEF Aged, Lease
  <2> QED
    BY <2>1, <2>2 DEF Aged
<1>2. ASSUME NEW c \in Clients
      PROVE  /\ asks'[c] \in Ask \cup {None}
             /\ asks[c] = None <=> asks'[c] = None
             /\ asks[c] # None => /\ asks'[c].kind = asks[c].kind /\ asks'[c].addr = asks[c].addr
                                  /\ asks'[c].left = Less(asks[c].left)
  <2>1. asks'[c] = Aged(asks[c])
    BY DEF Tick
  <2>2. CASE asks[c] # None
    <3>1. Less(asks[c].left) \in 0 .. LeaseTime
      BY <2>2, LessIsMonotone DEF Ask
    <3> QED
      BY <2>1, <2>2, <3>1, NoneIsNoRecord DEF Aged, Ask
  <2> QED
    BY <2>1, <2>2 DEF Aged
<1>3. ASSUME NEW c \in Clients
      PROVE  /\ uses'[c] \in Use \cup {None}
             /\ uses'[c] # None => /\ uses[c] # None /\ uses'[c].addr = uses[c].addr
                                   /\ uses'[c].ours = uses[c].ours
                                   /\ uses'[c].left = Less(uses[c].left)
  <2>1. uses'[c] = IF uses[c] # None /\ uses[c].left = 1 THEN None ELSE Aged(uses[c])
    BY DEF Tick
  <2>2. CASE uses[c] # None /\ uses[c].left # 1
    <3>1. Less(uses[c].left) \in 1 .. LeaseTime
      BY <2>2, LessIsMonotone DEF Use
    <3> QED
      BY <2>1, <2>2, <3>1, NoneIsNoRecord DEF Aged, Use
  <2> QED
    BY <2>1, <2>2 DEF Aged
<1>4. UNCHANGED <<declined, sent, answer>> /\ grace' = Less(grace)
  BY DEF Tick
<1>5. TypeOK'
  <2>1. leases' \in [Slots -> Lease \cup {None}]
    BY <1>1 DEF Tick
  <2>2. asks' \in [Clients -> Ask \cup {None}]
    BY <1>2 DEF Tick
  <2>3. uses' \in [Clients -> Use \cup {None}]
    BY <1>3 DEF Tick
  <2>4. grace' \in 0 .. LeaseTime
    BY <1>4, LessIsMonotone
  <2> QED
    BY <1>3, <1>4, <2>1, <2>2, <2>3, <2>4
<1>6. ASSUME NEW c \in Clients
      PROVE  /\ Using(c)' => Using(c) /\ uses'[c].addr = uses[c].addr
             /\ Acked(c)' => Acked(c)
  <2>1. Using(c)' => Using(c) /\ uses'[c].addr = uses[c].addr
    BY <1>3 DEF Using
  <2>2. ASSUME Acked(c)' PROVE Acked(c)
    <3>1. asks[c] # None /\ asks[c].left \in 0 .. LeaseTime /\ Less(asks[c].left) > 0
      BY <1>2, <1>4, <2>2 DEF Acked, Guarded, AnswersAsked, Ask
    <3> QED
      BY <1>4, <2>2, <3>1, LessIsMonotone DEF Acked
  <2> QED
    BY <2>1, <2>2
<1>7. ASSUME NEW c \in Clients PROVE Guarded(c)'
  <2>1. LastIsAsked(c)' /\ AnswersAsked(c)' /\ OnlyRenews(c)'
    <3>1. LastIsAsked(c)'
      BY <1>2, <1>4 DEF Guarded, LastIsAsked
    <3>2. AnswersAsked(c)'
      BY <1>2, <1>4 DEF Guarded, AnswersAsked
    <3>3. OnlyRenews(c)'
      BY <1>2, <1>3, <1>4 DEF Guarded, OnlyRenews
    <3> QED
      BY <3>1, <3>2, <3>3
  <2>2. ASSUME Using(c)', uses'[c].addr \notin declined
        PROVE  Leased(c, uses[c].addr, uses[c].left)'
    <3>1. uses[c].addr \in Slots /\ Leased(c, uses[c].addr, uses[c].left)
      BY <1>6, <2>2 DEF Guarded, Backed, Using, Use
    <3>2. uses'[c].addr = uses[c].addr /\ uses'[c].left = Less(uses[c].left)
          /\ uses[c].left \in 1 .. LeaseTime
      BY <1>3, <2>2 DEF Using, Use
    <3> QED
      BY <1>1, <3>1, <3>2, LessIsMonotone DEF Leased, Lease
  <2>3. ASSUME Acked(c)', answer'[c].addr \notin declined
        PROVE  Leased(c, answer[c].addr, asks[c].left)'
    <3>1. answer[c].addr \in Slots /\ Leased(c, answer[c].addr, asks[c].left) /\ asks[c] # None
      BY <1>4, <1>6, <2>3 DEF Guarded, Backed, Acked, AnswersAsked
    <3>2. asks'[c].left = Less(asks[c].left) /\ asks[c].left \in 0 .. LeaseTime
      BY <1>2, <3>1 DEF Ask
    <3> QED
      BY <1>1, <1>4, <3>1, <3>2, LessIsMonotone DEF Leased, Lease
  <2>4. Backed(c)'
    BY <1>4, <2>2, <2>3 DEF Backed
  <2>5. Fades(c)'
    <3>1. ASSUME uses'[c] # None, ~uses'[c].ours PROVE uses'[c].left <= grace'
      <4>1. uses[c].left <= grace /\ uses[c].left \in 1 .. LeaseTime /\ grace \in 0 .. LeaseTime
        BY <1>3, <3>1 DEF Guarded, Fades, Use
      <4> QED
        BY <1>3, <1>4, <3>1, <4>1, LessIsMonotone
    <3>2. ASSUME answer[c] # None, answer[c].kind = "ack", ~answer[c].ours
          PROVE  asks'[c].left <= grace'
      <4>1. asks[c] # None /\ asks[c].left <= grace
            /\ asks[c].left \in 0 .. LeaseTime /\ grace \in 0 .. LeaseTime
        BY <3>2 DEF Guarded, Fades, AnswersAsked, Ask
      <4> QED
        BY <1>2, <1>4, <4>1, LessIsMonotone
    <3> QED
      BY <1>4, <3>1, <3>2 DEF Fades
  <2>6. Refused(c)'
    BY <1>4, <1>6 DEF Guarded, Refused
  <2> QED
    BY <2>1, <2>4, <2>5, <2>6 DEF Guarded
<1>8. Exclusive'
  BY <1>4, <1>6, ZenonT(40) DEF Exclusive, Holds
<1> QED
  BY <1>5, <1>7, <1>8

-----------------------------------------------------------------------------
\* The network.

LEMMA LoseStep ==
  ASSUME IInv, NEW c \in Clients, Lose(c)
  PROVE  IInv'
<1>1. /\ sent[c] # <<>> /\ sent' = [sent EXCEPT ![c] = Tail(@)]
      /\ UNCHANGED <<leases, declined, answer, asks, uses, grace>>
  BY DEF Lose, serverVars
<1>2. leases' \in [Slots -> Lease \cup {None}] /\ declined' \subseteq Slots
  BY <1>1 DEF IInv, TypeOK
<1> QED
  BY <1>1, <1>2, DropStep

LEMMA LoseAnswerStep ==
  ASSUME IInv, NEW c \in Clients, LoseAnswer(c)
  PROVE  IInv'
<1> USE DEF IInv, TypeOK
<1>1. /\ answer' = [answer EXCEPT ![c] = None]
      /\ UNCHANGED <<leases, declined, sent, asks, uses, grace>>
  BY DEF LoseAnswer, serverVars
<1>2. TypeOK'
  BY <1>1
<1>3. ASSUME NEW d \in Clients PROVE answer'[d] = None \/ answer'[d] = answer[d]
  BY <1>1
<1>4. ASSUME NEW d \in Clients PROVE Guarded(d)'
  <2>1. LastIsAsked(d)' /\ OnlyRenews(d)' /\ AnswersAsked(d)'
    <3>1. LastIsAsked(d)'
      BY <1>1, <1>3 DEF Guarded, LastIsAsked
    <3>2. OnlyRenews(d)'
      BY <1>1, <1>3 DEF Guarded, OnlyRenews
    <3>3. AnswersAsked(d)'
      BY <1>1, <1>3 DEF Guarded, AnswersAsked
    <3> QED
      BY <3>1, <3>2, <3>3
  <2>2. Backed(d)' /\ Fades(d)' /\ Refused(d)'
    BY <1>1, <1>3 DEF Guarded, Backed, Fades, Refused, Using, Acked, Leased
  <2> QED
    BY <2>1, <2>2 DEF Guarded
<1>5. Exclusive'
  BY <1>1, <1>3 DEF Exclusive, Holds, Using, Acked
<1> QED
  BY <1>2, <1>4, <1>5

-----------------------------------------------------------------------------
\* The guests.

\* A guest that drops what it was answered, and keeps or drops the address it uses.
LEMMA GuestStep ==
  ASSUME IInv, NEW c \in Clients, UNCHANGED <<leases, declined, grace>>,
         NEW s \in Seq(Message), Len(s) <= MaxSent, sent' = [sent EXCEPT ![c] = s],
         answer' = [answer EXCEPT ![c] = None],
         NEW x \in Ask \cup {None}, asks' = [asks EXCEPT ![c] = x],
         NEW y \in {None, uses[c]}, uses' = [uses EXCEPT ![c] = y],
         x # None /\ s # <<>> => s[Len(s)] = [kind |-> x.kind, addr |-> x.addr],
         y # None => /\ x # None => x.kind = "request" /\ x.addr = y.addr
                     /\ \A i \in 1 .. Len(s) : s[i].kind = "request" /\ s[i].addr = y.addr
  PROVE  IInv'
<1> USE DEF IInv, TypeOK
<1>1. /\ sent'[c] = s /\ answer'[c] = None /\ asks'[c] = x /\ uses'[c] = y
      /\ \A d \in Clients \ {c} : /\ sent'[d] = sent[d] /\ answer'[d] = answer[d]
                                  /\ asks'[d] = asks[d] /\ uses'[d] = uses[d]
  OBVIOUS
<1>2. TypeOK'
  BY <1>1
<1>3. ASSUME NEW d \in Clients \ {c} PROVE Guarded(d)'
  <2>1. LastIsAsked(d)' /\ OnlyRenews(d)' /\ AnswersAsked(d)'
    <3>1. LastIsAsked(d)'
      BY <1>1 DEF Guarded, LastIsAsked
    <3>2. OnlyRenews(d)'
      BY <1>1 DEF Guarded, OnlyRenews
    <3>3. AnswersAsked(d)'
      BY <1>1 DEF Guarded, AnswersAsked
    <3> QED
      BY <3>1, <3>2, <3>3
  <2>2. Backed(d)' /\ Fades(d)' /\ Refused(d)'
    BY <1>1 DEF Guarded, Backed, Fades, Refused, Using, Acked, Leased
  <2> QED
    BY <2>1, <2>2 DEF Guarded
<1>4. Guarded(c)'
  <2>1. LastIsAsked(c)' /\ OnlyRenews(c)' /\ AnswersAsked(c)'
    BY <1>1 DEF LastIsAsked, OnlyRenews, AnswersAsked
  <2>2. Backed(c)' /\ Fades(c)' /\ Refused(c)'
    BY <1>1 DEF Guarded, Backed, Fades, Refused, Using, Acked, Leased
  <2> QED
    BY <2>1, <2>2 DEF Guarded
<1>5. ASSUME NEW d \in Clients, NEW a \in Slots, Holds(d, a)' PROVE Holds(d, a)
  BY <1>1, <1>5 DEF Holds, Using, Acked
<1>6. Exclusive'
  BY <1>5 DEF Exclusive
<1> QED
  BY <1>2, <1>3, <1>4, <1>6

\* What a guest that sends a datagram has on the way.
LEMMA SendLeaves ==
  ASSUME IInv, NEW c \in Clients, NEW kind, NEW a, Send(c, kind, a),
         [kind |-> kind, addr |-> a] \in Message
  PROVE  \E s \in Seq(Message) :
           /\ Len(s) <= MaxSent /\ sent' = [sent EXCEPT ![c] = s]
           /\ s[Len(s)] = [kind |-> kind, addr |-> a]
           /\ \A i \in 1 .. Len(s) : s[i] = [kind |-> kind, addr |-> a]
                                     \/ (i \in 1 .. Len(sent[c]) /\ s[i] = sent[c][i])
<1> DEFINE m == [kind |-> kind, addr |-> a]
<1>1. m \in Message /\ sent[c] \in Seq(Message) /\ Len(sent[c]) < MaxSent
      /\ sent' = [sent EXCEPT ![c] = Append(@, m)]
  BY DEF Send, IInv, TypeOK
<1> DEFINE s == Append(sent[c], m)
<1> HIDE DEF m
<1>2. /\ s \in Seq(Message) /\ Len(s) = Len(sent[c]) + 1 /\ s[Len(s)] = m
      /\ \A i \in 1 .. Len(sent[c]) : s[i] = sent[c][i]
  BY <1>1, AppendProperties
<1>3. sent' = [sent EXCEPT ![c] = s]
  BY <1>1
<1>4. Len(sent[c]) \in Nat
  BY <1>1
<1> HIDE DEF s
<1>5. Len(s) <= MaxSent
  BY <1>1, <1>2, <1>4, DhcpAssumption
<1>6. \A i \in 1 .. Len(s) : s[i] = m \/ (i \in 1 .. Len(sent[c]) /\ s[i] = sent[c][i])
  BY <1>2, <1>4
<1> QED
  BY <1>2, <1>3, <1>5, <1>6 DEF m

\* A guest asks; what it uses already it asks for again.
LEMMA AskStep ==
  ASSUME IInv, NEW c \in Clients, UNCHANGED <<leases, declined, grace>>,
         NEW kind \in {"discover", "request"}, NEW a \in Slots \cup {None},
         Send(c, kind, a), Waits(c, kind, a),
         NEW y \in {None, uses[c]}, uses' = [uses EXCEPT ![c] = y],
         y # None => kind = "request" /\ a = y.addr
  PROVE  IInv'
<1>1. [kind |-> kind, addr |-> a] \in Message
  BY DEF Message
<1>2. PICK s \in Seq(Message) :
        /\ Len(s) <= MaxSent /\ sent' = [sent EXCEPT ![c] = s]
        /\ s[Len(s)] = [kind |-> kind, addr |-> a]
        /\ \A i \in 1 .. Len(s) : s[i] = [kind |-> kind, addr |-> a]
                                  \/ (i \in 1 .. Len(sent[c]) /\ s[i] = sent[c][i])
  BY <1>1, SendLeaves
<1> DEFINE x == [kind |-> kind, addr |-> a, left |-> LeaseTime]
<1>3. x \in Ask /\ x # None /\ x.kind = kind /\ x.addr = a /\ asks' = [asks EXCEPT ![c] = x]
  BY DhcpAssumption, NoneIsNoRecord DEF Ask, Waits
<1>4. answer' = [answer EXCEPT ![c] = None]
  BY DEF Send
<1> HIDE DEF x
<1>5. ASSUME y # None, NEW i \in 1 .. Len(s) PROVE s[i].kind = "request" /\ s[i].addr = y.addr
  BY <1>2, <1>5 DEF IInv, Guarded, OnlyRenews
<1>6. /\ x # None /\ s # <<>> => s[Len(s)] = [kind |-> x.kind, addr |-> x.addr]
      /\ y # None => /\ x # None => x.kind = "request" /\ x.addr = y.addr
                     /\ \A i \in 1 .. Len(s) : s[i].kind = "request" /\ s[i].addr = y.addr
  BY <1>2, <1>3, <1>5
<1>7. Len(s) <= MaxSent /\ sent' = [sent EXCEPT ![c] = s] /\ x \in Ask \cup {None}
  BY <1>2, <1>3
<1> QED
  BY <1>3, <1>4, <1>6, <1>7, GuestStep

\* A guest tells the server something and asks for nothing.
LEMMA TellStep ==
  ASSUME IInv, NEW c \in Clients, UNCHANGED <<leases, declined, grace>>,
         NEW kind, NEW a, [kind |-> kind, addr |-> a] \in Message,
         Send(c, kind, a), WaitsNoMore(c),
         uses' = [uses EXCEPT ![c] = None]
  PROVE  IInv'
<1>1. PICK s \in Seq(Message) : Len(s) <= MaxSent /\ sent' = [sent EXCEPT ![c] = s]
  BY SendLeaves
<1>2. answer' = [answer EXCEPT ![c] = None] /\ asks' = [asks EXCEPT ![c] = None]
  BY DEF Send, WaitsNoMore
<1>3. None \in Ask \cup {None} /\ None \in {None, uses[c]}
  OBVIOUS
<1> QED
  BY <1>1, <1>2, <1>3, GuestStep

\* A guest takes an acknowledgement: the address is nobody else's of this run.
LEMMA UseStep ==
  ASSUME IInv, NEW c \in Clients, UNCHANGED <<leases, declined, grace, sent>>,
         answer[c] # None, answer[c].kind = "ack", asks[c].left > 0,
         uses' = [uses EXCEPT ![c] = [addr |-> answer[c].addr, left |-> asks[c].left,
                                      ours |-> answer[c].ours]],
         answer' = [answer EXCEPT ![c] = None], WaitsNoMore(c)
  PROVE  IInv'
<1> USE DEF IInv, TypeOK
<1> DEFINE u == [addr |-> answer[c].addr, left |-> asks[c].left, ours |-> answer[c].ours]
<1>1. /\ asks[c] # None /\ sent[c] = <<>> /\ asks[c].left \in 1 .. LeaseTime
      /\ answer[c].addr \in Slots \ {Host} /\ answer[c].ours \in BOOLEAN
  BY DEF Guarded, AnswersAsked, Ask, Answer
<1>2. /\ u \in Use /\ u # None /\ u.addr = answer[c].addr /\ u.left = asks[c].left
      /\ u.ours = answer[c].ours /\ uses' = [uses EXCEPT ![c] = u]
  BY <1>1, NoneIsNoRecord DEF Use
<1> HIDE DEF u
<1>3. /\ uses'[c] = u /\ answer'[c] = None /\ asks'[c] = None
      /\ \A d \in Clients \ {c} : /\ answer'[d] = answer[d]
                                  /\ asks'[d] = asks[d] /\ uses'[d] = uses[d]
  BY <1>2 DEF WaitsNoMore
<1>4. TypeOK'
  BY <1>1, <1>2, <1>3 DEF WaitsNoMore
<1>5. ASSUME NEW d \in Clients \ {c} PROVE Guarded(d)'
  <2>1. LastIsAsked(d)' /\ OnlyRenews(d)' /\ AnswersAsked(d)'
    <3>1. LastIsAsked(d)'
      BY <1>3, ZenonT(40) DEF Guarded, LastIsAsked
    <3>2. OnlyRenews(d)'
      BY <1>3 DEF Guarded, OnlyRenews
    <3>3. AnswersAsked(d)'
      BY <1>3 DEF Guarded, AnswersAsked
    <3> QED
      BY <3>1, <3>2, <3>3
  <2>2. Backed(d)' /\ Fades(d)' /\ Refused(d)'
    BY <1>3 DEF Guarded, Backed, Fades, Refused, Using, Acked, Leased
  <2> QED
    BY <2>1, <2>2 DEF Guarded
<1>6. Guarded(c)'
  <2>1. LastIsAsked(c)' /\ AnswersAsked(c)'
    BY <1>3 DEF LastIsAsked, AnswersAsked
  <2>2. OnlyRenews(c)'
    BY <1>1, <1>3, EmptySeq DEF OnlyRenews
  <2>3. Backed(c)' /\ Fades(c)' /\ Refused(c)'
    BY <1>1, <1>2, <1>3 DEF Guarded, Backed, Fades, Refused, Using, Acked, Leased
  <2> QED
    BY <2>1, <2>2, <2>3 DEF Guarded
<1>7. ASSUME NEW d \in Clients, NEW a \in Slots, Holds(d, a)' PROVE Holds(d, a)
  BY <1>2, <1>3, <1>7 DEF Holds, Using, Acked
<1>8. Exclusive'
  BY <1>7 DEF Exclusive
<1> QED
  BY <1>4, <1>5, <1>6, <1>8

LEMMA BootStep ==
  ASSUME IInv, NEW c \in Clients,
         Discover(c) \/ (\E a \in Slots \cup {None} : Reboot(c, a)) \/ Renew(c) \/ Release(c)
  PROVE  IInv'
<1>1. CASE Discover(c)
  <2>1. /\ "discover" \in {"discover", "request"} /\ None \in Slots \cup {None}
        /\ None \in {None, uses[c]} /\ uses' = [uses EXCEPT ![c] = None]
        /\ UNCHANGED <<leases, declined, grace>>
        /\ Send(c, "discover", None) /\ Waits(c, "discover", None)
    BY <1>1 DEF Discover, Stops, serverVars
  <2> QED
    BY <2>1, AskStep
<1>2. ASSUME NEW a \in Slots \cup {None}, Reboot(c, a) PROVE IInv'
  <2>1. /\ "request" \in {"discover", "request"}
        /\ None \in {None, uses[c]} /\ uses' = [uses EXCEPT ![c] = None]
        /\ UNCHANGED <<leases, declined, grace>>
        /\ Send(c, "request", a) /\ Waits(c, "request", a)
    BY <1>2 DEF Reboot, Stops, serverVars
  <2> QED
    BY <2>1, AskStep
<1>3. CASE Renew(c)
  <2>1. /\ "request" \in {"discover", "request"} /\ uses[c].addr \in Slots \cup {None}
        /\ uses[c] \in {None, uses[c]} /\ uses' = [uses EXCEPT ![c] = uses[c]]
        /\ UNCHANGED <<leases, declined, grace>>
        /\ Send(c, "request", uses[c].addr) /\ Waits(c, "request", uses[c].addr)
    BY <1>3 DEF Renew, serverVars, IInv, TypeOK, Use
  <2> QED
    BY <2>1, AskStep
<1>4. CASE Release(c)
  <2>1. /\ [kind |-> "release", addr |-> None] \in Message
        /\ uses' = [uses EXCEPT ![c] = None] /\ UNCHANGED <<leases, declined, grace>>
        /\ Send(c, "release", None) /\ WaitsNoMore(c)
    BY <1>4 DEF Release, Stops, serverVars, Message
  <2> QED
    BY <2>1, TellStep
<1> QED
  BY <1>1, <1>2, <1>3, <1>4

LEMMA TakeStep ==
  ASSUME IInv, NEW c \in Clients, TakeOffer(c) \/ TakeAck(c) \/ TakeNak(c)
  PROVE  IInv'
<1> USE DEF IInv, TypeOK
<1>1. CASE TakeOffer(c)
  <2>1. /\ uses[c] = None /\ answer[c].addr \in Slots
        /\ UNCHANGED <<leases, declined, uses, grace>>
    BY <1>1 DEF TakeOffer, Guarded, AnswersAsked, OnlyRenews, serverVars
  <2>2. uses' = [uses EXCEPT ![c] = None] /\ None \in {None, uses[c]}
    BY <2>1
  <2>3. CASE Send(c, "request", answer[c].addr) /\ Waits(c, "request", answer[c].addr)
    <3>1. "request" \in {"discover", "request"} /\ answer[c].addr \in Slots \cup {None}
      BY <2>1
    <3> HIDE DEF IInv, TypeOK
    <3> QED
      BY <2>1, <2>2, <2>3, <3>1, AskStep
  <2>4. CASE Send(c, "elsewhere", None) /\ WaitsNoMore(c)
    <3>1. [kind |-> "elsewhere", addr |-> None] \in Message
      BY DEF Message
    <3> HIDE DEF IInv, TypeOK
    <3> QED
      BY <2>1, <2>2, <2>4, <3>1, TellStep
  <2> QED
    BY <1>1, <2>3, <2>4 DEF TakeOffer
<1>2. CASE TakeAck(c)
  <2>1. /\ answer[c] # None /\ answer[c].kind = "ack" /\ asks[c].left > 0 /\ WaitsNoMore(c)
        /\ UNCHANGED <<leases, declined, grace>> /\ answer[c].addr \in Slots
    BY <1>2 DEF TakeAck, Guarded, AnswersAsked, serverVars
  <2>2. CASE uses[c] = None /\ Send(c, "decline", answer[c].addr) /\ UNCHANGED uses
    <3>1. /\ [kind |-> "decline", addr |-> answer[c].addr] \in Message
          /\ uses' = [uses EXCEPT ![c] = None]
      BY <2>1, <2>2 DEF Message
    <3> HIDE DEF IInv, TypeOK
    <3> QED
      BY <2>1, <2>2, <3>1, TellStep
  <2>3. CASE /\ uses' = [uses EXCEPT ![c] = [addr |-> answer[c].addr, left |-> asks[c].left,
                                             ours |-> answer[c].ours]]
             /\ answer' = [answer EXCEPT ![c] = None] /\ UNCHANGED sent
    <3> HIDE DEF IInv, TypeOK
    <3> QED
      BY <2>1, <2>3, UseStep
  <2> QED
    BY <1>2, <2>2, <2>3 DEF TakeAck
<1>3. CASE TakeNak(c)
  <2>1. /\ UNCHANGED <<leases, declined, grace>> /\ sent' = [sent EXCEPT ![c] = sent[c]]
        /\ sent[c] \in Seq(Message) /\ Len(sent[c]) <= MaxSent
        /\ answer' = [answer EXCEPT ![c] = None]
        /\ None \in Ask \cup {None} /\ asks' = [asks EXCEPT ![c] = None]
        /\ None \in {None, uses[c]} /\ uses' = [uses EXCEPT ![c] = None]
    BY <1>3 DEF TakeNak, WaitsNoMore, Stops, serverVars
  <2> HIDE DEF IInv, TypeOK
  <2> QED
    BY <2>1, GuestStep
<1> QED
  BY <1>1, <1>2, <1>3

-----------------------------------------------------------------------------
LEMMA NextIInv == IInv /\ [Next]_vars => IInv'
<1> SUFFICES ASSUME IInv, [Next]_vars PROVE IInv'
  OBVIOUS
<1>1. ASSUME NEW c \in Clients, Handle(c) PROVE IInv'
  BY <1>1, DiscoveredStep, RequestedStep, GivenUpStep, DeclineReceivedStep DEF Handle
<1>2. ASSUME NEW c \in Clients, Guest(c) PROVE IInv'
  BY <1>2, BootStep, TakeStep DEF Guest
<1>3. ASSUME NEW c \in Clients, Lose(c) \/ LoseAnswer(c) PROVE IInv'
  BY <1>3, LoseStep, LoseAnswerStep
<1>4. CASE Restart \/ Tick
  BY <1>4, RestartStep, TickStep
<1>5. CASE UNCHANGED vars
  <2> USE <1>5 DEF IInv, vars, serverVars
  <2>1. TypeOK'
    BY DEF TypeOK
  <2>2. ASSUME NEW c \in Clients PROVE Guarded(c)'
    BY DEF Guarded, LastIsAsked, AnswersAsked, OnlyRenews, Backed, Leased, Fades, Refused,
           Using, Acked
  <2>3. Exclusive'
    BY DEF Exclusive, Holds, Using, Acked
  <2> QED
    BY <2>1, <2>2, <2>3
<1> QED
  BY <1>1, <1>2, <1>3, <1>4, <1>5 DEF Next

\* The inductive invariant.
THEOREM Invariance == Spec => []IInv
<1>1. IInv /\ [Next]_vars => IInv'
  BY NextIInv
<1> QED
  BY <1>1, InitIInv, PTL DEF Spec

\* Leases, datagrams, answers and guests are what they are taken for, and no guest uses the
\* host's own address (dhcpLeases.ts:53, 64).
THEOREM TypeCorrectness == Spec => []TypeOK
<1>1. IInv => TypeOK
  BY DEF IInv
<1> QED
  BY <1>1, Invariance, PTL

\* A guest's lease is kept for as long as the guest may use the address, whatever is lost,
\* late or sent twice (dhcpLeases.ts:38-41, 70-73).
THEOREM LeasesBackWhatIsUsed == Spec => []LeaseBacksUse
<1>1. IInv => LeaseBacksUse
  <2> SUFFICES ASSUME IInv, NEW c \in Clients, uses[c] # None, uses[c].ours,
                      uses[c].addr \notin declined
               PROVE  /\ Live(uses[c].addr) /\ leases[uses[c].addr].owner = c
                      /\ leases[uses[c].addr].left >= uses[c].left
    BY DEF LeaseBacksUse
  <2>1. Leased(c, uses[c].addr, uses[c].left) /\ uses[c].left \in 1 .. LeaseTime
        /\ uses[c].addr \in Slots
    BY DEF IInv, TypeOK, Guarded, Backed, Using, Use
  <2>2. leases[uses[c].addr] \in Lease
    BY <2>1 DEF Leased, IInv, TypeOK
  <2> QED
    BY <2>1, <2>2 DEF Leased, Live, Lease
<1> QED
  BY <1>1, Invariance, PTL

\* No two guests that the server has acknowledged since it started use one address, and
\* one lease time after it started no two guests at all (dhcpLeases.ts:43-68).
THEOREM NobodySharesAnAddress == Spec => []NoDuplicateAddress
<1>1. IInv => NoDuplicateAddress
  <2> SUFFICES ASSUME IInv, NEW c \in Clients, NEW d \in Clients, c # d,
                      uses[c] # None, uses[d] # None, uses[c].addr = uses[d].addr
               PROVE  grace > 0 /\ ~(uses[c].ours /\ uses[d].ours)
    BY DEF NoDuplicateAddress
  <2>1. /\ uses[c].addr \in Slots /\ uses[c].left \in 1 .. LeaseTime
        /\ uses[d].left \in 1 .. LeaseTime /\ grace \in 0 .. LeaseTime
    BY DEF IInv, TypeOK, Use
  <2>2. ~(uses[c].ours /\ uses[d].ours)
    BY <2>1 DEF IInv, Exclusive, Holds, Using
  <2>3. (~uses[c].ours => uses[c].left <= grace) /\ (~uses[d].ours => uses[d].left <= grace)
    BY DEF IInv, Guarded, Fades
  <2>4. LeaseTime \in Nat
    BY DhcpAssumption
  <2>5. grace > 0
    BY <2>1, <2>2, <2>3, <2>4
  <2> QED
    BY <2>2, <2>5
<1> QED
  BY <1>1, Invariance, PTL

\* A guest that renews what the running server acknowledged is refused only when the
\* address was declined meanwhile (dhcpLeases.ts:60-69).
THEOREM RenewalsAreGranted == Spec => []RenewalIsGranted
<1>1. IInv => RenewalIsGranted
  BY DEF IInv, Guarded, Refused, Using, RenewalIsGranted
<1> QED
  BY <1>1, Invariance, PTL
=============================================================================
