-------------------------- MODULE PolicyFiles_proofs --------------------------
(***************************************************************************)
(* What the rendered configuration does with connections and requests, for *)
(* any names and any lines of the lists, and that the serving leaf covers  *)
(* it, proved by TLAPS.                                                    *)
(***************************************************************************)
EXTENDS PolicyFiles, TLAPS

\* What envoy.yaml is rendered from, and the lists as the renderer sees them.
Sources == [allow: SUBSET AllowLine, auth: SUBSET AuthLine, block: SUBSET BlockLine,
            mcp: SUBSET Names, open: BOOLEAN]
Resolved(f) == McpResolved(Combined(f), f.mcp)

ExactEntry(n, port) == [name |-> n, wild |-> FALSE, port |-> port]

-----------------------------------------------------------------------------
\* Envoy's choice among patterns.

LEMMA ExactPattern ==
  ASSUME NEW p \in Pattern, NEW n \in Names
  PROVE  p = Exact(n) <=> p.name = n /\ ~p.wild
BY DEF Pattern, Exact

LEMMA NarrowestExists ==
  ASSUME NEW cs, NEW n \in Names, (\A e \in cs : e.names \subseteq Pattern),
         NEW c0 \in cs, NEW p0 \in c0.names, Matches(p0, n)
  PROVE  Selected(cs, n) # {}
<1>1. CASE ~p0.wild
  BY <1>1 DEF Selected, Narrower
<1>2. CASE \E c \in cs : \E p \in c.names : Matches(p, n) /\ ~p.wild
  BY <1>2 DEF Selected, Narrower
<1>3. CASE \A c \in cs : \A p \in c.names : Matches(p, n) => p.wild
  <2> DEFINE ns == {m \in Names : \E c \in cs : \E p \in c.names : Matches(p, n) /\ p.name = m}
  <2>1. p0.name \in ns /\ ns \in (SUBSET Names) \ {{}}
    BY DEF Pattern
  <2>2. PICK m \in ns : \A k \in ns : <<k, m>> \notin Below
    <3> HIDE DEF ns
    <3> QED BY <2>1, NamesAssumption
  <2>3a. PICK c \in cs : \E p \in c.names : Matches(p, n) /\ p.name = m
    BY <2>2
  <2>3. PICK p \in c.names : Matches(p, n) /\ p.name = m
    BY <2>3a
  <2>4. ASSUME NEW d \in cs, NEW q \in d.names, Matches(q, n) PROVE ~Narrower(q, p)
    <3>1. q.wild /\ q.name \in ns
      BY <1>3, <2>4 DEF Pattern
    <3> QED BY <2>2, <2>3, <3>1 DEF Narrower
  <2> QED BY <2>3, <2>4 DEF Selected
<1> QED BY <1>2, <1>3

LEMMA ExactWins ==
  ASSUME NEW cs, NEW n \in Names, (\A e \in cs : e.names \subseteq Pattern),
         NEW d \in cs, Exact(n) \in d.names, NEW c \in Selected(cs, n)
  PROVE  c \in cs /\ Exact(n) \in c.names
<1>1. PICK p \in c.names : Matches(p, n) /\ \A e \in cs : \A q \in e.names : Matches(q, n) => ~Narrower(q, p)
  BY DEF Selected
<1>2. c \in cs /\ p \in Pattern
  BY DEF Selected
<1>3. Matches(Exact(n), n) /\ ~Exact(n).wild
  BY DEF Matches, Exact
<1>4. ~p.wild
  BY <1>1, <1>3 DEF Narrower
<1>5. p = Exact(n)
  BY <1>1, <1>2, <1>4, ExactPattern DEF Matches
<1> QED BY <1>2, <1>5

-----------------------------------------------------------------------------
\* What becomes of a line.

LEMMA AuthEntries ==
  ASSUME NEW f \in Sources, NEW s \in AuthSections
  PROVE  /\ \A n \in Names, port \in Ports :
              ExactEntry(n, port) \in ParsedAuth(f.auth, s) <=> LineListed(f, s, n, port)
         /\ \A e \in ParsedAuth(f.auth, s) : e \in Entry /\ ~e.wild /\ e = ExactEntry(e.name, e.port)
<1>1. f.auth \subseteq AuthLine
  BY DEF Sources
<1>2. \A l \in AuthLine : l.kind # "bad" <=> l.kind = "exact"
  BY DEF AuthLine
<1>3. \A l \in AuthLine : l.kind # "bad" => EntryOf(l) = ExactEntry(l.name, l.port)
  BY <1>2 DEF EntryOf, ExactEntry
<1>4. \A n, port, m, q : ExactEntry(n, port) = ExactEntry(m, q) => n = m /\ port = q
  BY DEF ExactEntry
<1>5. ASSUME NEW n \in Names, NEW port \in Ports
      PROVE  ExactEntry(n, port) \in ParsedAuth(f.auth, s) <=> LineListed(f, s, n, port)
  <2>1. ASSUME ExactEntry(n, port) \in ParsedAuth(f.auth, s) PROVE LineListed(f, s, n, port)
    <3>1. PICK l \in f.auth : l.section = s /\ l.kind # "bad" /\ ExactEntry(n, port) = EntryOf(l)
      BY <2>1 DEF ParsedAuth
    <3>2. l.name = n /\ l.port = port /\ l.kind = "exact"
      BY <1>1, <1>2, <1>3, <1>4, <3>1
    <3> QED BY <3>1, <3>2 DEF LineListed
  <2>2. ASSUME LineListed(f, s, n, port) PROVE ExactEntry(n, port) \in ParsedAuth(f.auth, s)
    <3>1. PICK l \in f.auth : l.section = s /\ l.name = n /\ l.kind = "exact" /\ l.port = port
      BY <2>2 DEF LineListed
    <3>2. EntryOf(l) = ExactEntry(n, port)
      BY <1>1, <1>3, <3>1
    <3> QED BY <3>1, <3>2 DEF ParsedAuth
  <2> QED BY <2>1, <2>2
<1>6. ASSUME NEW e \in ParsedAuth(f.auth, s)
      PROVE  e \in Entry /\ ~e.wild /\ e = ExactEntry(e.name, e.port)
  <2>1. PICK l \in f.auth : l.kind # "bad" /\ e = EntryOf(l)
    BY DEF ParsedAuth
  <2>2. l.name \in Names /\ l.port \in Ports /\ e = ExactEntry(l.name, l.port)
    BY <1>1, <1>3, <2>1 DEF AuthLine
  <2> QED BY <2>2 DEF ExactEntry, Entry
<1> QED BY <1>5, <1>6

Listed(f) == {EntryOf(l) : l \in {x \in f.allow : x.kind # "bad"}}
WildEntry(n, port) == [name |-> n, wild |-> TRUE, port |-> port]

LEMMA AllowEntries ==
  ASSUME NEW f \in Sources
  PROVE  /\ Listed(f) \subseteq Entry
         /\ \A n \in Names, port \in Ports :
              ExactEntry(n, port) \in Listed(f)
                <=> \E l \in f.allow : l.kind = "exact" /\ l.name = n /\ l.port = port
         /\ \A n \in Names, port \in Ports :
              WildEntry(n, port) \in Listed(f)
                <=> \E l \in f.allow : l.kind = "wild" /\ l.name = n /\ l.port = port
<1>1. \A l \in f.allow : l \in AllowLine
  BY DEF Sources
<1>2. \A l \in AllowLine : l.kind \in {"exact", "wild", "bad"} /\ l.name \in Names /\ l.port \in Ports
  BY DEF AllowLine
<1>3. \A l : EntryOf(l) = [name |-> l.name, wild |-> l.kind = "wild", port |-> l.port]
  BY DEF EntryOf
<1>4. \A l \in f.allow : EntryOf(l) \in Entry
  BY <1>1, <1>2, <1>3 DEF Entry
<1>5. \A n, port, l : ExactEntry(n, port) = EntryOf(l)
                        <=> l.kind # "wild" /\ l.name = n /\ l.port = port
  BY <1>3 DEF ExactEntry
<1>6. \A n, port, l : WildEntry(n, port) = EntryOf(l)
                        <=> l.kind = "wild" /\ l.name = n /\ l.port = port
  BY <1>3 DEF WildEntry
<1>7. \A e : e \in Listed(f) <=> \E l \in f.allow : l.kind # "bad" /\ e = EntryOf(l)
  BY DEF Listed
<1>8. ASSUME NEW n \in Names, NEW port \in Ports
      PROVE  ExactEntry(n, port) \in Listed(f)
                <=> \E l \in f.allow : l.kind = "exact" /\ l.name = n /\ l.port = port
  BY <1>1, <1>2, <1>5, <1>7
<1>9. ASSUME NEW n \in Names, NEW port \in Ports
      PROVE  WildEntry(n, port) \in Listed(f)
                <=> \E l \in f.allow : l.kind = "wild" /\ l.name = n /\ l.port = port
  BY <1>1, <1>2, <1>6, <1>7
<1> QED BY <1>4, <1>7, <1>8, <1>9

LEMMA BlockPatterns ==
  ASSUME NEW f \in Sources
  PROVE  /\ ParsedBlock(f.block) \subseteq Pattern
         /\ \A n \in Names : Blocking(f, n) # {} <=> \E b \in ParsedBlock(f.block) : Matches(b, n)
         /\ \A n \in Names : Denies(f, n) <=>
              \E b \in ParsedBlock(f.block) : Matches(b, n) /\ (b.wild \/ n \notin f.mcp)
<1>1. \A l \in f.block : l \in BlockLine /\ l.kind \in {"exact", "wild", "bad"}
  BY DEF Sources, BlockLine
<1>2. \A l \in f.block : PatternOf(l) \in Pattern /\ (PatternOf(l).wild <=> l.kind = "wild")
  BY <1>1 DEF PatternOf, Pattern, BlockLine
<1>3. ParsedBlock(f.block) = {PatternOf(l) : l \in {x \in f.block : ~x.port /\ x.kind # "bad"}}
  BY DEF ParsedBlock
<1>4. ParsedBlock(f.block) \subseteq Pattern
  BY <1>2, <1>3
<1>5. ASSUME NEW n \in Names
      PROVE  /\ Blocking(f, n) # {} <=> \E b \in ParsedBlock(f.block) : Matches(b, n)
             /\ Denies(f, n) <=> \E b \in ParsedBlock(f.block) : Matches(b, n) /\ (b.wild \/ n \notin f.mcp)
  <2>1. \A l : l \in Blocking(f, n) <=> l \in f.block /\ l.kind # "bad" /\ ~l.port /\ Matches(PatternOf(l), n)
    BY DEF Blocking
  <2>2. \A l : l \in SetAside(f, n) <=> l \in Blocking(f, n) /\ l.kind = "exact" /\ n \in f.mcp
    BY DEF SetAside
  <2>3. Blocking(f, n) # {} <=> \E b \in ParsedBlock(f.block) : Matches(b, n)
    BY <1>3, <2>1
  <2>4. Denies(f, n) <=> \E l \in Blocking(f, n) : ~(l.kind = "exact" /\ n \in f.mcp)
    BY <2>2 DEF Denies
  <2>5. \A l \in Blocking(f, n) : l.kind # "exact" <=> PatternOf(l).wild
    BY <1>1, <1>2, <2>1
  <2>6. ASSUME NEW l \in Blocking(f, n), ~(l.kind = "exact" /\ n \in f.mcp)
        PROVE  \E b \in ParsedBlock(f.block) : Matches(b, n) /\ (b.wild \/ n \notin f.mcp)
    BY <1>3, <2>1, <2>5, <2>6
  <2>7. ASSUME NEW b \in ParsedBlock(f.block), Matches(b, n), b.wild \/ n \notin f.mcp
        PROVE  \E l \in Blocking(f, n) : ~(l.kind = "exact" /\ n \in f.mcp)
    <3>1. PICK l \in f.block : ~l.port /\ l.kind # "bad" /\ b = PatternOf(l)
      BY <1>3
    <3> QED BY <2>1, <2>5, <2>7, <3>1
  <2> QED BY <2>3, <2>4, <2>6, <2>7
<1> QED BY <1>4, <1>5

-----------------------------------------------------------------------------
\* What becomes of an entry.

Aside(f, e) == e.name \in f.mcp /\ ~e.wild /\ e.port = "443"

LEMMA Sections ==
  ASSUME NEW f \in Sources, NEW e
  PROVE  /\ \A s \in AuthSections :
              e \in Resolved(f).entries[s]
                <=> /\ e \in ParsedAuth(f.auth, s) /\ ~Blocked(e, ParsedBlock(f.block))
                    /\ \A t \in StrongerThan[s] : e \notin ParsedAuth(f.auth, t)
                    /\ ~Aside(f, e)
         /\ e \in Resolved(f).entries["pass"]
              <=> /\ e \in Pruned(Unblocked(ParsedAllow(f.allow), ParsedBlock(f.block)))
                  /\ \A t \in AuthSections : e \notin ParsedAuth(f.auth, t)
                  /\ ~Aside(f, e)
<1> DEFINE blocks == ParsedBlock(f.block)
           auth == [s \in AuthSections |-> Unblocked(ParsedAuth(f.auth, s), blocks)]
           listed(s) == IF s = "pass" THEN Pruned(Unblocked(ParsedAllow(f.allow), blocks)) ELSE auth[s]
           kept == [s \in AuthSections \cup {"pass"} |->
                      {x \in listed(s) : \A t \in StrongerThan[s] : x \notin auth[t]}]
           left == [s \in AuthSections \cup {"pass"} |-> {x \in kept[s] : ~Aside(f, x)}]
<1>1. Combined(f) = [entries |-> kept, blocked |-> blocks]
  BY DEF Combined
<1>2. Combined(f).entries = kept
  BY <1>1
<1>3. DOMAIN kept = AuthSections \cup {"pass"}
  OBVIOUS
<1>4. Resolved(f).entries = [s \in DOMAIN kept |-> {x \in kept[s] : ~Aside(f, x)}]
  <2> HIDE DEF kept
  <2> QED BY <1>2 DEF Resolved, McpResolved, Aside
<1>5. \A s \in AuthSections \cup {"pass"} : \A x : x \in Resolved(f).entries[s]
        <=> x \in listed(s) /\ (\A t \in StrongerThan[s] : x \notin auth[t]) /\ ~Aside(f, x)
  <2> HIDE DEF listed, auth
  <2> QED BY <1>3, <1>4
<1>7. \A s \in AuthSections : e \in auth[s] <=> e \in ParsedAuth(f.auth, s) /\ ~Blocked(e, blocks)
  BY DEF Unblocked
<1>8. \A s \in AuthSections : StrongerThan[s] \subseteq AuthSections
  BY DEF AuthSections, StrongerThan
<1>9. \A s \in AuthSections : s # "pass"
  BY DEF AuthSections
<1>10. ASSUME NEW s \in AuthSections
       PROVE  e \in Resolved(f).entries[s]
                <=> /\ e \in ParsedAuth(f.auth, s) /\ ~Blocked(e, blocks)
                    /\ \A t \in StrongerThan[s] : e \notin ParsedAuth(f.auth, t)
                    /\ ~Aside(f, e)
  <2>1. e \in listed(s) <=> e \in auth[s]
    <3> HIDE DEF auth
    <3> QED BY <1>9
  <2> HIDE DEF auth, listed
  <2> QED BY <2>1, <1>5, <1>7, <1>8
<1>11. StrongerThan["pass"] = AuthSections
  BY DEF StrongerThan
<1>12. e \in Pruned(Unblocked(ParsedAllow(f.allow), blocks)) => ~Blocked(e, blocks)
  BY DEF Pruned, Unblocked
<1>13. listed("pass") = Pruned(Unblocked(ParsedAllow(f.allow), blocks))
  OBVIOUS
<1>14. e \in Resolved(f).entries["pass"]
         <=> e \in listed("pass") /\ (\A t \in AuthSections : e \notin auth[t]) /\ ~Aside(f, e)
  <2> HIDE DEF listed, auth
  <2> QED BY <1>5, <1>11
<1> HIDE DEF listed, auth
<1> QED BY <1>7, <1>10, <1>12, <1>13, <1>14

LEMMA BlockList ==
  ASSUME NEW f \in Sources
  PROVE  /\ Resolved(f).blocked = {b \in ParsedBlock(f.block) : ~(b.name \in f.mcp /\ ~b.wild)}
         /\ Resolved(f).blocked \subseteq Pattern
         /\ \A n \in Names : Denies(f, n) <=> \E b \in Resolved(f).blocked : Matches(b, n)
<1>1. Combined(f).blocked = ParsedBlock(f.block)
  BY DEF Combined
<1>2. Resolved(f).blocked = {b \in ParsedBlock(f.block) : ~(b.name \in f.mcp /\ ~b.wild)}
  BY <1>1 DEF Resolved, McpResolved
<1>3. \A n \in Names, b \in Pattern : Matches(b, n) /\ ~b.wild => b.name = n
  BY DEF Matches
<1> QED BY <1>2, <1>3, BlockPatterns

LEMMA Unpruned ==
  ASSUME NEW f \in Sources, NEW e \in Entry
  PROVE  e \in Pruned(Unblocked(ParsedAllow(f.allow), ParsedBlock(f.block)))
           <=> /\ e \in Listed(f) /\ ~Blocked(e, ParsedBlock(f.block))
               /\ e.wild \/ ~Covered(e, Listed(f))
<1> DEFINE bs == ParsedBlock(f.block)
<1>1. ParsedAllow(f.allow) = Pruned(Listed(f))
  BY DEF ParsedAllow, Listed
<1>2. e \in Unblocked(ParsedAllow(f.allow), bs)
        <=> e \in Listed(f) /\ ~Blocked(e, bs) /\ (e.wild \/ ~Covered(e, Listed(f)))
  BY <1>1 DEF Unblocked, Pruned
<1>3. Unblocked(ParsedAllow(f.allow), bs) \subseteq Listed(f)
  BY <1>1 DEF Unblocked, Pruned
<1>4. Covered(e, Unblocked(ParsedAllow(f.allow), bs)) => Covered(e, Listed(f))
  BY <1>3 DEF Covered
<1> QED BY <1>2, <1>4 DEF Pruned
LEMMA BlockedExact ==
  ASSUME NEW f \in Sources, NEW n \in Names, NEW port \in Ports
  PROVE  Blocked(ExactEntry(n, port), ParsedBlock(f.block)) <=> Blocking(f, n) # {}
<1>1. \A b \in ParsedBlock(f.block) :
        Matches(b, n) <=> \/ b.name = n /\ b.wild = FALSE
                          \/ b.wild /\ <<n, b.name>> \in Below
  BY BlockPatterns DEF Pattern, Matches
<1> QED BY <1>1, BlockPatterns DEF Blocked, ExactEntry

LEMMA AuthExact ==
  ASSUME NEW f \in Sources, NEW s \in AuthSections, NEW n \in Names, NEW port \in Ports
  PROVE  ExactEntry(n, port) \in Resolved(f).entries[s]
           <=> /\ LineListed(f, s, n, port)
               /\ Blocking(f, n) = {}
               /\ \A t \in StrongerThan[s] : ~LineListed(f, t, n, port)
               /\ ~(n \in f.mcp /\ port = "443")
<1>1. StrongerThan[s] \subseteq AuthSections
  BY DEF AuthSections, StrongerThan
<1>2. \A t \in AuthSections : ExactEntry(n, port) \in ParsedAuth(f.auth, t) <=> LineListed(f, t, n, port)
  BY AuthEntries
<1>3. Aside(f, ExactEntry(n, port)) <=> n \in f.mcp /\ port = "443"
  BY DEF Aside, ExactEntry
<1> QED BY <1>1, <1>2, <1>3, Sections, BlockedExact

LEMMA PassExact ==
  ASSUME NEW f \in Sources, NEW n \in Names, NEW port \in Ports
  PROVE  ExactEntry(n, port) \in Resolved(f).entries["pass"]
           <=> /\ \E l \in f.allow : l.kind = "exact" /\ l.name = n /\ l.port = port
               /\ Blocking(f, n) = {}
               /\ ~AllowsByWildcard(f, n, port)
               /\ \A t \in AuthSections : ~LineListed(f, t, n, port)
               /\ ~(n \in f.mcp /\ port = "443")
<1> DEFINE e == ExactEntry(n, port)
<1>1. \A t \in AuthSections : e \in ParsedAuth(f.auth, t) <=> LineListed(f, t, n, port)
  BY AuthEntries
<1>2. Aside(f, e) <=> n \in f.mcp /\ port = "443"
  BY DEF Aside, ExactEntry
<1>3. e \in Entry /\ ~e.wild /\ e.name = n /\ e.port = port
  BY DEF ExactEntry, Entry
<1>4. \A w \in Entry : w.wild => w = WildEntry(w.name, w.port) /\ w.name \in Names /\ w.port \in Ports
  BY DEF Entry, WildEntry
<1>5. ASSUME Covered(e, Listed(f)) PROVE AllowsByWildcard(f, n, port)
  <2>1. PICK w \in Listed(f) : w.wild /\ w.port = port /\ <<n, w.name>> \in Below
    BY <1>3, <1>5 DEF Covered
  <2>2. w \in Entry
    BY AllowEntries
  <2>3. w = WildEntry(w.name, port) /\ w.name \in Names
    BY <1>4, <2>1, <2>2
  <2>4. \E l \in f.allow : l.kind = "wild" /\ l.name = w.name /\ l.port = port
    BY <2>3, AllowEntries
  <2> QED BY <2>1, <2>4 DEF AllowsByWildcard
<1>6. ASSUME AllowsByWildcard(f, n, port) PROVE Covered(e, Listed(f))
  <2>1. PICK l \in f.allow : l.kind = "wild" /\ l.port = port /\ <<n, l.name>> \in Below
    BY <1>6 DEF AllowsByWildcard
  <2>2. l.name \in Names
    BY DEF Sources, AllowLine
  <2>3. WildEntry(l.name, port) \in Listed(f)
    BY <2>1, <2>2, AllowEntries
  <2>4. /\ WildEntry(l.name, port).wild /\ WildEntry(l.name, port).port = port
        /\ WildEntry(l.name, port).name = l.name
    BY DEF WildEntry
  <2> QED BY <1>3, <2>1, <2>3, <2>4 DEF Covered
<1> QED BY <1>1, <1>2, <1>3, <1>5, <1>6, Sections, Unpruned, BlockedExact, AllowEntries

LEMMA PassWild ==
  ASSUME NEW f \in Sources, NEW m \in Names, NEW port \in Ports
  PROVE  WildEntry(m, port) \in Resolved(f).entries["pass"]
           <=> /\ \E l \in f.allow : l.kind = "wild" /\ l.name = m /\ l.port = port
               /\ \A b \in ParsedBlock(f.block) : b.wild => b.name # m /\ <<m, b.name>> \notin Below
<1> DEFINE e == WildEntry(m, port)
<1>1. e \in Entry /\ e.wild /\ e.name = m
  BY DEF WildEntry, Entry
<1>2. \A t \in AuthSections : e \notin ParsedAuth(f.auth, t)
  BY <1>1, AuthEntries
<1>3. ~Aside(f, e)
  BY <1>1 DEF Aside
<1>4. Blocked(e, ParsedBlock(f.block))
        <=> \E b \in ParsedBlock(f.block) : b.wild /\ (b.name = m \/ <<m, b.name>> \in Below)
  <2>1. \A b \in ParsedBlock(f.block) : b.wild = e.wild <=> b.wild
    BY <1>1, BlockPatterns DEF Pattern, WildEntry
  <2> QED BY <1>1, <2>1 DEF Blocked
<1>5. e \in Resolved(f).entries["pass"] <=> e \in Listed(f) /\ ~Blocked(e, ParsedBlock(f.block))
  BY <1>1, <1>2, <1>3, Sections, Unpruned
<1> HIDE DEF e
<1>6. e \in Listed(f) <=> \E l \in f.allow : l.kind = "wild" /\ l.name = m /\ l.port = port
  BY AllowEntries DEF e
<1> QED BY <1>4, <1>5, <1>6 DEF e

LEMMA PassEntries ==
  ASSUME NEW f \in Sources
  PROVE  Resolved(f).entries["pass"] \subseteq Entry
<1>1. \A e : e \in Resolved(f).entries["pass"] => e \in ParsedAllow(f.allow)
  BY Sections DEF Pruned, Unblocked
<1>2. ParsedAllow(f.allow) \subseteq Listed(f)
  BY DEF ParsedAllow, Pruned, Listed
<1> QED BY <1>1, <1>2, AllowEntries

LEMMA WildPass ==
  ASSUME NEW f \in Sources, NEW n \in Names, NEW port \in Ports, ~Denies(f, n)
  PROVE  AllowsByWildcard(f, n, port)
           <=> \E m \in Names : <<n, m>> \in Below /\ WildEntry(m, port) \in Resolved(f).entries["pass"]
<1>1. \A l \in f.allow : l.name \in Names
  BY DEF Sources, AllowLine
<1>2. \A b \in ParsedBlock(f.block) : b.wild => b.name \in Names /\ <<n, b.name>> \notin Below
  BY BlockPatterns DEF Pattern, Matches
<1>3. ASSUME NEW m \in Names, <<n, m>> \in Below
      PROVE  \A b \in ParsedBlock(f.block) : b.wild => b.name # m /\ <<m, b.name>> \notin Below
  BY <1>2, <1>3, NamesAssumption
<1>4. ASSUME AllowsByWildcard(f, n, port)
      PROVE  \E m \in Names : <<n, m>> \in Below /\ WildEntry(m, port) \in Resolved(f).entries["pass"]
  <2>1. PICK l \in f.allow : l.kind = "wild" /\ l.port = port /\ <<n, l.name>> \in Below
    BY <1>4 DEF AllowsByWildcard
  <2>2. l.name \in Names
    BY <1>1
  <2>3. WildEntry(l.name, port) \in Resolved(f).entries["pass"]
    BY <1>3, <2>1, <2>2, PassWild
  <2> QED BY <2>1, <2>2, <2>3
<1>5. ASSUME NEW m \in Names, <<n, m>> \in Below, WildEntry(m, port) \in Resolved(f).entries["pass"]
      PROVE  AllowsByWildcard(f, n, port)
  BY <1>5, PassWild DEF AllowsByWildcard
<1> QED BY <1>4, <1>5

LEMMA BlockIsNarrower ==
  ASSUME NEW f \in Sources, NEW n \in Names, NEW m \in Names, NEW port \in Ports,
         <<n, m>> \in Below, WildEntry(m, port) \in Resolved(f).entries["pass"],
         NEW b \in Resolved(f).blocked, Matches(b, n)
  PROVE  Narrower(b, [name |-> m, wild |-> TRUE])
<1>1. b \in Pattern /\ b \in ParsedBlock(f.block)
  BY BlockList
<1>2. b.wild => b.name # m /\ <<m, b.name>> \notin Below
  BY <1>1, PassWild
<1>3. b.wild => <<b.name, m>> \in Below
  BY <1>1, <1>2, NamesAssumption DEF Matches, Pattern
<1> QED BY <1>3 DEF Narrower
-----------------------------------------------------------------------------
\* What the chains and the virtual hosts match.

Terminated(f, s) == {p.name : p \in On("443", Resolved(f).entries[s])}
Passes(f, port) == On(port, Resolved(f).entries["pass"])

LEMMA TerminatedNames ==
  ASSUME NEW f \in Sources, NEW s \in AuthSections
  PROVE  \A n : n \in Terminated(f, s) <=> n \in Names /\ ExactEntry(n, "443") \in Resolved(f).entries[s]
<1>1. \A e \in Resolved(f).entries[s] : e.name \in Names /\ e = ExactEntry(e.name, e.port)
  BY Sections, AuthEntries DEF Entry
<1>2. \A n : n \in Terminated(f, s) <=> \E e \in Resolved(f).entries[s] : e.port = "443" /\ e.name = n
  <2> DEFINE es == Resolved(f).entries[s]
  <2>1. \A x : x \in On("443", es)
               <=> \E e \in es : e.port = "443" /\ x = [name |-> e.name, wild |-> e.wild]
    <3> HIDE DEF es
    <3> QED BY DEF On
  <2>2. \A n : n \in Terminated(f, s) <=> \E x \in On("443", es) : x.name = n
    BY DEF Terminated
  <2> HIDE DEF es
  <2>3. \A e : [name |-> e.name, wild |-> e.wild].name = e.name
    OBVIOUS
  <2>4. ASSUME NEW n, n \in Terminated(f, s) PROVE \E e \in es : e.port = "443" /\ e.name = n
    <3>1. PICK x \in On("443", es) : x.name = n
      BY <2>2, <2>4
    <3>2. PICK e \in es : e.port = "443" /\ x = [name |-> e.name, wild |-> e.wild]
      BY <2>1
    <3> QED BY <3>1, <3>2
  <2>5. ASSUME NEW e \in es, e.port = "443" PROVE e.name \in Terminated(f, s)
    <3>1. [name |-> e.name, wild |-> e.wild] \in On("443", es)
      BY <2>1, <2>5
    <3> QED BY <2>2, <2>3, <3>1
  <2> QED BY <2>4, <2>5 DEF es
<1>3. \A n : ExactEntry(n, "443").port = "443" /\ ExactEntry(n, "443").name = n
  BY DEF ExactEntry
<1> QED BY <1>1, <1>2, <1>3

LEMMA PassPatterns ==
  ASSUME NEW f \in Sources, NEW port \in Ports
  PROVE  /\ Passes(f, port) \subseteq Pattern
         /\ \A p \in Pattern :
              p \in Passes(f, port)
                <=> IF p.wild THEN WildEntry(p.name, port) \in Resolved(f).entries["pass"]
                    ELSE ExactEntry(p.name, port) \in Resolved(f).entries["pass"]
<1> DEFINE es == Resolved(f).entries["pass"]
<1>1. es \subseteq Entry
  BY PassEntries
<1>2. \A p : p \in Passes(f, port) <=> \E e \in es : e.port = port /\ p = [name |-> e.name, wild |-> e.wild]
  BY DEF Passes, On
<1>3. \A e \in Entry : [name |-> e.name, wild |-> e.wild] \in Pattern
  BY DEF Entry, Pattern
<1>4. \A e \in Entry : e = IF e.wild THEN WildEntry(e.name, e.port) ELSE ExactEntry(e.name, e.port)
  BY DEF Entry, ExactEntry, WildEntry
<1>5. \A p \in Pattern : p.wild \in BOOLEAN /\ p = [name |-> p.name, wild |-> p.wild]
  BY DEF Pattern
<1>6. \A n : /\ WildEntry(n, port).name = n /\ WildEntry(n, port).wild = TRUE /\ WildEntry(n, port).port = port
             /\ ExactEntry(n, port).name = n /\ ExactEntry(n, port).wild = FALSE /\ ExactEntry(n, port).port = port
  BY DEF WildEntry, ExactEntry
<1> HIDE DEF es
<1>7. ASSUME NEW p \in Pattern, p \in Passes(f, port)
      PROVE  IF p.wild THEN WildEntry(p.name, port) \in es ELSE ExactEntry(p.name, port) \in es
  <2>1. PICK e \in es : e.port = port /\ p = [name |-> e.name, wild |-> e.wild]
    BY <1>2, <1>7
  <2>2. p.name = e.name /\ p.wild = e.wild
    BY <2>1
  <2> QED BY <1>1, <1>4, <2>1, <2>2
<1>8. ASSUME NEW p \in Pattern, IF p.wild THEN WildEntry(p.name, port) \in es ELSE ExactEntry(p.name, port) \in es
      PROVE  p \in Passes(f, port)
  <2>1. CASE p.wild
    <3>1. p = [name |-> p.name, wild |-> TRUE] /\ WildEntry(p.name, port) \in es
      BY <1>5, <1>8, <2>1
    <3> QED BY <1>2, <1>6, <3>1
  <2>2. CASE ~p.wild
    <3>1. p = [name |-> p.name, wild |-> FALSE] /\ ExactEntry(p.name, port) \in es
      BY <1>5, <1>8, <2>2
    <3> QED BY <1>2, <1>6, <3>1
  <2> QED BY <2>1, <2>2
<1>9. Passes(f, port) \subseteq Pattern
  BY <1>1, <1>2, <1>3
<1> QED BY <1>7, <1>8, <1>9 DEF es

\* What stands behind a pattern of listener 443's chain of route r.
Carries(f, r, p) ==
  \/ /\ r \in {"claude", "codex", "candidate"} \/ (r = "github" /\ GithubGate[p.name] # None)
     /\ ~p.wild /\ ExactEntry(p.name, "443") \in Resolved(f).entries[r]
  \/ r = "mcp" /\ ~p.wild /\ p.name \in f.mcp
  \/ r = "pass" /\ p \in Passes(f, "443")
  \/ r = "blocklist" /\ p \in Resolved(f).blocked

LEMMA ChainsOf ==
  ASSUME NEW f \in Sources, NEW c
  PROVE  c \in ConfigOf(f).chains
           <=> \/ \E n \in Terminated(f, "claude") : c = ClaudeChain(n)
               \/ \E n \in Terminated(f, "codex") : c = CodexChain(n)
               \/ \E n \in Terminated(f, "candidate") : c = CandidateChain(n)
               \/ \E n \in Terminated(f, "github") : GithubGate[n] # None /\ c = GithubChain(n)
               \/ \E n \in f.mcp : c = McpChain(n)
               \/ Passes(f, "443") # {} /\ c = PassthroughChain(Passes(f, "443"))
               \/ Resolved(f).blocked # {} /\ c = BlockedChain(Resolved(f).blocked)
<1>1. ConfigOf(f).chains =
        InspectingChains(Resolved(f)) \cup {McpChain(n) : n \in f.mcp}
          \cup {PassthroughChain(ps) : ps \in {Passes(f, "443")} \ {{}}}
          \cup {BlockedChain(bs) : bs \in {Resolved(f).blocked} \ {{}}}
  BY DEF ConfigOf, Rendered, Resolved, Passes
<1>2. InspectingChains(Resolved(f)) =
        {ClaudeChain(n) : n \in Terminated(f, "claude")} \cup {CodexChain(n) : n \in Terminated(f, "codex")}
          \cup {CandidateChain(n) : n \in Terminated(f, "candidate")}
          \cup {GithubChain(n) : n \in {m \in Terminated(f, "github") : GithubGate[m] # None}}
  BY DEF InspectingChains, Terminated
<1> QED BY <1>1, <1>2

LEMMA ChainFields ==
  /\ \A n : /\ ClaudeChain(n).route = "claude" /\ ClaudeChain(n).names = {Exact(n)}
            /\ CodexChain(n).route = "codex" /\ CodexChain(n).names = {Exact(n)}
            /\ CandidateChain(n).route = "candidate" /\ CandidateChain(n).names = {Exact(n)}
            /\ GithubChain(n).route = "github" /\ GithubChain(n).names = {Exact(n)}
            /\ McpChain(n).route = "mcp" /\ McpChain(n).names = {Exact(n)}
  /\ \A ps : /\ PassthroughChain(ps).route = "pass" /\ PassthroughChain(ps).names = ps
             /\ BlockedChain(ps).route = "blocklist" /\ BlockedChain(ps).names = ps
<1>1. \A r, ns, cl, fs : Chain(r, ns, cl, fs).route = r /\ Chain(r, ns, cl, fs).names = ns
  BY DEF Chain
<1>2. ASSUME NEW n PROVE ClaudeChain(n).route = "claude" /\ ClaudeChain(n).names = {Exact(n)}
  <2> DEFINE fs == Gated({"claude placeholder"}, "claude token")
  <2>1. ClaudeChain(n) = Chain("claude", {Exact(n)}, TlsCluster("claude", n), fs)
    BY DEF ClaudeChain
  <2> HIDE DEF fs
  <2> QED BY <1>1, <2>1
<1>3. \A n : CodexChain(n).route = "codex" /\ CodexChain(n).names = {Exact(n)}
  BY <1>1 DEF CodexChain
<1>4. \A n : CandidateChain(n).route = "candidate" /\ CandidateChain(n).names = {Exact(n)}
  BY <1>1 DEF CandidateChain
<1>5. ASSUME NEW n PROVE GithubChain(n).route = "github" /\ GithubChain(n).names = {Exact(n)}
  <2> DEFINE fs == IF GithubGate[n] = "basic" THEN Gated({"github basic placeholder"}, "github basic")
                   ELSE Gated({"github token placeholder", "github bearer placeholder"}, "github token")
  <2>1. GithubChain(n) = Chain("github", {Exact(n)}, TlsCluster("github", n), fs)
    BY DEF GithubChain
  <2> HIDE DEF fs
  <2> QED BY <1>1, <2>1
<1>6. \A n : McpChain(n).route = "mcp" /\ McpChain(n).names = {Exact(n)}
  BY <1>1 DEF McpChain
<1>7. \A ps : /\ PassthroughChain(ps).route = "pass" /\ PassthroughChain(ps).names = ps
              /\ BlockedChain(ps).route = "blocklist" /\ BlockedChain(ps).names = ps
  BY <1>1 DEF PassthroughChain, BlockedChain
<1> QED BY <1>2, <1>3, <1>4, <1>5, <1>6, <1>7

LEMMA ChainPatterns ==
  ASSUME NEW f \in Sources
  PROVE  /\ \A c \in ConfigOf(f).chains : c.names \subseteq Pattern /\ \A p \in c.names : Carries(f, c.route, p)
         /\ \A r, p : p \in Pattern /\ Carries(f, r, p) => \E c \in ConfigOf(f).chains : c.route = r /\ p \in c.names
<1>1. \A n \in Names : Exact(n) \in Pattern /\ Exact(n).name = n /\ ~Exact(n).wild
  BY DEF Exact, Pattern
<1>2. f.mcp \subseteq Names
  BY DEF Sources
<1>3. \A s \in AuthSections : \A n : n \in Terminated(f, s) <=> n \in Names /\ ExactEntry(n, "443") \in Resolved(f).entries[s]
  BY TerminatedNames
<1>4. Passes(f, "443") \subseteq Pattern /\ Resolved(f).blocked \subseteq Pattern
  BY PassPatterns, BlockList DEF Ports
<1>5. {"claude", "codex", "candidate", "github"} = AuthSections
  BY DEF AuthSections
<1>6. ASSUME NEW c \in ConfigOf(f).chains
      PROVE  c.names \subseteq Pattern /\ \A p \in c.names : Carries(f, c.route, p)
  <2>1. CASE \E n \in Terminated(f, "claude") : c = ClaudeChain(n)
    BY <1>1, <1>3, <1>5, <2>1, ChainFields DEF Carries
  <2>2. CASE \E n \in Terminated(f, "codex") : c = CodexChain(n)
    BY <1>1, <1>3, <1>5, <2>2, ChainFields DEF Carries
  <2>3. CASE \E n \in Terminated(f, "candidate") : c = CandidateChain(n)
    BY <1>1, <1>3, <1>5, <2>3, ChainFields DEF Carries
  <2>4. CASE \E n \in Terminated(f, "github") : GithubGate[n] # None /\ c = GithubChain(n)
    BY <1>1, <1>3, <1>5, <2>4, ChainFields DEF Carries
  <2>5. CASE \E n \in f.mcp : c = McpChain(n)
    BY <1>1, <1>2, <2>5, ChainFields DEF Carries
  <2>6. CASE c = PassthroughChain(Passes(f, "443"))
    BY <1>4, <2>6, ChainFields DEF Carries
  <2>7. CASE c = BlockedChain(Resolved(f).blocked)
    BY <1>4, <2>7, ChainFields DEF Carries
  <2> QED BY <2>1, <2>2, <2>3, <2>4, <2>5, <2>6, <2>7, ChainsOf
<1>7. ASSUME NEW r, NEW p \in Pattern, Carries(f, r, p)
      PROVE  \E c \in ConfigOf(f).chains : c.route = r /\ p \in c.names
  <2>1. ~p.wild => p = Exact(p.name) /\ p.name \in Names
    BY ExactPattern DEF Pattern
  <2>2. CASE r \in {"claude", "codex", "candidate"} /\ ~p.wild /\ ExactEntry(p.name, "443") \in Resolved(f).entries[r]
    <3>1. p.name \in Terminated(f, r)
      BY <1>3, <1>5, <2>1, <2>2
    <3> QED BY <2>1, <2>2, <3>1, ChainsOf, ChainFields
  <2>3. CASE r = "github" /\ GithubGate[p.name] # None /\ ~p.wild /\ ExactEntry(p.name, "443") \in Resolved(f).entries[r]
    <3>1. p.name \in Terminated(f, r)
      BY <1>3, <1>5, <2>1, <2>3
    <3> QED BY <2>1, <2>3, <3>1, ChainsOf, ChainFields
  <2>4. CASE r = "mcp" /\ ~p.wild /\ p.name \in f.mcp
    BY <2>1, <2>4, ChainsOf, ChainFields
  <2>5. CASE r = "pass" /\ p \in Passes(f, "443")
    BY <2>5, ChainsOf, ChainFields
  <2>6. CASE r = "blocklist" /\ p \in Resolved(f).blocked
    BY <2>6, ChainsOf, ChainFields
  <2> QED BY <1>7, <2>2, <2>3, <2>4, <2>5, <2>6 DEF Carries
<1> QED BY <1>6, <1>7
-----------------------------------------------------------------------------
\* Where a TLS connection goes.

LEMMA ExactCarriers ==
  ASSUME NEW f \in Sources, NEW n \in Names, NEW r
  PROVE  Carries(f, r, Exact(n))
           <=> \/ /\ r \in {"claude", "codex", "candidate"} \/ (r = "github" /\ GithubGate[n] # None)
                  /\ ExactEntry(n, "443") \in Resolved(f).entries[r]
               \/ r = "mcp" /\ n \in f.mcp
               \/ r = "pass" /\ ExactEntry(n, "443") \in Resolved(f).entries["pass"]
               \/ r = "blocklist" /\ Exact(n) \in Resolved(f).blocked
<1>1. Exact(n).name = n /\ ~Exact(n).wild /\ Exact(n) \in Pattern
  BY DEF Exact, Pattern
<1>2. Exact(n) \in Passes(f, "443") <=> ExactEntry(n, "443") \in Resolved(f).entries["pass"]
  BY <1>1, PassPatterns DEF Ports
<1> QED BY <1>1, <1>2 DEF Carries

LEMMA WildCarriers ==
  ASSUME NEW f \in Sources, NEW p \in Pattern, p.wild, NEW r
  PROVE  Carries(f, r, p)
           <=> \/ r = "pass" /\ WildEntry(p.name, "443") \in Resolved(f).entries["pass"]
               \/ r = "blocklist" /\ p \in Resolved(f).blocked
<1>1. p \in Passes(f, "443") <=> WildEntry(p.name, "443") \in Resolved(f).entries["pass"]
  BY PassPatterns DEF Ports
<1> QED BY <1>1 DEF Carries

\* No host is carried exactly by two chains.
LEMMA OneExactCarrier ==
  ASSUME NEW f \in Sources, NEW n \in Names, NEW r, NEW q,
         Carries(f, r, Exact(n)), Carries(f, q, Exact(n))
  PROVE  r = q
<1> DEFINE e == ExactEntry(n, "443")
           In(s) == e \in Resolved(f).entries[s]
<1>1. \A s \in AuthSections : In(s) =>
        /\ LineListed(f, s, n, "443") /\ Blocking(f, n) = {} /\ n \notin f.mcp
        /\ \A t \in StrongerThan[s] : ~LineListed(f, t, n, "443")
  BY AuthExact DEF Ports
<1>2. In("pass") =>
        Blocking(f, n) = {} /\ n \notin f.mcp /\ \A t \in AuthSections : ~LineListed(f, t, n, "443")
  BY PassExact DEF Ports
<1>3. Exact(n) \in Resolved(f).blocked => Blocking(f, n) # {} /\ n \notin f.mcp
  BY BlockList, BlockPatterns DEF Exact, Matches
<1>4. AuthSections = {"claude", "codex", "github", "candidate"}
  BY DEF AuthSections
<1>5. \A s, t \in AuthSections : s # t => s \in StrongerThan[t] \/ t \in StrongerThan[s]
  BY <1>4 DEF StrongerThan
<1>6. \A s, t \in AuthSections : In(s) /\ In(t) => s = t
  BY <1>1, <1>5
<1> HIDE DEF In, e
<1>7. \A s : Carries(f, s, Exact(n)) =>
        \/ s \in AuthSections /\ In(s)
        \/ s = "mcp" /\ n \in f.mcp
        \/ s = "pass" /\ In("pass")
        \/ s = "blocklist" /\ Exact(n) \in Resolved(f).blocked
  BY <1>4, ExactCarriers DEF In, e
<1> QED BY <1>1, <1>2, <1>3, <1>6, <1>7

LEMMA Selection ==
  ASSUME NEW f \in Sources, NEW n \in Names
  PROVE  LET chosen == Selected(ConfigOf(f).chains, n) IN
         /\ \A c \in chosen : \E p \in Pattern :
              /\ Matches(p, n) /\ Carries(f, c.route, p)
              /\ \A q \in Pattern : \A r : Carries(f, r, q) /\ Matches(q, n) => ~Narrower(q, p)
         /\ \A p \in Pattern : \A r : Carries(f, r, p) /\ Matches(p, n) => chosen # {}
         /\ \A r : Carries(f, r, Exact(n)) => chosen # {} /\ \A c \in chosen : c.route = r
<1> DEFINE cs == ConfigOf(f).chains
           chosen == Selected(cs, n)
<1>1. \A c \in cs : c.names \subseteq Pattern /\ \A p \in c.names : Carries(f, c.route, p)
  BY ChainPatterns
<1>2. \A r, p : p \in Pattern /\ Carries(f, r, p) => \E c \in cs : c.route = r /\ p \in c.names
  BY ChainPatterns
<1>3. Exact(n) \in Pattern /\ Matches(Exact(n), n)
  BY DEF Exact, Pattern, Matches
<1> HIDE DEF cs
<1>4. ASSUME NEW c \in chosen
      PROVE  \E p \in Pattern :
               /\ Matches(p, n) /\ Carries(f, c.route, p)
               /\ \A q \in Pattern : \A r : Carries(f, r, q) /\ Matches(q, n) => ~Narrower(q, p)
  <2>1. c \in cs
    BY DEF Selected
  <2>2. PICK p \in c.names : Matches(p, n) /\ \A d \in cs : \A q \in d.names : Matches(q, n) => ~Narrower(q, p)
    BY DEF Selected
  <2> QED BY <1>1, <1>2, <2>1, <2>2
<1>5. ASSUME NEW p \in Pattern, NEW r, Carries(f, r, p), Matches(p, n) PROVE chosen # {}
  <2>1. PICK c \in cs : c.route = r /\ p \in c.names
    BY <1>2, <1>5
  <2> QED BY <1>1, <1>5, <2>1, NarrowestExists
<1>6. ASSUME NEW r, Carries(f, r, Exact(n)), NEW c \in chosen PROVE c.route = r
  <2>1. PICK d \in cs : d.route = r /\ Exact(n) \in d.names
    BY <1>2, <1>3, <1>6
  <2>2. c \in cs /\ Exact(n) \in c.names
    BY <1>1, <2>1, ExactWins
  <2> QED BY <1>1, <1>6, <2>2, OneExactCarrier
<1> QED BY <1>3, <1>4, <1>5, <1>6 DEF cs

LEMMA DeniedGoesNowhere ==
  ASSUME NEW f \in Sources, NEW n \in Names, n \notin f.mcp, Denies(f, n)
  PROVE  RoutesTo(ConfigOf(f).chains, ConfigOf(f).default, n, "blocklist")
<1>1. PICK b \in Resolved(f).blocked : b \in Pattern /\ b \in ParsedBlock(f.block) /\ Matches(b, n)
  BY BlockList
<1>2. Carries(f, "blocklist", b)
  BY <1>1 DEF Carries
<1>3. Selected(ConfigOf(f).chains, n) # {}
  BY <1>1, <1>2, Selection
<1>4. Blocking(f, n) # {}
  BY <1>1, BlockPatterns
<1>5. ASSUME NEW c \in Selected(ConfigOf(f).chains, n) PROVE c.route = "blocklist"
  <2>1. PICK p \in Pattern :
          /\ Matches(p, n) /\ Carries(f, c.route, p)
          /\ \A q \in Pattern : \A r : Carries(f, r, q) /\ Matches(q, n) => ~Narrower(q, p)
    BY Selection
  <2>2. ~Narrower(b, p)
    BY <1>1, <1>2, <2>1
  <2>3. CASE ~p.wild
    <3>1. p = Exact(n)
      BY <2>1, <2>3, ExactPattern DEF Matches
    <3>2. \A s \in AuthSections \cup {"pass"} : ExactEntry(n, "443") \notin Resolved(f).entries[s]
      BY <1>4, AuthExact, PassExact DEF Ports
    <3> QED BY <2>1, <3>1, <3>2, ExactCarriers DEF AuthSections
  <2>4. CASE p.wild
    <3>1. <<n, p.name>> \in Below /\ p.name \in Names /\ p = [name |-> p.name, wild |-> TRUE]
      BY <2>1, <2>4 DEF Matches, Pattern
    <3>2. WildEntry(p.name, "443") \notin Resolved(f).entries["pass"]
      BY <1>1, <2>2, <3>1, BlockIsNarrower DEF Ports
    <3> QED BY <2>1, <2>4, <3>2, WildCarriers
  <2> QED BY <2>3, <2>4
<1> QED BY <1>3, <1>5 DEF RoutesTo

\* What no exact entry carries goes where a wildcard of the allow list sends it.
LEMMA LeftToWildcards ==
  ASSUME NEW f \in Sources, NEW n \in Names, n \notin f.mcp, ~Denies(f, n),
         \A r : ~Carries(f, r, Exact(n))
  PROVE  RoutesTo(ConfigOf(f).chains, ConfigOf(f).default, n,
                  IF AllowsByWildcard(f, n, "443") THEN "pass" ELSE Otherwise(f))
<1>1. ASSUME NEW r, NEW p \in Pattern, Carries(f, r, p), Matches(p, n)
      PROVE  r = "pass" /\ AllowsByWildcard(f, n, "443")
  <2>1. p.wild
    BY <1>1, ExactPattern DEF Matches
  <2>2. <<n, p.name>> \in Below /\ p.name \in Names
    BY <1>1, <2>1 DEF Matches, Pattern
  <2>3. p \notin Resolved(f).blocked
    BY <1>1, BlockList
  <2>4. r = "pass" /\ WildEntry(p.name, "443") \in Resolved(f).entries["pass"]
    BY <1>1, <2>1, <2>3, WildCarriers
  <2> QED BY <2>2, <2>4, WildPass DEF Ports
<1>2. \A c \in Selected(ConfigOf(f).chains, n) : c.route = "pass" /\ AllowsByWildcard(f, n, "443")
  BY <1>1, Selection
<1>3. ASSUME AllowsByWildcard(f, n, "443") PROVE Selected(ConfigOf(f).chains, n) # {}
  <2>1. PICK m \in Names : <<n, m>> \in Below /\ WildEntry(m, "443") \in Resolved(f).entries["pass"]
    BY <1>3, WildPass DEF Ports
  <2> DEFINE p == [name |-> m, wild |-> TRUE]
  <2>2. p \in Pattern /\ p.wild /\ p.name = m /\ Matches(p, n)
    BY <2>1 DEF Pattern, Matches
  <2> HIDE DEF p
  <2>3. Carries(f, "pass", p)
    BY <2>1, <2>2, WildCarriers
  <2> QED BY <2>2, <2>3, Selection
<1>4. ConfigOf(f).default = Otherwise(f)
  BY DEF ConfigOf, Rendered, Otherwise
<1> QED BY <1>2, <1>3, <1>4 DEF RoutesTo

LEMMA Routes443 ==
  ASSUME NEW f \in Sources, NEW n \in Names
  PROVE  RoutesTo(ConfigOf(f).chains, ConfigOf(f).default, n, Promised443(f, n))
<1> DEFINE On443(s) == LineListed(f, s, n, "443")
           go(route) == RoutesTo(ConfigOf(f).chains, ConfigOf(f).default, n, route)
<1>1. CASE n \in f.mcp
  <2>1. Carries(f, "mcp", Exact(n))
    BY <1>1, ExactCarriers
  <2> QED BY <1>1, <2>1, Selection DEF RoutesTo, Promised443
<1>2. CASE n \notin f.mcp /\ Denies(f, n)
  BY <1>2, DeniedGoesNowhere DEF Promised443
<1>3. CASE n \notin f.mcp /\ ~Denies(f, n)
  <2>1. Blocking(f, n) = {}
    BY <1>3 DEF Denies, SetAside
  <2>2. \A s \in AuthSections :
          ExactEntry(n, "443") \in Resolved(f).entries[s]
            <=> On443(s) /\ \A t \in StrongerThan[s] : ~On443(t)
    BY <1>3, <2>1, AuthExact DEF Ports
  <2>3. ASSUME NEW r, Carries(f, r, Exact(n)) PROVE go(r)
    BY <2>3, Selection DEF RoutesTo
  <2>4. AuthSections = {"claude", "codex", "github", "candidate"}
    BY DEF AuthSections
  <2>5. /\ ExactEntry(n, "443") \in Resolved(f).entries["candidate"] <=> On443("candidate")
        /\ ExactEntry(n, "443") \in Resolved(f).entries["github"] <=> On443("github") /\ ~On443("candidate")
        /\ ExactEntry(n, "443") \in Resolved(f).entries["codex"]
             <=> On443("codex") /\ ~On443("candidate") /\ ~On443("github")
        /\ ExactEntry(n, "443") \in Resolved(f).entries["claude"]
             <=> On443("claude") /\ ~On443("candidate") /\ ~On443("github") /\ ~On443("codex")
    <3> HIDE DEF On443
    <3> QED BY <2>2, <2>4 DEF StrongerThan
  <2>6. ExactEntry(n, "443") \in Resolved(f).entries["pass"]
          <=> /\ \E l \in f.allow : l.kind = "exact" /\ l.name = n /\ l.port = "443"
              /\ ~AllowsByWildcard(f, n, "443")
              /\ \A s \in AuthSections : ~On443(s)
    BY <1>3, <2>1, PassExact DEF Ports
  <2>7. Exact(n) \notin Resolved(f).blocked
    BY <1>3, BlockList DEF Exact, Matches
  <2>8. Allows(f, n, "443")
          <=> \/ \E l \in f.allow : l.kind = "exact" /\ l.name = n /\ l.port = "443"
              \/ AllowsByWildcard(f, n, "443")
    <3>1. \A l \in f.allow : l \in AllowLine /\ l.kind \in {"exact", "wild", "bad"}
      BY DEF Sources, AllowLine
    <3>2. \A l \in f.allow : /\ l.kind = "exact" => (Matches(PatternOf(l), n) <=> l.name = n)
                             /\ l.kind = "wild" => (Matches(PatternOf(l), n) <=> <<n, l.name>> \in Below)
      BY DEF Matches, PatternOf
    <3> QED BY <3>1, <3>2 DEF Allows, AllowsByWildcard
  <2>9. ASSUME NEW r
        PROVE  Carries(f, r, Exact(n)) <=>
                 \/ r = "candidate" /\ On443("candidate")
                 \/ r = "github" /\ On443("github") /\ ~On443("candidate") /\ GithubGate[n] # None
                 \/ r = "codex" /\ On443("codex") /\ ~On443("candidate") /\ ~On443("github")
                 \/ r = "claude" /\ On443("claude") /\ ~On443("candidate") /\ ~On443("github") /\ ~On443("codex")
                 \/ r = "pass" /\ ExactEntry(n, "443") \in Resolved(f).entries["pass"]
    <3> HIDE DEF On443
    <3> QED BY <1>3, <2>5, <2>7, ExactCarriers
  <2>10. (\A r : ~Carries(f, r, Exact(n))) => go(IF AllowsByWildcard(f, n, "443") THEN "pass" ELSE Otherwise(f))
    BY <1>3, LeftToWildcards
  <2>11. Promised443(f, n) =
           IF On443("candidate") THEN "candidate"
           ELSE IF On443("github") /\ GithubGate[n] # None THEN "github"
           ELSE IF On443("github")
             THEN IF AllowsByWildcard(f, n, "443") THEN "pass" ELSE Otherwise(f)
           ELSE IF On443("codex") THEN "codex"
           ELSE IF On443("claude") THEN "claude"
           ELSE IF Allows(f, n, "443") THEN "pass"
           ELSE Otherwise(f)
    BY <1>3 DEF Promised443
  <2> HIDE DEF On443, go
  <2>12. go(Promised443(f, n))
    <3>1. CASE On443("candidate")
      BY <2>3, <2>9, <2>11, <3>1
    <3>2. CASE ~On443("candidate") /\ On443("github") /\ GithubGate[n] # None
      BY <2>3, <2>9, <2>11, <3>2
    <3>3. CASE ~On443("candidate") /\ On443("github") /\ GithubGate[n] = None
      BY <2>4, <2>6, <2>9, <2>10, <2>11, <3>3
    <3>4. CASE ~On443("candidate") /\ ~On443("github") /\ On443("codex")
      BY <2>3, <2>9, <2>11, <3>4
    <3>5. CASE ~On443("candidate") /\ ~On443("github") /\ ~On443("codex") /\ On443("claude")
      BY <2>3, <2>9, <2>11, <3>5
    <3>6. CASE \A s \in AuthSections : ~On443(s)
      <4>1. CASE ExactEntry(n, "443") \in Resolved(f).entries["pass"]
        BY <2>3, <2>4, <2>6, <2>8, <2>9, <2>11, <3>6, <4>1
      <4>2. CASE ExactEntry(n, "443") \notin Resolved(f).entries["pass"]
        BY <2>4, <2>6, <2>8, <2>9, <2>10, <2>11, <3>6, <4>2
      <4> QED BY <4>1, <4>2
    <3> QED BY <2>4, <3>1, <3>2, <3>3, <3>4, <3>5, <3>6
  <2> QED BY <2>12 DEF go
<1> QED BY <1>1, <1>2, <1>3
-----------------------------------------------------------------------------
\* Where a request on port 80 goes.

LEMMA HostsOf ==
  ASSUME NEW f \in Sources, NEW v
  PROVE  v \in ConfigOf(f).hosts
           <=> \/ \E p \in Passes(f, "80") : ~p.wild /\ v = VirtualHost("http", {p}, <<"http", p.name>>)
               \/ LET wild == {p \in Passes(f, "80") : p.wild} IN
                  wild # {} /\ v = VirtualHost("http", wild, <<"forward", None>>)
               \/ /\ Resolved(f).blocked # {}
                  /\ v = VirtualHost("blocklist", Resolved(f).blocked, None)
<1> DEFINE wild == {p \in Passes(f, "80") : p.wild}
<1>1. ConfigOf(f).hosts = VirtualHosts(Resolved(f))
  BY DEF ConfigOf, Rendered, Resolved
<1>2. VirtualHosts(Resolved(f)) =
        {VirtualHost("http", {p}, <<"http", p.name>>) : p \in Passes(f, "80") \ wild}
          \cup {VirtualHost("http", w, <<"forward", None>>) : w \in {wild} \ {{}}}
          \cup {VirtualHost("blocklist", bs, None) : bs \in {Resolved(f).blocked} \ {{}}}
  BY DEF VirtualHosts, Passes
<1> QED BY <1>1, <1>2

LEMMA HostPatterns ==
  ASSUME NEW f \in Sources
  PROVE  /\ \A v \in ConfigOf(f).hosts :
              /\ v.names \subseteq Pattern
              /\ \A p \in v.names : \/ v.route = "http" /\ p \in Passes(f, "80")
                                    \/ v.route = "blocklist" /\ p \in Resolved(f).blocked
         /\ \A p \in Passes(f, "80") : \E v \in ConfigOf(f).hosts : v.route = "http" /\ p \in v.names
         /\ \A p \in Resolved(f).blocked : \E v \in ConfigOf(f).hosts : v.route = "blocklist" /\ p \in v.names
<1>1. Passes(f, "80") \subseteq Pattern /\ Resolved(f).blocked \subseteq Pattern
  BY PassPatterns, BlockList DEF Ports
<1>2. \A r, ns, cl : VirtualHost(r, ns, cl).route = r /\ VirtualHost(r, ns, cl).names = ns
  BY DEF VirtualHost
<1>3. ASSUME NEW v \in ConfigOf(f).hosts
      PROVE  /\ v.names \subseteq Pattern
             /\ \A p \in v.names : \/ v.route = "http" /\ p \in Passes(f, "80")
                                   \/ v.route = "blocklist" /\ p \in Resolved(f).blocked
  <2>1. CASE \E p \in Passes(f, "80") : ~p.wild /\ v = VirtualHost("http", {p}, <<"http", p.name>>)
    BY <1>1, <1>2, <2>1
  <2>2. CASE v = VirtualHost("http", {p \in Passes(f, "80") : p.wild}, <<"forward", None>>)
    BY <1>1, <1>2, <2>2
  <2>3. CASE v = VirtualHost("blocklist", Resolved(f).blocked, None)
    BY <1>1, <1>2, <2>3
  <2> QED BY <2>1, <2>2, <2>3, HostsOf
<1>4. ASSUME NEW p \in Passes(f, "80") PROVE \E v \in ConfigOf(f).hosts : v.route = "http" /\ p \in v.names
  <2>1. CASE ~p.wild
    <3>1. VirtualHost("http", {p}, <<"http", p.name>>) \in ConfigOf(f).hosts
      BY <2>1, HostsOf
    <3> QED BY <1>2, <3>1
  <2>2. CASE p.wild
    <3>1. p \in {x \in Passes(f, "80") : x.wild}
      BY <2>2
    <3>2. VirtualHost("http", {x \in Passes(f, "80") : x.wild}, <<"forward", None>>) \in ConfigOf(f).hosts
      BY <3>1, HostsOf
    <3> QED BY <1>2, <3>1, <3>2
  <2> QED BY <2>1, <2>2
<1>5. ASSUME NEW p \in Resolved(f).blocked PROVE \E v \in ConfigOf(f).hosts : v.route = "blocklist" /\ p \in v.names
  <2>1. VirtualHost("blocklist", Resolved(f).blocked, None) \in ConfigOf(f).hosts
    BY HostsOf
  <2> QED BY <1>2, <2>1
<1> QED BY <1>3, <1>4, <1>5

LEMMA HostSelection ==
  ASSUME NEW f \in Sources, NEW n \in Names
  PROVE  LET chosen == Selected(ConfigOf(f).hosts, n) IN
         /\ \A v \in chosen : \E p \in Pattern :
              /\ Matches(p, n)
              /\ \/ v.route = "http" /\ p \in Passes(f, "80")
                 \/ v.route = "blocklist" /\ p \in Resolved(f).blocked
              /\ \A b \in Resolved(f).blocked : Matches(b, n) => ~Narrower(b, p)
         /\ \A p \in Pattern :
              (p \in Passes(f, "80") \/ p \in Resolved(f).blocked) /\ Matches(p, n) => chosen # {}
<1> DEFINE vs == ConfigOf(f).hosts
           chosen == Selected(vs, n)
<1>1. \A v \in vs :
        /\ v.names \subseteq Pattern
        /\ \A p \in v.names : \/ v.route = "http" /\ p \in Passes(f, "80")
                              \/ v.route = "blocklist" /\ p \in Resolved(f).blocked
  BY HostPatterns
<1>2. /\ \A p \in Passes(f, "80") : \E v \in vs : v.route = "http" /\ p \in v.names
      /\ \A p \in Resolved(f).blocked : \E v \in vs : v.route = "blocklist" /\ p \in v.names
  BY HostPatterns
<1> HIDE DEF vs
<1>3. ASSUME NEW v \in chosen
      PROVE  \E p \in Pattern :
               /\ Matches(p, n)
               /\ \/ v.route = "http" /\ p \in Passes(f, "80")
                  \/ v.route = "blocklist" /\ p \in Resolved(f).blocked
               /\ \A b \in Resolved(f).blocked : Matches(b, n) => ~Narrower(b, p)
  <2>1. v \in vs
    BY DEF Selected
  <2>2. PICK p \in v.names : Matches(p, n) /\ \A d \in vs : \A q \in d.names : Matches(q, n) => ~Narrower(q, p)
    BY DEF Selected
  <2> QED BY <1>1, <1>2, <2>1, <2>2
<1>4. ASSUME NEW p \in Pattern, p \in Passes(f, "80") \/ p \in Resolved(f).blocked, Matches(p, n)
      PROVE  chosen # {}
  <2>1. PICK v \in vs : p \in v.names
    BY <1>2, <1>4
  <2> QED BY <1>1, <1>4, <2>1, NarrowestExists
<1> QED BY <1>3, <1>4 DEF vs

LEMMA Routes80 ==
  ASSUME NEW f \in Sources, NEW n \in Names
  PROVE  RoutesTo(ConfigOf(f).hosts, ConfigOf(f).default, n, Promised80(f, n))
<1> DEFINE chosen == Selected(ConfigOf(f).hosts, n)
           own == ExactEntry(n, "80") \in Resolved(f).entries["pass"]
           wild == AllowsByWildcard(f, n, "80")
<1>1. \A p \in Pattern : Matches(p, n) =>
        IF p.wild THEN <<n, p.name>> \in Below /\ p.name \in Names /\ p = [name |-> p.name, wild |-> TRUE]
        ELSE p = Exact(n)
  BY ExactPattern DEF Matches, Pattern
<1>2. ConfigOf(f).default = Otherwise(f)
  BY DEF ConfigOf, Rendered, Otherwise
<1>3. own <=> /\ \E l \in f.allow : l.kind = "exact" /\ l.name = n /\ l.port = "80"
              /\ Blocking(f, n) = {}
              /\ ~wild
              /\ \A t \in AuthSections : ~LineListed(f, t, n, "80")
  BY PassExact DEF Ports
<1>4. \A p \in Pattern : p \in Passes(f, "80") /\ Matches(p, n) =>
        IF p.wild THEN WildEntry(p.name, "80") \in Resolved(f).entries["pass"] ELSE own
  <2>1. Exact(n).name = n
    BY DEF Exact
  <2> QED BY <1>1, <2>1, PassPatterns DEF Ports
<1>5. CASE Denies(f, n)
  <2>1. PICK b \in Resolved(f).blocked : b \in Pattern /\ b \in ParsedBlock(f.block) /\ Matches(b, n)
    BY <1>5, BlockList
  <2>2. chosen # {}
    BY <2>1, HostSelection
  <2>3. Blocking(f, n) # {}
    BY <2>1, BlockPatterns
  <2>4. ASSUME NEW v \in chosen PROVE v.route = "blocklist"
    <3>1. PICK p \in Pattern :
            /\ Matches(p, n)
            /\ \/ v.route = "http" /\ p \in Passes(f, "80")
               \/ v.route = "blocklist" /\ p \in Resolved(f).blocked
            /\ \A q \in Resolved(f).blocked : Matches(q, n) => ~Narrower(q, p)
      BY HostSelection
    <3>2. ASSUME p \in Passes(f, "80") PROVE FALSE
      <4>1. p.wild
        BY <1>3, <1>4, <2>3, <3>1, <3>2
      <4>2. Narrower(b, p)
        BY <1>1, <1>4, <2>1, <3>1, <3>2, <4>1, BlockIsNarrower, ZenonT(40) DEF Ports
      <4> QED BY <2>1, <3>1, <4>2
    <3> QED BY <3>1, <3>2
  <2> QED BY <1>5, <2>2, <2>4 DEF RoutesTo, Promised80
<1>6. CASE ~Denies(f, n)
  <2>1. ASSUME NEW p \in Pattern, Matches(p, n), p \in Passes(f, "80") \/ p \in Resolved(f).blocked
        PROVE  p \in Passes(f, "80") /\ (own \/ wild)
    <3>1. p \notin Resolved(f).blocked
      BY <1>6, <2>1, BlockList
    <3>2. p.wild => wild
      BY <1>1, <1>4, <1>6, <2>1, <3>1, WildPass DEF Ports
    <3> QED BY <1>4, <2>1, <3>1, <3>2
  <2>2. ASSUME NEW v \in chosen PROVE v.route = "http" /\ (own \/ wild)
    <3>1. PICK p \in Pattern :
            /\ Matches(p, n)
            /\ \/ v.route = "http" /\ p \in Passes(f, "80")
               \/ v.route = "blocklist" /\ p \in Resolved(f).blocked
      BY HostSelection
    <3>2. p \in Passes(f, "80") /\ (own \/ wild)
      BY <2>1, <3>1
    <3>3. p \notin Resolved(f).blocked
      BY <1>6, <3>1, BlockList
    <3> QED BY <3>1, <3>2, <3>3
  <2>3. own \/ wild => chosen # {}
    <3>1. ASSUME own PROVE chosen # {}
      <4>1. Exact(n) \in Pattern /\ Exact(n).name = n /\ ~Exact(n).wild /\ Matches(Exact(n), n)
        BY DEF Exact, Pattern, Matches
      <4>2. Exact(n) \in Passes(f, "80")
        BY <3>1, <4>1, PassPatterns DEF Ports
      <4> QED BY <4>1, <4>2, HostSelection
    <3>2. ASSUME wild PROVE chosen # {}
      <4>1. PICK m \in Names : <<n, m>> \in Below /\ WildEntry(m, "80") \in Resolved(f).entries["pass"]
        BY <1>6, <3>2, WildPass DEF Ports
      <4> DEFINE p == [name |-> m, wild |-> TRUE]
      <4>2. p \in Pattern /\ p.wild /\ p.name = m /\ Matches(p, n)
        BY <4>1 DEF Pattern, Matches
      <4> HIDE DEF p
      <4>3. p \in Passes(f, "80")
        BY <4>1, <4>2, PassPatterns DEF Ports
      <4> QED BY <4>2, <4>3, HostSelection
    <3> QED BY <3>1, <3>2
  <2>4. Blocking(f, n) # {} <=> SetAside(f, n) # {}
    BY <1>6 DEF Denies
  <2>5. Allows(f, n, "80")
          <=> (\E l \in f.allow : l.kind = "exact" /\ l.name = n /\ l.port = "80") \/ wild
    <3>1. \A l \in f.allow : l \in AllowLine /\ l.kind \in {"exact", "wild", "bad"}
      BY DEF Sources, AllowLine
    <3>2. \A l \in f.allow : /\ l.kind = "exact" => (Matches(PatternOf(l), n) <=> l.name = n)
                             /\ l.kind = "wild" => (Matches(PatternOf(l), n) <=> <<n, l.name>> \in Below)
      BY DEF Matches, PatternOf
    <3> QED BY <3>1, <3>2 DEF Allows, AllowsByWildcard
  <2>6. Promised80(f, n) =
          IF SetAside(f, n) # {} \/ \E s \in AuthSections : LineListed(f, s, n, "80")
            THEN IF wild THEN "http" ELSE Otherwise(f)
          ELSE IF Allows(f, n, "80") THEN "http" ELSE Otherwise(f)
    BY <1>6 DEF Promised80
  <2> HIDE DEF own, wild, chosen
  <2>7. Promised80(f, n) = IF own \/ wild THEN "http" ELSE Otherwise(f)
    BY <1>3, <2>4, <2>5, <2>6
  <2>8. /\ \A v \in chosen : v.route = Promised80(f, n)
        /\ chosen = {} => ConfigOf(f).default = Promised80(f, n)
    BY <1>2, <2>2, <2>3, <2>7
  <2> QED BY <2>8 DEF RoutesTo, chosen
<1> QED BY <1>5, <1>6
-----------------------------------------------------------------------------
\* What Envoy rejects.

LEMMA ChainOfRoute ==
  ASSUME NEW f \in Sources, NEW c \in ConfigOf(f).chains, NEW p \in c.names
  PROVE  \/ c.route = "claude" /\ c = ClaudeChain(p.name)
         \/ c.route = "codex" /\ c = CodexChain(p.name)
         \/ c.route = "candidate" /\ c = CandidateChain(p.name)
         \/ c.route = "github" /\ c = GithubChain(p.name)
         \/ c.route = "mcp" /\ c = McpChain(p.name)
         \/ c.route = "pass" /\ c = PassthroughChain(Passes(f, "443"))
         \/ c.route = "blocklist" /\ c = BlockedChain(Resolved(f).blocked)
<1>1. \A n : Exact(n).name = n
  BY DEF Exact
<1>2. CASE \E n : c = ClaudeChain(n)
  BY <1>1, <1>2, ChainFields
<1>3. CASE \E n : c = CodexChain(n)
  BY <1>1, <1>3, ChainFields
<1>4. CASE \E n : c = CandidateChain(n)
  BY <1>1, <1>4, ChainFields
<1>5. CASE \E n : c = GithubChain(n)
  BY <1>1, <1>5, ChainFields
<1>6. CASE \E n : c = McpChain(n)
  BY <1>1, <1>6, ChainFields
<1>7. CASE c = PassthroughChain(Passes(f, "443")) \/ c = BlockedChain(Resolved(f).blocked)
  BY <1>7, ChainFields
<1> QED BY <1>2, <1>3, <1>4, <1>5, <1>6, <1>7, ChainsOf

LEMMA PassesAreNotBlocked ==
  ASSUME NEW f \in Sources, NEW port \in Ports, NEW p \in Passes(f, port)
  PROVE  p \notin Resolved(f).blocked
<1>1. p \in Pattern
  BY PassPatterns
<1>2. CASE p.wild
  <2>1. p.name \in Names /\ WildEntry(p.name, port) \in Resolved(f).entries["pass"]
    BY <1>1, <1>2, PassPatterns DEF Pattern
  <2>2. \A b \in ParsedBlock(f.block) : b.wild => b.name # p.name
    BY <2>1, PassWild
  <2>3. Resolved(f).blocked \subseteq ParsedBlock(f.block)
    BY BlockList
  <2> QED BY <1>2, <2>2, <2>3
<1>3. CASE ~p.wild
  <2>1. p.name \in Names /\ ExactEntry(p.name, port) \in Resolved(f).entries["pass"]
    BY <1>1, <1>3, PassPatterns DEF Pattern
  <2>2. Blocking(f, p.name) = {}
    BY <2>1, PassExact
  <2>3. p \in Resolved(f).blocked => p \in ParsedBlock(f.block) /\ Matches(p, p.name)
    BY <1>3, BlockList DEF Matches
  <2>4. ~\E b \in ParsedBlock(f.block) : Matches(b, p.name)
    BY <2>1, <2>2, BlockPatterns
  <2> QED BY <2>3, <2>4
<1> QED BY <1>2, <1>3

LEMMA ChainsAreDisjoint ==
  ASSUME NEW f \in Sources
  PROVE  Disjoint(ConfigOf(f).chains)
<1> SUFFICES ASSUME NEW c \in ConfigOf(f).chains, NEW d \in ConfigOf(f).chains,
                    NEW p, p \in c.names, p \in d.names
             PROVE  c = d
  BY DEF Disjoint
<1>1. p \in Pattern /\ Carries(f, c.route, p) /\ Carries(f, d.route, p)
  BY ChainPatterns
<1>2. c.route = d.route
  <2>1. CASE p.wild
    <3>1. WildEntry(p.name, "443") \in Resolved(f).entries["pass"] => p \in Passes(f, "443")
      BY <1>1, <2>1, PassPatterns DEF Ports
    <3> QED BY <1>1, <2>1, <3>1, WildCarriers, PassesAreNotBlocked DEF Ports
  <2>2. CASE ~p.wild
    <3>1. p = Exact(p.name) /\ p.name \in Names
      BY <1>1, <2>2, ExactPattern DEF Pattern
    <3> QED BY <1>1, <3>1, OneExactCarrier
  <2> QED BY <2>1, <2>2
<1> QED BY <1>2, ChainOfRoute

LEMMA HostsAreDisjoint ==
  ASSUME NEW f \in Sources
  PROVE  Disjoint(ConfigOf(f).hosts)
<1> SUFFICES ASSUME NEW u \in ConfigOf(f).hosts, NEW v \in ConfigOf(f).hosts,
                    NEW p, p \in u.names, p \in v.names
             PROVE  u = v
  BY DEF Disjoint
<1> DEFINE wild == {q \in Passes(f, "80") : q.wild}
<1>1. \A r, ns, cl : VirtualHost(r, ns, cl).route = r /\ VirtualHost(r, ns, cl).names = ns
  BY DEF VirtualHost
<1>2. ASSUME NEW x \in ConfigOf(f).hosts, p \in x.names
      PROVE  \/ p \in Passes(f, "80") /\ ~p.wild /\ x = VirtualHost("http", {p}, <<"http", p.name>>)
             \/ p \in Passes(f, "80") /\ p.wild /\ x = VirtualHost("http", wild, <<"forward", None>>)
             \/ p \in Resolved(f).blocked /\ x = VirtualHost("blocklist", Resolved(f).blocked, None)
  <2>1. CASE \E q \in Passes(f, "80") : ~q.wild /\ x = VirtualHost("http", {q}, <<"http", q.name>>)
    <3>1. PICK q \in Passes(f, "80") : ~q.wild /\ x = VirtualHost("http", {q}, <<"http", q.name>>)
      BY <2>1
    <3>2. x.names = {q}
      BY <1>1, <3>1
    <3>3. p = q
      BY <1>2, <3>2
    <3> QED BY <3>1, <3>3
  <2>2. CASE x = VirtualHost("http", wild, <<"forward", None>>)
    <3>1. p \in wild
      BY <1>1, <1>2, <2>2
    <3> QED BY <2>2, <3>1
  <2>3. CASE x = VirtualHost("blocklist", Resolved(f).blocked, None)
    <3>1. p \in Resolved(f).blocked
      BY <1>1, <1>2, <2>3
    <3> QED BY <2>3, <3>1
  <2> QED BY <2>1, <2>2, <2>3, HostsOf
<1>3. p \in Passes(f, "80") => p \notin Resolved(f).blocked
  BY PassesAreNotBlocked DEF Ports
<1> HIDE DEF wild
<1> QED BY <1>2, <1>3

LEMMA ClustersHaveNames ==
  ASSUME NEW f \in Sources
  PROVE  \A cl \in ClustersOf(ConfigOf(f)) : \E k, m : cl = <<k, m>> /\ m \in Names \cup {None}
<1>1. f.mcp \subseteq Names
  BY DEF Sources
<1>2. \A s \in AuthSections : Terminated(f, s) \subseteq Names
  BY TerminatedNames
<1>3. AuthSections = {"claude", "codex", "github", "candidate"}
  BY DEF AuthSections
<1>4. \A r, ns, cl, fs : Chain(r, ns, cl, fs).cluster = cl
  BY DEF Chain
<1>5. \A r, ns, cl : VirtualHost(r, ns, cl).route = r /\ VirtualHost(r, ns, cl).cluster = cl
  BY DEF VirtualHost
<1>6. \A n : CodexChain(n).cluster = <<"codex", n>>
  BY <1>4 DEF CodexChain, TlsCluster
<1>7. \A n : CandidateChain(n).cluster = <<"authcandidate", n>> /\ McpChain(n).cluster = <<"mcp", n>>
  BY <1>4 DEF CandidateChain, McpChain, TlsCluster
<1>8. ASSUME NEW n PROVE ClaudeChain(n).cluster = <<"claude", n>>
  <2> DEFINE fs == Gated({"claude placeholder"}, "claude token")
  <2>1. ClaudeChain(n) = Chain("claude", {Exact(n)}, <<"claude", n>>, fs)
    BY DEF ClaudeChain, TlsCluster
  <2> HIDE DEF fs
  <2> QED BY <1>4, <2>1
<1>9. ASSUME NEW n PROVE GithubChain(n).cluster = <<"github", n>>
  <2> DEFINE fs == IF GithubGate[n] = "basic" THEN Gated({"github basic placeholder"}, "github basic")
                   ELSE Gated({"github token placeholder", "github bearer placeholder"}, "github token")
  <2>1. GithubChain(n) = Chain("github", {Exact(n)}, <<"github", n>>, fs)
    BY DEF GithubChain, TlsCluster
  <2> HIDE DEF fs
  <2> QED BY <1>4, <2>1
<1>10. \A ps : /\ PassthroughChain(ps).cluster = <<"forward", None>>
               /\ BlockedChain(ps).cluster = <<"blackhole", None>>
  BY <1>4 DEF PassthroughChain, BlockedChain
<1>11. ASSUME NEW c \in ConfigOf(f).chains PROVE \E k, m : c.cluster = <<k, m>> /\ m \in Names \cup {None}
  <2>1. CASE \E n \in Names : \/ c = ClaudeChain(n) \/ c = CodexChain(n) \/ c = CandidateChain(n)
                              \/ c = GithubChain(n) \/ c = McpChain(n)
    BY <1>6, <1>7, <1>8, <1>9, <2>1
  <2>2. CASE c = PassthroughChain(Passes(f, "443")) \/ c = BlockedChain(Resolved(f).blocked)
    BY <1>10, <2>2
  <2> QED BY <1>1, <1>2, <1>3, <2>1, <2>2, ChainsOf
<1>12. ASSUME NEW v \in ConfigOf(f).hosts, v.route = "http"
       PROVE  \E k, m : v.cluster = <<k, m>> /\ m \in Names \cup {None}
  <2>1. CASE \E p \in Passes(f, "80") : v = VirtualHost("http", {p}, <<"http", p.name>>)
    <3>1. PICK p \in Passes(f, "80") : v = VirtualHost("http", {p}, <<"http", p.name>>)
      BY <2>1
    <3>2. p.name \in Names
      BY PassPatterns DEF Ports, Pattern
    <3> QED BY <1>5, <3>1, <3>2
  <2>2. CASE v = VirtualHost("http", {p \in Passes(f, "80") : p.wild}, <<"forward", None>>)
    BY <1>5, <2>2
  <2>3. CASE v = VirtualHost("blocklist", Resolved(f).blocked, None)
    BY <1>5, <1>12, <2>3
  <2> QED BY <2>1, <2>2, <2>3, HostsOf
<1> QED BY <1>11, <1>12 DEF ClustersOf

LEMMA ClashMeansOneName ==
  ASSUME NEW f \in Sources, Clash(ConfigOf(f))
  PROVE  \E n, m \in Names : n # m /\ Sanitized[n] = Sanitized[m]
<1>1. PICK a \in ClustersOf(ConfigOf(f)), b \in ClustersOf(ConfigOf(f)) :
        a # b /\ ClusterName(a) = ClusterName(b)
  BY DEF Clash
<1>2. PICK k, n : a = <<k, n>> /\ n \in Names \cup {None}
  BY ClustersHaveNames
<1>3. PICK j, m : b = <<j, m>> /\ m \in Names \cup {None}
  BY ClustersHaveNames
<1>4. /\ ClusterName(a) = IF n = None THEN <<k>> ELSE <<k, Sanitized[n]>>
      /\ ClusterName(b) = IF m = None THEN <<j>> ELSE <<j, Sanitized[m]>>
  BY <1>2, <1>3 DEF ClusterName
<1>5. \A x, y, z : <<x>> # <<y, z>>
  BY SMT
<1>6. CASE n = None /\ m = None
  <2>1. <<k>> = <<j>>
    BY <1>1, <1>4, <1>6
  <2> QED BY <1>1, <1>2, <1>3, <1>6, <2>1
<1>7. CASE (n = None /\ m # None) \/ (n # None /\ m = None)
  BY <1>1, <1>4, <1>5, <1>7
<1>8. CASE n # None /\ m # None
  <2>1. <<k, Sanitized[n]>> = <<j, Sanitized[m]>>
    BY <1>1, <1>4, <1>8
  <2>2. k = j /\ Sanitized[n] = Sanitized[m]
    BY <2>1
  <2> QED BY <1>1, <1>2, <1>3, <1>8, <2>2
<1> QED BY <1>6, <1>7, <1>8
-----------------------------------------------------------------------------
\* What a gated destination is sent.

\* A gate, its injectors and AUTH_POST_FILTER_LUA in a row.
LEMMA GateAndInjectors ==
  ASSUME NEW c, NEW h \in Headers, c.filters.gated, c.filters.inject # "absent",
         "absent" \notin c.filters.accepts, c.filters.couples \in BOOLEAN,
         c.filters.couples <=> c.filters.account # None
  PROVE  LET known == h.auth \in c.filters.accepts IN
         Upstream(c, h) =
           [auth |-> IF known THEN c.filters.inject ELSE h.auth,
            account |-> IF known /\ c.filters.account # None THEN c.filters.account ELSE h.account,
            noAuth |-> FALSE, noAccount |-> FALSE]
<1> DEFINE known == h.auth \in c.filters.accepts
           bare == c.filters.couples /\ ~known /\ h.account = "absent"
           auth1 == IF h.auth = "absent" THEN "sentinel" ELSE IF known THEN "absent" ELSE h.auth
           acct1 == IF bare THEN "sentinel" ELSE IF c.filters.couples /\ known THEN "absent" ELSE h.account
           none1 == h.auth = "absent"
           auth2 == IF auth1 = "absent" THEN c.filters.inject ELSE auth1
           acct2 == IF c.filters.account # None /\ acct1 = "absent" THEN c.filters.account ELSE acct1
<1>1. \A a, b, x, y, z :
        LET r == [auth |-> a, account |-> b, noAuth |-> x, noAccount |-> y] IN
        /\ r.auth = a /\ r.account = b /\ r.noAuth = x /\ r.noAccount = y
        /\ [r EXCEPT !.auth = z] = [auth |-> z, account |-> b, noAuth |-> x, noAccount |-> y]
        /\ [r EXCEPT !.account = z] = [auth |-> a, account |-> z, noAuth |-> x, noAccount |-> y]
  OBVIOUS
<1>2. Gate(c, h) = [auth |-> auth1, account |-> acct1, noAuth |-> none1, noAccount |-> bare]
  BY DEF Gate
<1>3. h.account \in {"absent", "foreign"}
  BY DEF Headers
<1>4. auth1 = "absent" <=> known
  BY DEF Headers
<1>5. acct1 = "absent" /\ c.filters.account # None <=> known /\ c.filters.account # None
  BY <1>3
<1> HIDE DEF auth1, acct1, none1, bare
<1>6. InjectAuth(c, Gate(c, h)) = [auth |-> auth2, account |-> acct1, noAuth |-> none1, noAccount |-> bare]
  <2>1. CASE auth1 = "absent"
    BY <1>1, <1>2, <2>1 DEF InjectAuth
  <2>2. CASE auth1 # "absent"
    BY <1>1, <1>2, <2>2 DEF InjectAuth
  <2> QED BY <2>1, <2>2
<1> HIDE DEF auth2
<1>7. InjectAccount(c, InjectAuth(c, Gate(c, h)))
        = [auth |-> auth2, account |-> acct2, noAuth |-> none1, noAccount |-> bare]
  <2>1. CASE c.filters.account # None /\ acct1 = "absent"
    BY <1>1, <1>6, <2>1 DEF InjectAccount
  <2>2. CASE ~(c.filters.account # None /\ acct1 = "absent")
    BY <1>1, <1>6, <2>2 DEF InjectAccount
  <2> QED BY <2>1, <2>2
<1> HIDE DEF acct2
<1>8. Upstream(c, h) = [auth |-> IF none1 THEN "absent" ELSE auth2,
                        account |-> IF bare THEN "absent" ELSE acct2,
                        noAuth |-> FALSE, noAccount |-> FALSE]
  BY <1>1, <1>7 DEF Upstream, Post
<1>9. (IF none1 THEN "absent" ELSE auth2) = IF known THEN c.filters.inject ELSE h.auth
  BY <1>4 DEF none1, auth2, auth1
<1>10. (IF bare THEN "absent" ELSE acct2)
         = IF known /\ c.filters.account # None THEN c.filters.account ELSE h.account
  <2>1. CASE known
    BY <1>3, <1>5, <2>1 DEF bare, acct2, acct1
  <2>2. CASE ~known /\ bare
    BY <2>2 DEF bare
  <2>3. CASE ~known /\ ~bare
    BY <1>3, <2>3 DEF bare, acct2, acct1
  <2> QED BY <2>1, <2>2, <2>3
<1> HIDE DEF known
<1> QED BY <1>8, <1>9, <1>10 DEF known

Honest(g) ==
  /\ g.inject # "absent" /\ "absent" \notin g.accepts
  /\ g.couples \in BOOLEAN
  /\ g.couples <=> g.account # None

LEMMA HonestGates ==
  /\ \A a, i : i # "absent" /\ "absent" \notin a => Honest(Gated(a, i))
  /\ \A a, i, x : i # "absent" /\ "absent" \notin a /\ x # None =>
       Honest([accepts |-> a, couples |-> TRUE, inject |-> i, account |-> x, gated |-> TRUE])
<1>1. ASSUME NEW a, NEW i, i # "absent", "absent" \notin a PROVE Honest(Gated(a, i))
  <2> DEFINE g == [accepts |-> a, couples |-> FALSE, inject |-> i, account |-> None, gated |-> TRUE]
  <2>1. g.inject = i /\ g.accepts = a /\ g.couples = FALSE /\ g.account = None
    OBVIOUS
  <2>2. Gated(a, i) = g
    BY DEF Gated
  <2> HIDE DEF g
  <2>3. ~(g.couples) /\ g.couples \in BOOLEAN
    BY <2>1
  <2>4. Honest(g)
    BY <1>1, <2>1, <2>3 DEF Honest
  <2> QED BY <2>2, <2>4
<1>2. ASSUME NEW a, NEW i, NEW x, i # "absent", "absent" \notin a, x # None
      PROVE  Honest([accepts |-> a, couples |-> TRUE, inject |-> i, account |-> x, gated |-> TRUE])
  <2> DEFINE g == [accepts |-> a, couples |-> TRUE, inject |-> i, account |-> x, gated |-> TRUE]
  <2>1. g.inject = i /\ g.accepts = a /\ g.couples = TRUE /\ g.account = x
    OBVIOUS
  <2> HIDE DEF g
  <2>2. Honest(g)
    BY <1>2, <2>1 DEF Honest
  <2> QED BY <2>2 DEF g
<1> QED BY <1>1, <1>2

LEMMA GatesOf ==
  ASSUME NEW f \in Sources, NEW c \in ConfigOf(f).chains, c.filters.gated
  PROVE  Honest(c.filters)
<1>1. \A r, ns, cl, fs : Chain(r, ns, cl, fs).filters = fs
  BY DEF Chain
<1>2. ASSUME NEW n, c = ClaudeChain(n) PROVE c.filters = Gated({"claude placeholder"}, "claude token")
  <2> DEFINE fs == Gated({"claude placeholder"}, "claude token")
  <2>1. ClaudeChain(n) = Chain("claude", {Exact(n)}, TlsCluster("claude", n), fs)
    BY DEF ClaudeChain
  <2>2. c.filters = fs
    <3> HIDE DEF fs
    <3> QED BY <1>1, <1>2, <2>1
  <2> QED BY <2>2
<1>3. ASSUME NEW n, c = CodexChain(n)
      PROVE  c.filters = [accepts |-> {"codex placeholder"}, couples |-> TRUE, inject |-> "codex token",
                          account |-> "codex account", gated |-> TRUE]
  <2>1. c.filters = [Gated({"codex placeholder"}, "codex token") EXCEPT
                       !.couples = TRUE, !.account = "codex account"]
    BY <1>1, <1>3 DEF CodexChain
  <2> QED BY <2>1 DEF Gated
<1>4. ASSUME NEW n, c = GithubChain(n)
      PROVE  \/ c.filters = Gated({"github basic placeholder"}, "github basic")
             \/ c.filters = Gated({"github token placeholder", "github bearer placeholder"}, "github token")
  <2> DEFINE fs == IF GithubGate[n] = "basic" THEN Gated({"github basic placeholder"}, "github basic")
                   ELSE Gated({"github token placeholder", "github bearer placeholder"}, "github token")
  <2>1. GithubChain(n) = Chain("github", {Exact(n)}, TlsCluster("github", n), fs)
    BY DEF GithubChain
  <2>2. c.filters = fs
    <3> HIDE DEF fs
    <3> QED BY <1>1, <1>4, <2>1
  <2> QED BY <2>2
<1>5. ~NoFilters.gated
  BY DEF NoFilters
<1>6. \A n, ps : /\ CandidateChain(n).filters = NoFilters /\ McpChain(n).filters = NoFilters
                 /\ PassthroughChain(ps).filters = NoFilters /\ BlockedChain(ps).filters = NoFilters
  BY <1>1 DEF CandidateChain, McpChain, PassthroughChain, BlockedChain
<1>7. \E n : c = ClaudeChain(n) \/ c = CodexChain(n) \/ c = GithubChain(n)
  BY <1>5, <1>6, ChainsOf
<1>8. "codex account" # None
  BY NamesAssumption
<1>9. PICK n : c = ClaudeChain(n) \/ c = CodexChain(n) \/ c = GithubChain(n)
  BY <1>7
<1>10. CASE c = ClaudeChain(n)
  BY <1>2, <1>10, HonestGates
<1>11. CASE c = CodexChain(n)
  BY <1>3, <1>8, <1>11, HonestGates
<1>12. CASE c = GithubChain(n)
  BY <1>4, <1>12, HonestGates
<1> QED BY <1>9, <1>10, <1>11, <1>12

LEMMA LeafCovers ==
  ASSUME NEW f \in Sources, NEW c \in ConfigOf(f).chains, NEW p \in c.names,
         c.route \in {"claude", "codex", "github", "candidate", "mcp"}
  PROVE  p.name \in LeafOf(f)
<1>1. p \in Pattern /\ Carries(f, c.route, p)
  BY ChainPatterns
<1>2. LeafOf(f) = TerminatedHosts(Resolved(f)) \cup f.mcp
  BY DEF LeafOf, LeafNames, Resolved
<1>3. CASE c.route = "mcp"
  BY <1>1, <1>2, <1>3 DEF Carries
<1>4. CASE c.route # "mcp"
  <2>1. c.route \in AuthSections /\ ExactEntry(p.name, "443") \in Resolved(f).entries[c.route]
    BY <1>1, <1>4 DEF Carries, AuthSections
  <2>2. ExactEntry(p.name, "443").port = "443" /\ ExactEntry(p.name, "443").name = p.name
    BY DEF ExactEntry
  <2>3. p.name \in TerminatedHosts(Resolved(f))
    BY <2>1, <2>2 DEF TerminatedHosts
  <2> QED BY <1>2, <2>3
<1> QED BY <1>3, <1>4
-----------------------------------------------------------------------------
\* The inductive invariant: envoy.yaml is the rendering of what was read, and the leaf on
\* disk and the one the color loaded cover it unless generate-ca has replaced the first.

PRendered == config # None => read \in Sources /\ config = ConfigOf(read)
PCovered == config # None /\ ~reissued => LeafOf(read) \subseteq served /\ LeafOf(read) \subseteq leaf
PInv == PolicyTypeOK /\ PRendered /\ PCovered

LEMMA PolicyInitial == PolicyInit => PInv
<1> SUFFICES ASSUME PolicyInit PROVE PInv
  OBVIOUS
<1>1. lists \in Lists
  BY DEF PolicyInit, Lists
<1>2. /\ fault \in {"none", "unreadable", "pragma"}
      /\ hosting \in [mcp: SUBSET Names, open: BOOLEAN] \cup {None}
  BY DEF PolicyInit
<1>3. /\ leaf \in SUBSET Names /\ served \in (SUBSET Names) \cup {None} /\ reissued \in BOOLEAN
      /\ read = None /\ config = None
  BY DEF PolicyInit
<1> QED BY <1>1, <1>2, <1>3 DEF PInv, PolicyTypeOK, PRendered, PCovered

LEMMA ApplyKeeps ==
  ASSUME NEW h \in [mcp: SUBSET Names, open: BOOLEAN], lists \in Lists, leaf \in SUBSET Names, Apply(h)
  PROVE  /\ read' \in Sources /\ config' = ConfigOf(read')
         /\ leaf' \in SUBSET Names /\ served' = leaf' /\ reissued' = FALSE
         /\ LeafOf(read') \subseteq leaf'
<1> DEFINE f == Source(lists, h)
<1>1. f \in Sources
  BY DEF Lists, Sources, Source
<1>2. /\ read' = f /\ config' = ConfigOf(f) /\ served' = leaf' /\ reissued' = FALSE
      /\ leaf' = IF LeafOf(f) = {} THEN leaf ELSE LeafOf(f)
  BY DEF Apply
<1>3. LeafOf(f) \in SUBSET Names
  <2>1. f.mcp \subseteq Names
    BY <1>1 DEF Sources
  <2>2. \A s \in AuthSections : \A e \in Resolved(f).entries[s] : e.name \in Names
    BY <1>1, Sections, AuthEntries DEF Entry
  <2>3. TerminatedHosts(Resolved(f)) \subseteq Names
    BY <2>2 DEF TerminatedHosts
  <2> QED BY <2>1, <2>3 DEF LeafOf, LeafNames, Resolved
<1> QED BY <1>1, <1>2, <1>3

LEMMA ListsStayTyped ==
  ASSUME lists \in Lists, EditList \/ ImportPolicy
  PROVE  lists' \in Lists
<1>1. ASSUME NEW l \in AllowLines, lists' = [lists EXCEPT !.allow = Toggled(@, l)] PROVE lists' \in Lists
  BY <1>1, LinesAssumption DEF Lists, Toggled
<1>2. ASSUME NEW l \in AuthLines, lists' = [lists EXCEPT !.auth = Toggled(@, l)] PROVE lists' \in Lists
  BY <1>2, LinesAssumption DEF Lists, Toggled
<1>3. ASSUME NEW l \in BlockLines, lists' = [lists EXCEPT !.block = Toggled(@, l)] PROVE lists' \in Lists
  BY <1>3, LinesAssumption DEF Lists, Toggled
<1>4. ASSUME NEW rows \in SUBSET ImportRows,
             lists' = [lists EXCEPT !.allow = ImportedAllow(rows), !.auth = ImportedAuth(rows)]
      PROVE  lists' \in Lists
  <2>1. \A r \in rows : r.name \in Names /\ r.port \in Ports
    BY LinesAssumption DEF ImportRow
  <2>2. ImportedAllow(rows) \subseteq AllowLine
    BY <2>1 DEF ImportedAllow, Imported, AllowLine
  <2>3. ImportedAuth(rows) \subseteq AuthLine
    BY <2>1 DEF ImportedAuth, Imported, AuthLine, AuthSections
  <2> QED BY <1>4, <2>2, <2>3 DEF Lists
<1> QED BY <1>1, <1>2, <1>3, <1>4 DEF EditList, ImportPolicy

LEMMA PolicyStep == PInv /\ [PolicyNext]_policyVars => PInv'
<1> SUFFICES ASSUME PInv, [PolicyNext]_policyVars PROVE PInv'
  OBVIOUS
<1> USE DEF PInv, PRendered, PCovered, outputs
<1>1. lists \in Lists /\ leaf \in SUBSET Names /\ PolicyTypeOK
  BY DEF PolicyTypeOK
<1>2. CASE EditList
  <2>1. lists' \in Lists
    BY <1>1, <1>2, ListsStayTyped
  <2> QED BY <1>1, <1>2, <2>1 DEF EditList, PolicyTypeOK
<1>3. CASE ImportPolicy
  <2>1. lists' \in Lists
    BY <1>1, <1>3, ListsStayTyped
  <2> QED BY <1>1, <1>3, <2>1 DEF ImportPolicy, PolicyTypeOK
<1>4. CASE Damage
  BY <1>1, <1>4 DEF Damage, PolicyTypeOK
<1>5. CASE Repair
  BY <1>1, <1>5 DEF Repair, PolicyTypeOK
<1>6. CASE StartHosting
  <2>1. PICK declared \in McpFiles, open \in BOOLEAN :
          /\ hosting' = [mcp |-> declared, open |-> open]
          /\ Apply([mcp |-> declared, open |-> open])
    BY <1>6 DEF StartHosting
  <2>2. [mcp |-> declared, open |-> open] \in [mcp: SUBSET Names, open: BOOLEAN]
    BY LinesAssumption
  <2>3. /\ read' \in Sources /\ config' = ConfigOf(read')
        /\ leaf' \in SUBSET Names /\ served' = leaf' /\ reissued' = FALSE
        /\ LeafOf(read') \subseteq leaf'
    BY <1>1, <2>1, <2>2, ApplyKeeps
  <2>4. lists' = lists /\ fault' = fault
    BY <1>6 DEF StartHosting
  <2> QED BY <1>1, <2>1, <2>2, <2>3, <2>4 DEF PolicyTypeOK, Sources
<1>7. CASE Reload
  <2>1. hosting # None /\ Apply(hosting) /\ UNCHANGED <<lists, fault, hosting>>
    BY <1>7 DEF Reload
  <2>2. hosting \in [mcp: SUBSET Names, open: BOOLEAN]
    BY <1>1, <2>1 DEF PolicyTypeOK
  <2>3. /\ read' \in Sources /\ config' = ConfigOf(read')
        /\ leaf' \in SUBSET Names /\ served' = leaf' /\ reissued' = FALSE
        /\ LeafOf(read') \subseteq leaf'
    BY <1>1, <2>1, <2>2, ApplyKeeps
  <2> QED BY <1>1, <2>1, <2>3 DEF PolicyTypeOK, Sources
<1>8. CASE ReloadThrows
  BY <1>1, <1>8 DEF ReloadThrows, PolicyTypeOK
<1>9. CASE StopHosting
  BY <1>1, <1>9 DEF StopHosting, PolicyTypeOK
<1>10. CASE GenerateCa
  <2>1. \A s \in AuthSections : ParsedAuth(lists.auth, s) \subseteq {EntryOf(l) : l \in lists.auth}
    BY DEF ParsedAuth
  <2>2. \A l \in lists.auth : EntryOf(l).name \in Names
    BY <1>1 DEF Lists, AuthLine, EntryOf
  <2>3. {e.name : e \in On("443", UNION {ParsedAuth(lists.auth, s) : s \in AuthSections})} \subseteq Names
    BY <2>1, <2>2 DEF On
  <2>4. leaf' \in SUBSET Names /\ reissued' = TRUE /\ UNCHANGED <<lists, fault, hosting, read, config, served>>
    BY <1>10, <2>3 DEF GenerateCa
  <2> QED BY <1>1, <2>4 DEF PolicyTypeOK
<1>11. CASE Rotate
  BY <1>1, <1>11 DEF Rotate, PolicyTypeOK
<1>12. CASE UNCHANGED policyVars
  BY <1>1, <1>12 DEF policyVars, PolicyTypeOK
<1> QED BY <1>2, <1>3, <1>4, <1>5, <1>6, <1>7, <1>8, <1>9, <1>10, <1>11, <1>12 DEF PolicyNext

THEOREM PolicyInvariant == PolicySpec => []PInv
BY PolicyInitial, PolicyStep, PTL DEF PolicySpec

\* The lists, the running command and the leaf keep their shapes (PolicyFiles).
THEOREM PolicyTypes == PolicySpec => []PolicyTypeOK
<1>1. PInv => PolicyTypeOK
  BY DEF PInv
<1> QED BY <1>1, PolicyInvariant, PTL

\* Whatever lines the three lists and mcp-servers.yaml hold together, and whatever names
\* there are, a connection or request goes where the lists say (combinePolicy,
\* generateEnvoyConfig).
THEOREM GoesAsListed == PolicySpec => []RoutesAsListed
<1>1. PInv => RoutesAsListed
  BY Routes443, Routes80 DEF PInv, PRendered, RoutesAsListed
<1> QED BY <1>1, PolicyInvariant, PTL

\* Envoy never rejects a rendered configuration, but for two hosts of one sanitized name
\* (resolveMcpAllowlistCollisions, sanitizeName).
THEOREM Accepted == PolicySpec => []EnvoyAccepts
<1>1. PInv => EnvoyAccepts
  BY ChainsAreDisjoint, HostsAreDisjoint, ClashMeansOneName DEF PInv, PRendered, EnvoyAccepts
<1> QED BY <1>1, PolicyInvariant, PTL

\* The leaf the serving color loaded carries every name whose TLS is terminated, until
\* generate-ca is run (ensureLeaf, terminateTlsHosts).
THEOREM LeafIsEnough == PolicySpec => []LeafCoversTerminated
<1>1. PInv => LeafCoversTerminated
  BY LeafCovers DEF PInv, PRendered, PCovered, LeafCoversTerminated
<1> QED BY <1>1, PolicyInvariant, PTL

\* A credential is injected for its placeholder and for nothing else, and what the client
\* sent otherwise reaches the upstream unmarked (gate.lua, credential_injector).
THEOREM InjectedOnlyForPlaceholder == PolicySpec => []InjectedAsPromised
<1>1. PInv => InjectedAsPromised
  <2> SUFFICES ASSUME PInv, config # None, NEW c \in config.chains, c.filters.gated, NEW h \in Headers
               PROVE  LET known == h.auth \in c.filters.accepts IN
                      Upstream(c, h) =
                        [auth |-> IF known THEN c.filters.inject ELSE h.auth,
                         account |-> IF known /\ c.filters.account # None THEN c.filters.account
                                     ELSE h.account,
                         noAuth |-> FALSE, noAccount |-> FALSE]
    BY DEF InjectedAsPromised
  <2>1. Honest(c.filters)
    BY GatesOf DEF PInv, PRendered
  <2> QED BY <2>1, GateAndInjectors DEF Honest
<1> QED BY <1>1, PolicyInvariant, PTL

=============================================================================
