------------------------- MODULE PolicyReview_proofs -------------------------
(***************************************************************************)
(* What is proved about PolicyReview for any keys, rules, dates, texts and *)
(* series of merges.                                                       *)
(***************************************************************************)
EXTENDS PolicyReview, TLAPS

-----------------------------------------------------------------------------
(* The four files.                                                         *)

CC == File("checkwash", "config")
GC == File("greenwash", "config")
CA == File("checkwash", "allow")
GA == File("greenwash", "allow")

LEMMA FourFiles ==
    /\ Files = {CC, GC, CA, GA}
    /\ Files \subseteq Paths /\ Elsewhere \in Paths /\ Elsewhere \notin Files
    /\ CC # GC /\ CC # CA /\ CC # GA /\ GC # CA /\ GC # GA /\ CA # GA
    /\ CC.dir = "checkwash" /\ CC.name = "config"
    /\ GC.dir = "greenwash" /\ GC.name = "config"
    /\ CA.dir = "checkwash" /\ CA.name = "allow"
    /\ GA.dir = "greenwash" /\ GA.name = "allow"
<1>1. ASSUME NEW f \in Files
      PROVE  f \in {CC, GC, CA, GA}
  <2>1. PICK d \in Dirs, n \in Names : f = [dir |-> d, name |-> n]
    BY DEF Files
  <2>2. QED
    BY <2>1 DEF File, CC, GC, CA, GA, Dirs, Names
<1>2. {CC, GC, CA, GA} \subseteq Files
  BY DEF Files, File, CC, GC, CA, GA, Dirs, Names
<1>3. Files = {CC, GC, CA, GA}
  BY <1>1, <1>2
<1>4. QED
  BY <1>3, PolicyAssumption DEF File, CC, GC, CA, GA, Paths

LEMMA Texts ==
    /\ None \notin Text
    /\ Empty \in Text
    /\ Default \in Policy
    /\ \A x \in Text \cup {None} : PolicyOf(x) \in Policy /\ Entries(x) \in Seq(Entry)
<1>1. Default \in Policy
  BY PolicyAssumption DEF Default, Policy, High, Severities, Critical
<1>2. Empty \in Text
  BY <1>1 DEF Empty, Text
<1>3. ASSUME NEW x \in Text \cup {None}
      PROVE  PolicyOf(x) \in Policy /\ Entries(x) \in Seq(Entry)
  BY <1>1 DEF PolicyOf, Entries, Readable, Text
<1>4. QED
  BY <1>1, <1>2, <1>3, PolicyAssumption

-----------------------------------------------------------------------------
(* The change list.                                                        *)

\* The fields of an entry of the change list are those of its two paths; a
\* rename joins a removed path and an added one.
LEMMA ChangeFacts ==
    ASSUME NEW from \in Trees, NEW to \in Trees, NEW policy,
           NEW pairing, pairing \in Pairings(from, to),
           NEW c, c \in Changes(from, to, Expanded(policy, pairing))
    PROVE  /\ c.path \in Paths /\ c.old \in Paths
           /\ c.before = from[c.old] /\ c.after = to[c.path]
           /\ c.old # c.path => /\ from[c.old] # None /\ to[c.old] = None
                                /\ from[c.path] = None /\ to[c.path] # None
                                /\ Alike(from[c.old], to[c.path])
<1>1. CASE \E x \in Expanded(policy, pairing) :
             c = [path |-> x[2], old |-> x[1], before |-> from[x[1]], after |-> to[x[2]]]
  <2>1. PICK x \in Expanded(policy, pairing) :
               c = [path |-> x[2], old |-> x[1], before |-> from[x[1]], after |-> to[x[2]]]
    BY <1>1
  <2>2. x \in Removed(from, to) \X Added(from, to) /\ Alike(from[x[1]], to[x[2]])
    BY <2>1 DEF Expanded, Pairings
  <2>3. QED
    BY <2>1, <2>2 DEF Removed, Added
<1>2. CASE \E p \in Paths : c = [path |-> p, old |-> p, before |-> from[p], after |-> to[p]]
  BY <1>2
<1>3. QED
  BY <1>1, <1>2 DEF Changes

\* Under a policy that keeps them under review every difference in one of the
\* four files is an entry of the list under one of the four files.
LEMMA Judged ==
    ASSUME NEW from \in Trees, NEW to \in Trees,
           NEW policy, Guards[policy.roles] = Files,
           NEW pairing, pairing \in Pairings(from, to),
           NEW p \in Files, from[p] # to[p]
    PROVE  \E c \in Changes(from, to, Expanded(policy, pairing)) :
              /\ c.path \in Files
              /\ c.path = p \/ (c.path # p /\ c.old = p /\ to[p] = None)
<1> DEFINE plain == [path |-> p, old |-> p, before |-> from[p], after |-> to[p]]
<1>1. p \in Paths
  BY FourFiles
<1>2. CASE \A x \in Expanded(policy, pairing) : p \notin {x[1], x[2]}
  <2>1. plain \in Changes(from, to, Expanded(policy, pairing))
    BY <1>1, <1>2 DEF Changes
  <2>2. QED
    BY <2>1
<1>3. CASE \E x \in Expanded(policy, pairing) : p \in {x[1], x[2]}
  <2>1. PICK x \in Expanded(policy, pairing) : p \in {x[1], x[2]}
    BY <1>3
  <2>2. x \in Removed(from, to) \X Added(from, to) /\ ~Escapes(policy, x)
    BY <2>1 DEF Expanded, Pairings
  <2> DEFINE moved == [path |-> x[2], old |-> x[1], before |-> from[x[1]], after |-> to[x[2]]]
  <2>3. moved \in Changes(from, to, Expanded(policy, pairing))
    BY <2>1 DEF Changes
  <2>4. x[1] \in Paths /\ x[2] \in Paths /\ to[x[1]] = None /\ from[x[2]] = None /\ to[x[2]] # None
    BY <2>2 DEF Removed, Added
  <2>5. x[2] \in Files
    <3>1. CASE p = x[1]
      BY <2>2, <2>4, <3>1 DEF Escapes, Paths
    <3>2. CASE p = x[2]
      BY <3>2
    <3>3. QED
      BY <2>1, <3>1, <3>2
  <2>6. p = x[2] \/ (x[2] # p /\ x[1] = p /\ to[p] = None)
    BY <2>1, <2>4
  <2>7. QED
    BY <2>3, <2>5, <2>6
<1>4. QED
  BY <1>2, <1>3

-----------------------------------------------------------------------------
(* A change that passes, file by file.                                     *)

\* What is left of "the change is not blocked" for the files of checkwash.
Quiet(from, changes) == \A c \in changes : Touches(from, c) => GuardSeverity(from, c) = Warn

LEMMA UnblockedIsQuiet ==
    ASSUME NEW from \in Trees, NEW to \in Trees, NEW changes, NEW weak, NEW today,
           ~Blocks(from, to, changes, weak, today),
           Guard \notin GatePolicy(from).disabled,
           GatePolicy(from) \in Policy
    PROVE  Quiet(from, changes)
<1> SUFFICES ASSUME NEW c \in changes, Touches(from, c), GuardSeverity(from, c) # Warn
             PROVE  FALSE
  BY DEF Quiet
<1>1. GuardSeverity(from, c) = Critical
  BY DEF GuardSeverity
<1>2. GatePolicy(from).failOn \in 0..3
  BY DEF Policy, Severities, Critical
<1>3. GuardSeverity(from, c) >= GatePolicy(from).failOn
  BY <1>1, <1>2 DEF Critical
<1>4. QED
  BY <1>3 DEF Blocks, PolicySide

LEMMA SelectedFiles ==
    ASSUME NEW side \in Trees
    PROVE  /\ Selected(side, "config") = IF side[CC] # None THEN side[CC] ELSE side[GC]
           /\ Ledger(side) = IF side[CA] # None THEN side[CA] ELSE side[GA]
           /\ Selected(side, "config") \in Text \cup {None}
           /\ Ledger(side) \in Text \cup {None}
           /\ GatePolicy(side) \in Policy
           /\ Entries(Ledger(side)) \in Seq(Entry)
<1>1. /\ Selected(side, "config") = IF side[CC] # None THEN side[CC] ELSE side[GC]
      /\ Ledger(side) = IF side[CA] # None THEN side[CA] ELSE side[GA]
  BY DEF Selected, Winner, Ledger, CC, GC, CA, GA
<1>2. \A f \in Files : side[f] \in Text \cup {None}
  BY FourFiles DEF Trees
<1>3. Selected(side, "config") \in Text \cup {None} /\ Ledger(side) \in Text \cup {None}
  BY <1>1, <1>2, FourFiles
<1>4. QED
  BY <1>1, <1>3, Texts DEF GatePolicy

LEMMA DefaultReading ==
    /\ PolicyOf(None) = Default /\ PolicyOf(Empty) = Default
    /\ Entries(None) = <<>> /\ Entries(Empty) = <<>>
    /\ Readable(None) /\ Readable(Empty) /\ Empty # None
BY Texts DEF PolicyOf, Entries, Readable, Empty

\* A config that does not loosen relaxes nothing of the default.
LEMMA NotLoosening ==
    ASSUME NEW x \in Text \cup {None}, ~Loosens(x)
    PROVE  ~Relaxes(PolicyOf(x), Default)
<1>1. PolicyOf(x).disabled = {} /\ ~(PolicyOf(x).failOn > Default.failOn)
  BY DEF Loosens, Default
<1>2. QED
  BY <1>1 DEF Relaxes, Default

LEMMA NothingRelaxes ==
    ASSUME NEW p \in Policy
    PROVE  ~Relaxes(p, p) /\ ~Weaker(p, p)
BY DEF Weaker, Relaxes, Policy, Severities, Critical

LEMMA WeakerComposes ==
    ASSUME NEW a \in Policy, NEW b \in Policy, NEW c \in Policy, ~Weaker(b, a), ~Weaker(c, b)
    PROVE  ~Weaker(c, a)
<1>1. a.failOn \in Int /\ b.failOn \in Int /\ c.failOn \in Int
  BY DEF Policy, Severities, Critical
<1>2. c.disabled \subseteq a.disabled
  BY DEF Weaker, Relaxes
<1>3. ~(c.failOn > a.failOn)
  <2>1. ~(b.failOn > a.failOn) /\ ~(c.failOn > b.failOn)
    BY DEF Weaker, Relaxes
  <2>2. QED
    BY <1>1, <2>1
<1>4. ~(a.blocks /\ ~c.blocks)
  BY DEF Weaker, Relaxes
<1>5. /\ Guards[a.roles] \subseteq Guards[c.roles]
      /\ Judges[a.roles] \subseteq Judges[c.roles]
  BY DEF Weaker
<1>6. QED
  BY <1>2, <1>3, <1>4, <1>5 DEF Weaker, Relaxes

\* A policy no weaker than one that keeps its files under review keeps them too.
LEMMA SupervisionIsKept ==
    ASSUME NEW a \in Policy, NEW b \in Policy, Supervised(a), ~Weaker(b, a)
    PROVE  Supervised(b)
<1>1. Guards[b.roles] \subseteq Files /\ Guards[a.roles] \subseteq Guards[b.roles]
  BY PolicyAssumption DEF Weaker, Policy
<1>2. b.disabled \subseteq a.disabled
  BY DEF Weaker, Relaxes
<1>3. QED
  BY <1>1, <1>2 DEF Supervised

\* A quiet change to a config.toml that was there found it empty, and the new
\* text does not loosen; so the first file of a side that has none.
LEMMA QuietConfig ==
    ASSUME NEW from \in Trees, NEW to \in Trees, NEW changes, NEW c \in changes,
           Supervised(GatePolicy(from)),
           Quiet(from, changes), c.path \in Files, c.path.name = "config",
           ~Shadows(from, c)
    PROVE  c.before \in {None, Empty} /\ ~Loosens(c.after)
BY DEF Quiet, Touches, IsGuardrail, Supervised, IsAppend, GuardSeverity, Created, Warn, Critical

\* One that takes over from the file under .greenwash/ weakens nothing of it.
LEMMA QuietTakeover ==
    ASSUME NEW from \in Trees, NEW to \in Trees, NEW changes, NEW c \in changes,
           Supervised(GatePolicy(from)),
           Quiet(from, changes), c.path = CC, Shadows(from, c), c.after = to[CC]
    PROVE  ~Weaker(PolicyOf(to[CC]), PolicyOf(from[GC]))
<1>1. Predecessor(from, c) = from[GC]
  BY FourFiles DEF Predecessor, GC
<1>2. ~GuardedTransition(from[GC], to[CC])
  BY <1>1, FourFiles
  DEF Quiet, Touches, IsGuardrail, Supervised, IsAppend, GuardSeverity, Warn, Critical
<1>3. to[CC] # None /\ from[GC] # None
  BY FourFiles DEF Shadows, GC
<1>4. /\ PolicyOf(to[CC]) = to[CC].policy /\ PolicyOf(from[GC]) = from[GC].policy
      /\ to[CC].policy.roles = from[GC].policy.roles
  BY <1>2, <1>3 DEF GuardedTransition, Comparable, PolicyOf
<1>5. QED
  BY <1>2, <1>4 DEF GuardedTransition, Weaker

\* A file that is gone under its own name was empty: nothing else of the four
\* may be taken away, or renamed to another of them but to a ledger.
LEMMA QuietRemoval ==
    ASSUME NEW from \in Trees, NEW to \in Trees, NEW policy,
           NEW pairing, pairing \in Pairings(from, to),
           NEW c, c \in Changes(from, to, Expanded(policy, pairing)),
           Supervised(GatePolicy(from)),
           Quiet(from, Changes(from, to, Expanded(policy, pairing))),
           ~BecomesLedger(from, to, Own("config")),
           c.path \in Files, c.old \in {CC, GC}, c.old # c.path
    PROVE  c.before \in {None, Empty}
<1>1. CASE c.path.name = "config"
  BY <1>1 DEF Quiet, Touches, IsGuardrail, Supervised, IsAppend, GuardSeverity, Created, Warn, Critical
<1>2. CASE c.path.name = "allow"
  <2>1. c.path \in Own("allow") /\ c.old \in Own("config")
    BY <1>2, FourFiles DEF Own, File, CC, GC, CA, GA, Dirs
  <2>2. /\ c.path \in Added(from, to) /\ c.old \in Removed(from, to)
        /\ Alike(from[c.old], to[c.path])
    BY ChangeFacts DEF Added, Removed
  <2>3. QED
    BY <2>1, <2>2 DEF BecomesLedger
<1>3. c.path.name \in {"config", "allow"}
  BY FourFiles
<1>4. QED
  BY <1>1, <1>2, <1>3

\* A weaker policy comes into force only in one of the three stated ways; by the
\* first role table it relaxes nothing but roles.
LEMMA ConfigKept ==
    ASSUME NEW from \in Trees, NEW to \in Trees, NEW policy, Guards[policy.roles] = Files,
           NEW pairing, pairing \in Pairings(from, to),
           Supervised(GatePolicy(from)),
           Quiet(from, Changes(from, to, Expanded(policy, pairing))),
           Weaker(GatePolicy(to), GatePolicy(from))
    PROVE  PolicySlips(from, to)
<1> SUFFICES ASSUME ~Reveals(from, to, "config"), ~BecomesLedger(from, to, Own("config"))
             PROVE  FirstTable(from, to)
  BY DEF PolicySlips
<1> DEFINE changes == Changes(from, to, Expanded(policy, pairing))
<1> DEFINE old == PolicyOf(Selected(from, "config"))
<1> DEFINE new == PolicyOf(Selected(to, "config"))
<1>0. Default \in Policy /\ CC \in Files /\ GC \in Files /\ ~Weaker(Default, Default)
  BY Texts, FourFiles, NothingRelaxes
<1>1. /\ Selected(from, "config") = IF from[CC] # None THEN from[CC] ELSE from[GC]
      /\ Selected(to, "config") = IF to[CC] # None THEN to[CC] ELSE to[GC]
      /\ Winner(to, "config") = IF to[CC] # None THEN CC ELSE GC
      /\ old \in Policy /\ new \in Policy
  BY SelectedFiles DEF GatePolicy, Winner, CC, GC
<1>2. to[CC] \in Text \cup {None} /\ to[GC] \in Text \cup {None}
  BY FourFiles DEF Trees
<1>3. ~(from[CC] = Empty /\ to[CC] = None)
  BY DEF Reveals, CC
<1> HIDE DEF changes, old, new
<1>a. Weaker(new, old)
  BY DEF old, new, GatePolicy
<1>b. SUFFICES ASSUME TRUE
               PROVE  /\ from[Winner(to, "config")] = Selected(from, "config")
                      /\ Selected(from, "config") \in {None, Empty}
                      /\ ~Relaxes(new, old)
  BY DEF FirstTable, old, new, GatePolicy
<1>4. CASE from[CC] # None /\ from[CC] = to[CC]
  BY <1>a, <1>1, <1>4, NothingRelaxes DEF old, new
<1>5. CASE from[CC] # None /\ from[CC] # to[CC]
  <2>1. PICK c \in changes : c.path \in Files /\ (c.path = CC \/ (c.path # CC /\ c.old = CC /\ to[CC] = None))
    BY <1>0, <1>5, Judged DEF changes
  <2>2. /\ c.before = from[c.old] /\ c.after = to[c.path]
        /\ c.old # c.path => from[c.path] = None
    BY ChangeFacts DEF changes
  <2>3. c.old = CC /\ c.before = from[CC]
    BY <1>5, <2>1, <2>2
  <2>4. CASE c.path = CC
    <3>1. ~Shadows(from, c)
      BY <1>5, <2>4 DEF Shadows
    <3>2. from[CC] = Empty /\ ~Loosens(to[CC])
      BY <1>5, <2>1, <2>2, <2>3, <2>4, <3>1, QuietConfig, FourFiles DEF changes
    <3>3. /\ old = Default /\ new = PolicyOf(to[CC])
          /\ Winner(to, "config") = CC /\ Selected(from, "config") = from[CC]
      BY <1>1, <1>3, <1>5, <3>2, DefaultReading DEF old, new
    <3>4. QED
      BY <1>2, <3>2, <3>3, NotLoosening
  <2>5. CASE c.path # CC
    BY <1>3, <1>5, <2>1, <2>3, <2>5, QuietRemoval DEF changes
  <2>6. QED
    BY <2>4, <2>5
<1>6. CASE from[CC] = None /\ to[CC] # None
  <2>1. PICK c \in changes : c.path = CC
    BY <1>0, <1>6, Judged DEF changes
  <2>2. /\ c.before = from[c.old] /\ c.after = to[CC]
        /\ c.old # CC => from[c.old] # None
    BY <2>1, ChangeFacts DEF changes
  <2>3. CASE Shadows(from, c)
    <3>1. ~Weaker(PolicyOf(to[CC]), PolicyOf(from[GC]))
      BY <2>1, <2>2, <2>3, QuietTakeover DEF changes
    <3>2. QED
      BY <1>a, <1>1, <1>6, <3>1 DEF old, new
  <2>4. CASE ~Shadows(from, c)
    <3>1. c.before \in {None, Empty} /\ ~Loosens(to[CC])
      BY <1>0, <2>1, <2>2, <2>4, QuietConfig, FourFiles DEF changes
    <3>2. c.before = None \/ (c.before = Empty /\ c.old # c.path)
      BY <1>6, <2>1, <2>2, <3>1
    <3>3. from[GC] = None
      BY <1>6, <2>1, <2>2, <2>4, <3>2, FourFiles DEF Shadows, GC
    <3>4. /\ old = Default /\ new = PolicyOf(to[CC])
          /\ Winner(to, "config") = CC /\ Selected(from, "config") = None
      BY <1>1, <1>6, <3>3, DefaultReading DEF old, new
    <3>5. QED
      BY <1>2, <1>6, <3>1, <3>4, NotLoosening
  <2>5. QED
    BY <2>3, <2>4
<1>7. CASE from[CC] = None /\ to[CC] = None /\ from[GC] = to[GC]
  BY <1>a, <1>1, <1>7, NothingRelaxes DEF old, new
<1>8. CASE from[CC] = None /\ to[CC] = None /\ from[GC] # to[GC]
  <2>0. /\ old = PolicyOf(from[GC]) /\ new = PolicyOf(to[GC])
        /\ Winner(to, "config") = GC /\ Selected(from, "config") = from[GC]
    BY <1>1, <1>8 DEF old, new
  <2>1. PICK c \in changes : c.path \in Files /\ (c.path = GC \/ (c.path # GC /\ c.old = GC /\ to[GC] = None))
    BY <1>0, <1>8, Judged DEF changes
  <2>2. /\ c.path \in Paths /\ c.old \in Paths
        /\ c.before = from[c.old] /\ c.after = to[c.path]
        /\ c.old # c.path => from[c.path] = None
    BY ChangeFacts DEF changes
  <2>3. CASE c.path = GC
    <3>1. ~Shadows(from, c)
      BY <2>3, FourFiles DEF Shadows
    <3>2. c.before \in {None, Empty} /\ ~Loosens(to[GC])
      BY <1>0, <2>1, <2>2, <2>3, <3>1, QuietConfig, FourFiles DEF changes
    <3>3. from[GC] \in {None, Empty}
      BY <2>2, <2>3, <3>2
    <3>4. old = Default
      BY <2>0, <3>3, DefaultReading
    <3>5. QED
      BY <1>2, <2>0, <3>2, <3>3, <3>4, NotLoosening
  <2>4. CASE c.path # GC
    <3>1. c.before \in {None, Empty}
      BY <2>1, <2>4, QuietRemoval DEF changes
    <3>2. old = Default /\ new = Default
      BY <2>0, <2>1, <2>2, <2>4, <3>1, DefaultReading
    <3>3. QED
      BY <1>a, <1>0, <3>2
  <2>5. QED
    BY <2>3, <2>4
<1>9. QED
  BY <1>4, <1>5, <1>6, <1>7, <1>8

-----------------------------------------------------------------------------
(* The ledger in force.                                                    *)

\* The ledger of the new side repeats the old one, an unreadable one does not
\* come to be read again, and what follows the old one is announced.
Extends(old, new) ==
    /\ IsPrefix(Entries(old), Entries(new))
    /\ Readable(new) => Readable(old)

Told(old, new, keys) ==
    \A i \in DOMAIN Entries(new) : i > Len(Entries(old)) => Entries(new)[i].key \in keys

Grown(old, new, keys) == Extends(old, new) /\ Told(old, new, keys)

LEMMA GrownSame ==
    ASSUME NEW x \in Text \cup {None}, NEW keys
    PROVE  Grown(x, x, keys)
<1>1. Entries(x) \in Seq(Entry)
  BY Texts
<1>2. QED
  BY <1>1 DEF Grown, Extends, Told, IsPrefix

LEMMA GrownFromNothing ==
    ASSUME NEW old, NEW new, NEW keys,
           Entries(old) = <<>>, Entries(new) = <<>>, Readable(old)
    PROVE  Grown(old, new, keys)
<1>1. IsPrefix(<<>>, <<>>)
  BY DEF IsPrefix
<1>2. QED
  BY <1>1 DEF Grown, Extends, Told

LEMMA GrownByAppend ==
    ASSUME NEW from \in Trees, NEW changes, NEW c \in changes,
           Supervised(GatePolicy(from)), c.path \in Files, IsAppend(from, c)
    PROVE  Grown(Predecessor(from, c), c.after, Announced(from, changes))
<1> DEFINE old == Entries(Predecessor(from, c))
<1> DEFINE new == Entries(c.after)
<1>1. Appended(from, c) \subseteq Announced(from, changes)
  BY DEF Announced, IsGuardrail, Supervised
<1>2. ASSUME NEW i \in DOMAIN new, i > Len(old)
      PROVE  new[i].key \in Announced(from, changes)
  <2>1. new[i].key \in Appended(from, c)
    BY <1>2 DEF Appended
  <2>2. QED
    BY <1>1, <2>1
<1>3. QED
  BY <1>2 DEF Grown, Extends, Told, IsAppend, Appends

\* A quiet change to an allow.toml that is no append starts from nothing.
LEMMA QuietLedger ==
    ASSUME NEW from \in Trees, NEW changes, NEW c \in changes,
           Supervised(GatePolicy(from)),
           Quiet(from, changes), c.path \in Files, c.path.name = "allow",
           ~IsAppend(from, c)
    PROVE  c.before \in {None, Empty} /\ ~Shadows(from, c)
BY DEF Quiet, Touches, IsGuardrail, Supervised, GuardSeverity, Created, Warn, Critical

\* What it leaves has no entries, unless it leaves nothing.
LEMMA NoAppend ==
    ASSUME NEW old \in {None, Empty}, NEW new \in Text \cup {None}, ~Appends(old, new)
    PROVE  new = None \/ ~Readable(new)
<1> SUFFICES ASSUME new # None, Readable(new)
             PROVE  FALSE
  OBVIOUS
<1>1. Entries(old) = <<>> /\ Readable(old)
  BY DefaultReading
<1>2. Entries(new) \in Seq(Entry)
  BY Texts
<1>3. IsPrefix(<<>>, Entries(new))
  BY <1>2 DEF IsPrefix
<1>4. QED
  BY <1>1, <1>3 DEF Appends

LEMMA UnreadHasNone ==
    ASSUME NEW x, x = None \/ ~Readable(x)
    PROVE  Entries(x) = <<>>
BY DEF Entries

\* Where the removal of an empty file reveals a ledger, nothing was in force.
LEMMA LedgerRevealed ==
    ASSUME NEW from \in Trees, NEW to \in Trees, Reveals(from, to, "allow")
    PROVE  Extends(Ledger(from), Ledger(to))
<1>1. Ledger(from) = Empty
  BY SelectedFiles, DefaultReading DEF Reveals, CA
<1>2. Entries(Ledger(to)) \in Seq(Entry)
  BY SelectedFiles
<1>3. IsPrefix(<<>>, Entries(Ledger(to)))
  BY <1>2 DEF IsPrefix
<1>4. QED
  BY <1>1, <1>3, DefaultReading DEF Extends

\* The ledger that comes into force grew from the old one by announced entries,
\* unless something else was renamed to it or an empty file was taken away.
LEMMA LedgerKept ==
    ASSUME NEW from \in Trees, NEW to \in Trees, NEW policy, Guards[policy.roles] = Files,
           NEW pairing, pairing \in Pairings(from, to),
           Supervised(GatePolicy(from)),
           Quiet(from, Changes(from, to, Expanded(policy, pairing))),
           ~Reveals(from, to, "allow"), ~Displaced(from, to)
    PROVE  Grown(Ledger(from), Ledger(to), Announced(from, Changes(from, to, Expanded(policy, pairing))))
<1> DEFINE changes == Changes(from, to, Expanded(policy, pairing))
<1> DEFINE keys == Announced(from, changes)
<1>0. CA \in Files /\ GA \in Files /\ CA # GA
  BY FourFiles
<1>1. /\ Ledger(from) = IF from[CA] # None THEN from[CA] ELSE from[GA]
      /\ Ledger(to) = IF to[CA] # None THEN to[CA] ELSE to[GA]
      /\ Ledger(from) \in Text \cup {None}
  BY SelectedFiles
<1>2. to[CA] \in Text \cup {None} /\ to[GA] \in Text \cup {None}
  BY FourFiles DEF Trees
<1>3. ~(from[CA] = Empty /\ to[CA] = None)
  BY DEF Reveals, CA
<1>4. \A c \in changes : /\ c.before = from[c.old] /\ c.after = to[c.path]
                         /\ c.old # c.path => /\ from[c.old] # None /\ to[c.old] = None
                                              /\ from[c.path] = None /\ to[c.path] # None
  BY ChangeFacts DEF changes
<1>5. ASSUME NEW c \in changes, c.path \in {CA, GA}
      PROVE  c.old \in {CA, GA}
  <2> SUFFICES ASSUME c.old \notin {CA, GA}
               PROVE  FALSE
    OBVIOUS
  <2>1. Own("allow") = {CA, GA}
    BY DEF Own, CA, GA, Dirs
  <2>2. /\ c.path \in Paths /\ c.old \in Paths /\ c.old # c.path
        /\ from[c.old] # None /\ to[c.old] = None
        /\ from[c.path] = None /\ to[c.path] # None
        /\ Alike(from[c.old], to[c.path])
    BY <1>5, ChangeFacts DEF changes
  <2>3. c.old \in (Paths \ Own("allow")) \cap Removed(from, to) /\ c.path \in Own("allow") \cap Added(from, to)
    BY <1>5, <2>1, <2>2 DEF Removed, Added
  <2>4. QED
    BY <2>2, <2>3 DEF Displaced, BecomesLedger
<1>6. \A c \in changes : c.path \in Files /\ IsAppend(from, c) => c.path \in {CA, GA}
  BY FourFiles DEF IsAppend
<1>7. \A c \in changes : c.path \in Files /\ c.path # CA => Predecessor(from, c) = c.before \/ c.path = CC
  BY FourFiles DEF Predecessor, Shadows
<1>8. Quiet(from, changes)
  BY DEF changes
<1> HIDE DEF changes, keys
<1> SUFFICES Grown(Ledger(from), Ledger(to), keys)
  BY DEF keys, changes
<1>9. CASE Ledger(from) = Ledger(to)
  BY <1>1, <1>9, GrownSame
<1>10. CASE from[CA] # None /\ from[CA] # to[CA]
  <2>1. PICK c \in changes : c.path \in Files /\ (c.path = CA \/ (c.path # CA /\ c.old = CA /\ to[CA] = None))
    BY <1>0, <1>10, Judged DEF changes
  <2>2. c.old = CA /\ c.before = from[CA]
    BY <1>4, <1>10, <2>1
  <2>3. CASE c.path = CA
    <3>1. ~Shadows(from, c) /\ Predecessor(from, c) = from[CA] /\ c.after = to[CA]
      BY <1>4, <1>10, <2>2, <2>3 DEF Shadows, Predecessor
    <3>2. CASE IsAppend(from, c)
      <4>1. to[CA] # None
        BY <3>1, <3>2 DEF IsAppend, Appends
      <4>2. Grown(from[CA], to[CA], keys)
        BY <2>1, <3>1, <3>2, GrownByAppend DEF keys
      <4>3. QED
        BY <1>1, <1>10, <4>1, <4>2
    <3>3. CASE ~IsAppend(from, c)
      <4>1. from[CA] = Empty /\ to[CA] # None
        BY <1>3, <1>8, <1>10, <2>1, <2>2, <2>3, <3>3, QuietLedger, FourFiles
      <4>2. ~Appends(from[CA], to[CA])
        BY <2>3, <3>1, <3>3, FourFiles DEF IsAppend
      <4>3. ~Readable(to[CA]) /\ Entries(to[CA]) = <<>>
        BY <1>2, <4>1, <4>2, NoAppend, UnreadHasNone
      <4>4. Ledger(from) = Empty /\ Ledger(to) = to[CA]
        BY <1>1, <1>10, <4>1
      <4>5. QED
        BY <4>3, <4>4, GrownFromNothing, DefaultReading
    <3>4. QED
      BY <3>2, <3>3
  <2>4. CASE c.path # CA
    <3>1. to[CA] = None /\ from[CA] # Empty
      BY <1>3, <2>1, <2>4
    <3>2. IsAppend(from, c)
      <4>1. c.before \notin {None, Empty}
        BY <1>10, <2>2, <3>1
      <4>2. GuardSeverity(from, c) = Critical
        BY <4>1 DEF GuardSeverity, Created
      <4>3. QED
        BY <1>8, <2>1, <4>2 DEF Quiet, Touches, IsGuardrail, Supervised, Warn, Critical
    <3>3. c.path = GA
      BY <1>6, <2>1, <2>4, <3>2
    <3>4. Predecessor(from, c) = from[CA] /\ c.after = to[GA]
      BY <1>0, <1>4, <1>7, <2>1, <2>2, <3>3, FourFiles
    <3>5. Grown(from[CA], to[GA], keys)
      BY <2>1, <3>2, <3>4, GrownByAppend DEF keys
    <3>6. QED
      BY <1>1, <1>10, <3>1, <3>5
  <2>5. QED
    BY <2>3, <2>4
<1>11. CASE from[CA] = None /\ to[CA] # None
  <2>1. PICK c \in changes : c.path = CA
    BY <1>0, <1>11, Judged DEF changes
  <2>2. c.after = to[CA] /\ c.before = from[c.old] /\ c.old \in {CA, GA}
    BY <1>4, <1>5, <2>1
  <2>3. c.old = CA => c.before = None
    BY <1>11, <2>2
  <2>4. c.old = GA => from[GA] # None /\ c.before = from[GA]
    BY <1>0, <1>4, <2>1, <2>2
  <2>5. Ledger(from) = from[GA] /\ Ledger(to) = to[CA]
    BY <1>1, <1>11
  <2>6. Shadows(from, c) <=> from[GA] # None /\ (c.before = None \/ (c.before = Empty /\ c.old # CA))
    BY <1>11, <2>1, <2>2, FourFiles DEF Shadows, GA
  <2>7. Shadows(from, c) => Predecessor(from, c) = from[GA]
    BY <2>1, FourFiles DEF Predecessor, GA
  <2>8. ~Shadows(from, c) => Predecessor(from, c) = c.before
    BY DEF Predecessor
  <2>9. from[GA] # None => Predecessor(from, c) = from[GA]
    BY <2>2, <2>3, <2>4, <2>6, <2>7, <2>8
  <2>10. from[GA] = None => Predecessor(from, c) = None /\ c.before = None
    BY <2>2, <2>3, <2>4, <2>6, <2>8
  <2>11. CASE IsAppend(from, c)
    <3>1. Grown(Predecessor(from, c), to[CA], keys)
      BY <1>0, <2>1, <2>2, <2>11, GrownByAppend DEF keys
    <3>2. QED
      BY <2>5, <2>9, <2>10, <3>1
  <2>12. CASE ~IsAppend(from, c)
    <3>1. c.before \in {None, Empty} /\ ~Shadows(from, c)
      BY <1>0, <1>8, <2>1, <2>12, QuietLedger, FourFiles
    <3>2. from[GA] = None
      BY <1>0, <2>2, <2>3, <2>4, <2>6, <3>1
    <3>3. ~Appends(None, to[CA])
      BY <2>1, <2>2, <2>10, <2>12, <3>2, FourFiles DEF IsAppend
    <3>4. ~Readable(to[CA]) /\ Entries(to[CA]) = <<>>
      BY <1>2, <1>11, <3>3, NoAppend, UnreadHasNone
    <3>5. QED
      BY <2>5, <3>2, <3>4, GrownFromNothing, DefaultReading
  <2>13. QED
    BY <2>11, <2>12
<1>12. CASE from[CA] = None /\ to[CA] = None /\ from[GA] # to[GA]
  <2>1. PICK c \in changes : c.path \in Files /\ (c.path = GA \/ (c.path # GA /\ c.old = GA /\ to[GA] = None))
    BY <1>0, <1>12, Judged DEF changes
  <2>2. c.before = from[c.old] /\ c.after = to[c.path]
    BY <1>4
  <2>3. Ledger(from) = from[GA] /\ Ledger(to) = to[GA]
    BY <1>1, <1>12
  <2>4. CASE c.path = GA
    <3>1. c.old = GA
      BY <1>4, <1>5, <1>12, <2>1, <2>4
    <3>2. Predecessor(from, c) = from[GA] /\ c.after = to[GA]
      BY <1>0, <1>7, <2>1, <2>2, <2>4, <3>1, FourFiles
    <3>3. CASE IsAppend(from, c)
      BY <2>1, <2>3, <3>2, <3>3, GrownByAppend DEF keys
    <3>4. CASE ~IsAppend(from, c)
      <4>1. from[GA] \in {None, Empty}
        BY <1>8, <2>1, <2>2, <2>4, <3>1, <3>4, QuietLedger, FourFiles
      <4>2. ~Appends(from[GA], to[GA])
        BY <2>4, <3>2, <3>4, FourFiles DEF IsAppend
      <4>3. Entries(to[GA]) = <<>>
        BY <1>2, <4>1, <4>2, NoAppend, UnreadHasNone
      <4>4. QED
        BY <2>3, <4>1, <4>3, GrownFromNothing, DefaultReading
    <3>5. QED
      BY <3>3, <3>4
  <2>5. CASE c.path # GA
    <3>1. c.before = from[GA] /\ to[GA] = None /\ from[c.path] = None /\ to[c.path] # None
      BY <1>4, <2>1, <2>5
    <3>2. CASE IsAppend(from, c)
      BY <1>6, <1>12, <2>1, <2>5, <3>1, <3>2
    <3>3. CASE ~IsAppend(from, c)
      <4>1. Created(c)
        BY <1>8, <2>1, <3>3 DEF Quiet, Touches, IsGuardrail, Supervised, GuardSeverity, Warn, Critical
      <4>2. from[GA] \in {None, Empty}
        BY <3>1, <4>1 DEF Created
      <4>3. QED
        BY <2>3, <3>1, <4>2, GrownFromNothing, DefaultReading
    <3>4. QED
      BY <3>2, <3>3
  <2>6. QED
    BY <2>4, <2>5
<1>13. QED
  BY <1>1, <1>9, <1>10, <1>11, <1>12

-----------------------------------------------------------------------------
(* Types.                                                                  *)

LEMMA KeysAreTyped ==
    ASSUME NEW x \in Text \cup {None}
    PROVE  KeysIn(Entries(x)) \subseteq Keys
<1>1. Entries(x) \in Seq(Entry)
  BY Texts
<1>2. \A i \in DOMAIN Entries(x) : Entries(x)[i] \in Entry
  BY <1>1
<1>3. QED
  BY <1>2 DEF KeysIn, Entry

LEMMA AnnouncedIsTyped ==
    ASSUME NEW from \in Trees, NEW to \in Trees, NEW policy,
           NEW pairing, pairing \in Pairings(from, to)
    PROVE  Announced(from, Changes(from, to, Expanded(policy, pairing))) \subseteq Keys
<1> DEFINE changes == Changes(from, to, Expanded(policy, pairing))
<1>1. ASSUME NEW c \in changes
      PROVE  Appended(from, c) \subseteq Keys
  <2>1. c.after \in Text \cup {None}
    BY ChangeFacts DEF Trees
  <2>2. KeysIn(Entries(c.after)) \subseteq Keys
    BY <2>1, KeysAreTyped
  <2>3. Appended(from, c) \subseteq KeysIn(Entries(c.after))
    BY DEF Appended, KeysIn
  <2>4. QED
    BY <2>2, <2>3
<1>2. QED
  BY <1>1 DEF Announced

LEMMA ResolvedIsAFile == \A side : Resolved(side) \in {CA, GA}
BY DEF Resolved, CA, GA, File, Dirs

\* Wherever `allow` writes, `check` will read: the path is the ledger's, or
\* becomes it.
LEMMA AllowWritesTheLedger ==
    ASSUME NEW side \in Trees, NEW x \in Text
    PROVE  /\ Ledger(side) = side[Resolved(side)]
           /\ Ledger([side EXCEPT ![Resolved(side)] = x]) = x
<1> DEFINE there == {d \in Dirs : side[File(d, "allow")] # None}
<1> DEFINE after == [side EXCEPT ![Resolved(side)] = x]
<1>1. after \in Trees /\ \A p \in Paths : after[p] = IF p = Resolved(side) THEN x ELSE side[p]
  BY ResolvedIsAFile, FourFiles DEF Trees
<1>2. /\ Ledger(side) = IF side[CA] # None THEN side[CA] ELSE side[GA]
      /\ Ledger(after) = IF after[CA] # None THEN after[CA] ELSE after[GA]
  BY <1>1, SelectedFiles
<1>3. CA \in Paths /\ GA \in Paths /\ CA # GA /\ x # None
  BY FourFiles, Texts
<1> HIDE DEF after
<1>4. after[CA] = (IF CA = Resolved(side) THEN x ELSE side[CA]) /\ after[GA] = (IF GA = Resolved(side) THEN x ELSE side[GA])
  BY <1>1, <1>3
<1>5. CASE side[CA] # None
  <2>1. Resolved(side) = CA
    BY <1>5 DEF Resolved, CA, Dirs
  <2>2. QED
    BY <1>2, <1>3, <1>4, <1>5, <2>1 DEF after
<1>6. CASE side[CA] = None /\ side[GA] # None
  <2>1. there = {"greenwash"}
    BY <1>6 DEF CA, GA, Dirs
  <2>2. Resolved(side) = GA
    BY <2>1 DEF Resolved, GA
  <2>3. QED
    BY <1>2, <1>3, <1>4, <1>6, <2>2 DEF after
<1>7. CASE side[CA] = None /\ side[GA] = None
  BY <1>2, <1>3, <1>4, <1>7, ResolvedIsAFile DEF after
<1>8. QED
  BY <1>5, <1>6, <1>7

\* The dates `allow` writes.
Timely(e, today) == e.expires - e.created <= Cap /\ e.created <= today + Ahead

\* What one call of `allow` does to the file it opens.
Recorded(x, y, e) ==
    \/ /\ y.entries = Append(x.entries, e) /\ y.parses = x.parses
       /\ said' = said \cup {e}
    \/ /\ y.entries = x.entries /\ (y.parses => x.parses)
       /\ said' = said

LEMMA OpenedIsText ==
    ASSUME NEW x \in Text \cup {None}
    PROVE  /\ Opened(x) \in Text /\ Entries(x) = IF Readable(x) THEN Opened(x).entries ELSE <<>>
           /\ Readable(x) <=> Opened(x).parses
BY Texts DEF Opened, Entries, Readable, Empty

LEMMA AllowStep ==
    ASSUME TypeOK, NEW k \in Keys, Allow(k)
    PROVE  \E e \in Entry, y \in Text :
              /\ work' = [work EXCEPT ![Resolved(work)] = y]
              /\ Recorded(Opened(work[Resolved(work)]), y, e)
              /\ Timely(e, day)
<1> DEFINE path == Resolved(work)
<1> DEFINE x == Opened(work[path])
<1>1. path \in Paths /\ day \in Nat /\ Cap \in Nat /\ Ahead \in Nat
  BY ResolvedIsAFile, FourFiles, PolicyAssumption DEF TypeOK
<1>2. work[path] \in Text \cup {None}
  BY <1>1 DEF TypeOK, Trees
<1>3. x \in Text
  BY <1>2, OpenedIsText
<1> HIDE DEF x, path
<1>4. PICK today \in day..(day + Ahead), term \in 0..Cap :
         LET entry == [key |-> k, created |-> today, expires |-> today + term]
         IN  \/ /\ work' = [work EXCEPT ![path] = [x EXCEPT !.bytes = TRUE, !.entries = Append(@, entry)]]
                /\ said' = said \cup {entry}
             \/ /\ \/ work' = [work EXCEPT ![path] = x]
                   \/ work' = [work EXCEPT ![path] = [x EXCEPT !.bytes = TRUE]]
                   \/ work' = [work EXCEPT ![path] = [x EXCEPT !.bytes = TRUE, !.parses = FALSE]]
                /\ said' = said
  BY DEF Allow, x, path
<1> DEFINE e == [key |-> k, created |-> today, expires |-> today + term]
<1>5. today \in Int /\ term \in Int /\ today <= day + Ahead /\ term <= Cap
  BY <1>1, <1>4
<1>6. e \in Entry
  BY <1>5 DEF Entry
<1>7. Timely(e, day)
  BY <1>1, <1>5 DEF Timely
<1>8. x.entries \in Seq(Entry) /\ x.parses \in BOOLEAN /\ x.bytes \in BOOLEAN
      /\ x.policy \in Policy /\ x.odd \in BOOLEAN
      /\ x = [bytes |-> x.bytes, parses |-> x.parses, policy |-> x.policy, odd |-> x.odd, entries |-> x.entries]
  BY <1>3 DEF Text
<1>9. Append(x.entries, e) \in Seq(Entry)
  BY <1>6, <1>8
<1> DEFINE whole == [x EXCEPT !.bytes = TRUE, !.entries = Append(@, e)]
<1> DEFINE cut   == [x EXCEPT !.bytes = TRUE]
<1> DEFINE torn  == [x EXCEPT !.bytes = TRUE, !.parses = FALSE]
<1>10. whole \in Text /\ whole.entries = Append(x.entries, e) /\ whole.parses = x.parses
  BY <1>3, <1>9 DEF Text
<1>11. cut \in Text /\ cut.entries = x.entries /\ cut.parses = x.parses
  BY <1>3 DEF Text
<1>12. torn \in Text /\ torn.entries = x.entries /\ torn.parses = FALSE
  BY <1>3 DEF Text
<1>13. \/ work' = [work EXCEPT ![path] = whole] /\ said' = said \cup {e}
       \/ /\ \E y \in {x, cut, torn} : work' = [work EXCEPT ![path] = y]
          /\ said' = said
  BY <1>4
<1> HIDE DEF e, whole, cut, torn
<1>14. CASE work' = [work EXCEPT ![path] = whole] /\ said' = said \cup {e}
  <2>1. Recorded(x, whole, e)
    BY <1>10, <1>14 DEF Recorded
  <2>2. QED
    BY <1>6, <1>7, <1>10, <1>14, <2>1 DEF x, path
<1>15. CASE said' = said /\ \E y \in {x, cut, torn} : work' = [work EXCEPT ![path] = y]
  <2>1. PICK y \in {x, cut, torn} : work' = [work EXCEPT ![path] = y]
    BY <1>15
  <2>2. y \in Text /\ y.entries = x.entries /\ (y.parses => x.parses)
    BY <1>3, <1>11, <1>12
  <2>3. Recorded(x, y, e)
    BY <1>15, <2>2 DEF Recorded
  <2>4. QED
    BY <1>6, <1>7, <2>1, <2>2, <2>3 DEF x, path
<1>16. QED
  BY <1>13, <1>14, <1>15

LEMMA InitTypes == Init => TypeOK
<1> SUFFICES ASSUME Init
             PROVE  TypeOK
  OBVIOUS
<1>1. base \in Trees /\ work \in Trees
  BY PolicyAssumption DEF Init
<1>2. GatePolicy(base) \in Policy /\ KeysIn(Entries(Ledger(base))) \subseteq Keys
  BY <1>1, SelectedFiles, KeysAreTyped
<1>3. first \in [policy : Policy, keys : SUBSET Keys]
  BY <1>2 DEF Init
<1>4. slipped \in [policies : SUBSET Policy, keys : SUBSET Keys]
  BY DEF Init
<1>5. QED
  BY <1>1, <1>3, <1>4 DEF Init, TypeOK

LEMMA StepTypes == TypeOK /\ [Next]_vars => TypeOK'
<1> SUFFICES ASSUME TypeOK, [Next]_vars
             PROVE  TypeOK'
  OBVIOUS
<1>1. CASE Tick
  BY <1>1 DEF Tick, TypeOK, ghosts
<1>2. CASE Abandon
  BY <1>2 DEF Abandon, TypeOK, ghosts
<1>3. CASE Merge
  <2>1. PICK pairing \in Pairings(base, work), weak \in SUBSET Keys :
           LET changes == Changes(base, work, Expanded(PolicySide(base, work), pairing))
           IN  /\ announced' = IF Guard \in GatePolicy(base).disabled THEN announced
                               ELSE announced \cup Announced(base, changes)
               /\ passed' = passed \cup weak
    BY <1>3 DEF Merge
  <2>2. base \in Trees /\ work \in Trees
    BY DEF TypeOK
  <2>3. Announced(base, Changes(base, work, Expanded(PolicySide(base, work), pairing))) \subseteq Keys
    BY <2>2, AnnouncedIsTyped
  <2>4. announced' \in SUBSET Keys /\ passed' \in SUBSET Keys
    BY <2>1, <2>3 DEF TypeOK
  <2>5. promised' \in SUBSET Entry
    BY <1>3 DEF Merge, TypeOK
  <2>6. slipped' \in [policies : SUBSET Policy, keys : SUBSET Keys]
    <3>1. GatePolicy(work) \in Policy /\ KeysIn(Entries(Ledger(work))) \subseteq Keys
      BY <2>2, SelectedFiles, KeysAreTyped
    <3>2. slipped.policies \subseteq Policy /\ slipped.keys \subseteq Keys
      BY DEF TypeOK
    <3>3. QED
      BY <1>3, <3>1, <3>2 DEF Merge
  <2>7. QED
    BY <1>3, <2>4, <2>5, <2>6 DEF Merge, TypeOK
<1>4. CASE \E p \in Paths : \E x \in Written[p] : Edit(p, x)
  <2>1. PICK p \in Paths : \E x \in Written[p] : Edit(p, x)
    BY <1>4
  <2>2. PICK x \in Written[p] : Edit(p, x)
    BY <2>1
  <2>3. x \in Text \cup {None}
    BY <2>2, PolicyAssumption
  <2>4. work' \in Trees
    BY <2>2, <2>3 DEF Edit, TypeOK, Trees
  <2>5. QED
    BY <2>2, <2>4 DEF Edit, TypeOK, ghosts
<1>5. CASE \E k \in Keys : Allow(k)
  <2>1. PICK k \in Keys : Allow(k)
    BY <1>5
  <2>2. PICK e \in Entry, y \in Text :
           /\ work' = [work EXCEPT ![Resolved(work)] = y]
           /\ Recorded(Opened(work[Resolved(work)]), y, e)
    BY <2>1, AllowStep
  <2>3. work' \in Trees
    BY <2>2 DEF TypeOK, Trees
  <2>4. said' \in SUBSET Entry
    BY <2>2 DEF Recorded, TypeOK
  <2>5. allows' \in Nat
    BY <2>1 DEF Allow, TypeOK
  <2>6. QED
    BY <2>1, <2>3, <2>4, <2>5 DEF Allow, TypeOK, ghosts
<1>6. CASE UNCHANGED vars
  BY <1>6 DEF vars, ghosts, TypeOK
<1>7. QED
  BY <1>1, <1>2, <1>3, <1>4, <1>5, <1>6 DEF Next

\* Every state keeps its types: four files and one more, each absent or a text.
THEOREM TypeCorrect == Spec => []TypeOK
<1>1. QED
  BY InitTypes, StepTypes, PTL DEF Spec

-----------------------------------------------------------------------------
(* The inductive invariant.                                                *)

HasEntry(x, e) == \E i \in DOMAIN Entries(x) : Entries(x)[i] = e

\* The policy in force is no weaker than the first one, or than one that came
\* past the review.
PolicyKept == Watched => \E p \in Sources : ~Weaker(GatePolicy(base), p)

\* Every exempted key was there at first, was announced, or came with a ledger
\* that slipped in.
Known == first.keys \cup announced \cup slipped.keys
KeysKept == Watched => KeysIn(Entries(Ledger(base))) \subseteq Known

\* What `allow` recorded on the branch is in the branch's ledger.
SaidIsHeld ==
    /\ \A e \in said : Timely(e, day)
    /\ Readable(Ledger(work)) => \A e \in said : HasEntry(Ledger(work), e)

\* What was merged of it is in the ledger of the base.
PromisesAreHeld ==
    /\ \A e \in promised : Timely(e, day)
    /\ Watched /\ Readable(Ledger(base)) => \A e \in promised : HasEntry(Ledger(base), e)

Inv ==
    /\ TypeOK
    /\ PolicyKept
    /\ KeysKept
    /\ WeakeningsAreAccountedFor
    /\ SaidIsHeld
    /\ PromisesAreHeld

\* A merge under a policy that keeps its own files under review.
LEMMA SupervisedMerge ==
    ASSUME TypeOK, Merge, Supervised(GatePolicy(base))
    PROVE  /\ Weaker(GatePolicy(work), GatePolicy(base)) => PolicySlips(base, work)
           /\ Extends(Ledger(base), Ledger(work)) \/ Displaced(base, work)
           /\ Told(Ledger(base), Ledger(work), announced') \/ LedgerSlips(base, work)
<1>1. PICK pairing \in Pairings(base, work), weak \in SUBSET Keys :
         LET changes == Changes(base, work, Expanded(PolicySide(base, work), pairing))
         IN  /\ ~Blocks(base, work, changes, weak, day)
             /\ announced' = IF Guard \in GatePolicy(base).disabled THEN announced
                             ELSE announced \cup Announced(base, changes)
  BY DEF Merge
<1> DEFINE policy == PolicySide(base, work)
<1> DEFINE changes == Changes(base, work, Expanded(policy, pairing))
<1>2. base \in Trees /\ work \in Trees /\ GatePolicy(base) \in Policy
  BY SelectedFiles DEF TypeOK
<1>3. Guard \notin GatePolicy(base).disabled /\ Guards[policy.roles] = Files
  BY DEF Supervised, PolicySide
<1>4. ~Blocks(base, work, changes, weak, day) /\ announced' = announced \cup Announced(base, changes)
  BY <1>1, <1>3
<1> HIDE DEF policy
<1>5. Quiet(base, changes)
  BY <1>2, <1>3, <1>4, UnblockedIsQuiet
<1>6. Weaker(GatePolicy(work), GatePolicy(base)) => PolicySlips(base, work)
  BY <1>2, <1>3, <1>5, ConfigKept
<1>7. CASE Displaced(base, work)
  BY <1>6, <1>7 DEF LedgerSlips
<1>8. CASE Reveals(base, work, "allow")
  BY <1>2, <1>6, <1>8, LedgerRevealed DEF LedgerSlips
<1>9. CASE ~Displaced(base, work) /\ ~Reveals(base, work, "allow")
  <2>1. Grown(Ledger(base), Ledger(work), Announced(base, changes))
    BY <1>2, <1>3, <1>5, <1>9, LedgerKept
  <2>2. QED
    BY <1>4, <1>6, <2>1 DEF Grown, Told
<1>10. QED
  BY <1>7, <1>8, <1>9

\* What the ghosts keep of a merge.
LEMMA GhostsGrow ==
    ASSUME TypeOK, Merge
    PROVE  /\ Sources \subseteq Sources' /\ Known \subseteq Known'
           /\ announced \subseteq announced' /\ first' = first
           /\ PolicySlips(base, work) => GatePolicy(work) \in Sources'
           /\ LedgerSlips(base, work) => KeysIn(Entries(Ledger(work))) \subseteq Known'
           /\ Watched' => Watched
<1>1. announced \subseteq announced' /\ first' = first
  BY DEF Merge
<1>2. slipped' =
         [policies |-> slipped.policies \cup
                         IF PolicySlips(base, work) THEN {GatePolicy(work)} ELSE {},
          keys     |-> slipped.keys \cup
                         IF LedgerSlips(base, work) THEN KeysIn(Entries(Ledger(work))) ELSE {}]
  BY DEF Merge
<1>3. /\ Sources \subseteq Sources'
      /\ PolicySlips(base, work) => GatePolicy(work) \in Sources'
  BY <1>1, <1>2 DEF Sources
<1>4. /\ Known \subseteq Known'
      /\ LedgerSlips(base, work) => KeysIn(Entries(Ledger(work))) \subseteq Known'
  BY <1>1, <1>2 DEF Known
<1>5. Watched' => Watched
  BY <1>3 DEF Watched
<1>6. QED
  BY <1>1, <1>3, <1>4, <1>5

\* While every policy that mattered kept its files under review, so does the one
\* in force.
LEMMA WatchedIsSupervised ==
    ASSUME TypeOK, PolicyKept, Watched
    PROVE  Supervised(GatePolicy(base))
<1>1. PICK p \in Sources : ~Weaker(GatePolicy(base), p)
  BY DEF PolicyKept
<1>2. p \in Policy /\ GatePolicy(base) \in Policy
  BY SelectedFiles DEF TypeOK, Sources
<1>3. Supervised(p)
  BY DEF Watched
<1>4. QED
  BY <1>1, <1>2, <1>3, SupervisionIsKept

LEMMA PrefixPointwise ==
    ASSUME NEW S, NEW s \in Seq(S), NEW t \in Seq(S), IsPrefix(s, t)
    PROVE  Len(s) <= Len(t) /\ \A i \in DOMAIN s : i \in DOMAIN t /\ t[i] = s[i]
<1>1. Len(s) \in Nat /\ Len(t) \in Nat /\ DOMAIN s = 1..Len(s) /\ DOMAIN t = 1..Len(t)
  OBVIOUS
<1>2. Len(s) <= Len(t) /\ SubSeq(s, 1, Len(s)) = SubSeq(t, 1, Len(s))
  BY DEF IsPrefix
<1>3. ASSUME NEW i \in 1..Len(s)
      PROVE  t[i] = s[i]
  <2>1. SubSeq(s, 1, Len(s))[i] = s[i] /\ SubSeq(t, 1, Len(s))[i] = t[i]
    BY <1>1, <1>2
  <2>2. QED
    BY <1>2, <2>1
<1>4. QED
  BY <1>1, <1>2, <1>3

LEMMA ExtendsKeeps ==
    ASSUME NEW old \in Text \cup {None}, NEW new \in Text \cup {None}, Extends(old, new)
    PROVE  \A e : HasEntry(old, e) => HasEntry(new, e)
<1>1. Entries(old) \in Seq(Entry) /\ Entries(new) \in Seq(Entry)
  BY Texts
<1>2. \A i \in DOMAIN Entries(old) : i \in DOMAIN Entries(new) /\ Entries(new)[i] = Entries(old)[i]
  BY <1>1, PrefixPointwise DEF Extends
<1>3. QED
  BY <1>2 DEF HasEntry

LEMMA ToldKeeps ==
    ASSUME NEW old \in Text \cup {None}, NEW new \in Text \cup {None}, NEW keys,
           Extends(old, new), Told(old, new, keys)
    PROVE  KeysIn(Entries(new)) \subseteq KeysIn(Entries(old)) \cup keys
<1>1. Entries(old) \in Seq(Entry) /\ Entries(new) \in Seq(Entry)
  BY Texts
<1>2. \A i \in DOMAIN Entries(old) : i \in DOMAIN Entries(new) /\ Entries(new)[i] = Entries(old)[i]
  BY <1>1, PrefixPointwise DEF Extends
<1>3. ASSUME NEW i \in DOMAIN Entries(new)
      PROVE  Entries(new)[i].key \in KeysIn(Entries(old)) \cup keys
  <2>1. CASE i > Len(Entries(old))
    BY <2>1 DEF Told
  <2>2. CASE ~(i > Len(Entries(old)))
    <3>1. i \in DOMAIN Entries(old)
      BY <1>1, <2>2
    <3>2. QED
      BY <1>2, <3>1 DEF KeysIn
  <2>3. QED
    BY <2>1, <2>2
<1>4. QED
  BY <1>3 DEF KeysIn

LEMMA AppendHas ==
    ASSUME NEW x \in Text, NEW y \in Text, NEW e \in Entry,
           y.entries = Append(x.entries, e), x.parses, y.parses
    PROVE  HasEntry(y, e) /\ \A f : HasEntry(x, f) => HasEntry(y, f)
<1>1. x.entries \in Seq(Entry)
  BY DEF Text
<1>2. Entries(x) = x.entries /\ Entries(y) = Append(x.entries, e)
  BY Texts DEF Entries, Readable
<1>3. Len(x.entries) + 1 \in DOMAIN Append(x.entries, e) /\ Append(x.entries, e)[Len(x.entries) + 1] = e
  BY <1>1
<1>4. \A i \in DOMAIN x.entries : i \in DOMAIN Append(x.entries, e) /\ Append(x.entries, e)[i] = x.entries[i]
  BY <1>1
<1>5. QED
  BY <1>2, <1>3, <1>4 DEF HasEntry

\* A later day leaves what was timely timely.
LEMMA StaysTimely ==
    ASSUME NEW e \in Entry, NEW d \in Nat, NEW f \in Nat, f >= d, Timely(e, d)
    PROVE  Timely(e, f)
<1>1. e.created \in Int /\ e.expires \in Int /\ Ahead \in Nat /\ Cap \in Nat
  BY PolicyAssumption DEF Entry
<1>2. e.created <= d + Ahead
  BY DEF Timely
<1>3. e.created <= f + Ahead
  BY <1>1, <1>2
<1>4. QED
  BY <1>3 DEF Timely

\* Timely entries are honoured up to their date, the clock's lead allowed for.
LEMMA TimelyIsHonoured ==
    ASSUME NEW e \in Entry, NEW d \in Nat, Timely(e, d),
           e.expires - e.created + Ahead <= Cap, d <= e.expires
    PROVE  Honoured(e, d)
<1>1. e.created \in Int /\ e.expires \in Int /\ Ahead \in Nat /\ Cap \in Nat
  BY PolicyAssumption DEF Entry
<1>2. e.created <= d + Ahead
  BY DEF Timely
<1>3. e.expires - Anchor(e, d) <= Cap
  <2>1. CASE e.created < d
    BY <1>1, <2>1 DEF Anchor, Earlier
  <2>2. CASE ~(e.created < d)
    BY <1>1, <1>2, <2>2 DEF Anchor, Earlier
  <2>3. QED
    BY <2>1, <2>2
<1>4. QED
  BY <1>3 DEF Honoured

\* No dates buy more than the cap: whatever an entry says of its creation, it
\* is honoured on no day earlier than its date less MAX_EXPIRY_DAYS, and on
\* none after it.  (allowlist.py: "The cap is anchored at `min(created, today)`".)
THEOREM CapBindsEveryEntry ==
    ASSUME NEW e \in Entry, NEW d \in Nat, Honoured(e, d)
    PROVE  d <= e.expires /\ e.expires - Cap <= d
<1>1. e.created \in Int /\ e.expires \in Int /\ Cap \in Nat
  BY PolicyAssumption DEF Entry
<1>2. Anchor(e, d) \in Int /\ Anchor(e, d) <= d
  BY <1>1 DEF Anchor, Earlier
<1>3. e.expires - Anchor(e, d) <= Cap /\ d <= e.expires
  BY DEF Honoured
<1>4. QED
  BY <1>1, <1>2, <1>3

LEMMA InitInv == Init => Inv
<1> SUFFICES ASSUME Init
             PROVE  Inv
  OBVIOUS
<1>1. TypeOK
  BY InitTypes
<1>2. base \in Trees
  BY <1>1 DEF TypeOK
<1>3. PolicyKept
  BY <1>2, SelectedFiles, NothingRelaxes DEF Init, PolicyKept, Sources
<1>4. KeysKept
  BY DEF Init, KeysKept, Known
<1>5. WeakeningsAreAccountedFor
  BY DEF Init, WeakeningsAreAccountedFor
<1>6. SaidIsHeld /\ PromisesAreHeld
  BY DEF Init, SaidIsHeld, PromisesAreHeld
<1>7. QED
  BY <1>1, <1>3, <1>4, <1>5, <1>6 DEF Inv

\* The steps of a branch leave what is kept of the base alone.
LEMMA BaseUnchanged ==
    ASSUME Inv, UNCHANGED <<base, first, announced, passed, slipped>>
    PROVE  /\ PolicyKept' /\ KeysKept' /\ WeakeningsAreAccountedFor'
           /\ Watched' <=> Watched
<1>1. Sources' = Sources /\ Known' = Known
  BY DEF Sources, Known
<1>2. Watched' <=> Watched
  BY <1>1 DEF Watched
<1>3. PolicyKept'
  BY <1>1, <1>2 DEF Inv, PolicyKept, GatePolicy, Selected, Winner
<1>4. KeysKept'
  BY <1>1, <1>2 DEF Inv, KeysKept, Ledger, Selected, Winner
<1>5. WeakeningsAreAccountedFor'
  BY <1>1 DEF Inv, WeakeningsAreAccountedFor
<1>6. QED
  BY <1>2, <1>3, <1>4, <1>5

LEMMA PromisesUnchanged ==
    ASSUME Inv, UNCHANGED <<base, first, announced, passed, slipped, promised>>,
           day' \in Nat, day' >= day
    PROVE  PromisesAreHeld'
<1>1. \A e \in promised : Timely(e, day')
  BY StaysTimely DEF Inv, PromisesAreHeld, TypeOK
<1>2. Watched' <=> Watched
  BY BaseUnchanged
<1>3. Ledger(base)' = Ledger(base)
  BY DEF Ledger, Selected, Winner
<1>4. QED
  BY <1>1, <1>2, <1>3 DEF Inv, PromisesAreHeld

\* The state a merge starts from, as the merge's lemmas need it.
LEMMA WatchedMerge ==
    ASSUME Inv, Merge, Watched'
    PROVE  /\ Supervised(GatePolicy(base))
           /\ base \in Trees /\ work \in Trees
           /\ Ledger(base) \in Text \cup {None} /\ Ledger(work) \in Text \cup {None}
<1>1. Watched /\ TypeOK /\ PolicyKept
  BY GhostsGrow DEF Inv
<1>2. base \in Trees /\ work \in Trees
  BY <1>1 DEF TypeOK
<1>3. QED
  BY <1>1, <1>2, WatchedIsSupervised, SelectedFiles

LEMMA MergeKeepsPolicy == Inv /\ Merge => PolicyKept'
<1> SUFFICES ASSUME Inv, Merge, Watched'
             PROVE  \E p \in Sources' : ~Weaker(GatePolicy(work), p)
  BY DEF PolicyKept, Merge, GatePolicy, Selected, Winner
<1>1. TypeOK /\ PolicyKept /\ Watched /\ Sources \subseteq Sources'
  BY GhostsGrow DEF Inv
<1>2. GatePolicy(base) \in Policy /\ GatePolicy(work) \in Policy /\ Sources \subseteq Policy
  BY <1>1, SelectedFiles DEF TypeOK, Sources
<1>3. CASE Weaker(GatePolicy(work), GatePolicy(base))
  <2>1. PolicySlips(base, work)
    BY <1>1, <1>3, WatchedMerge, SupervisedMerge
  <2>2. GatePolicy(work) \in Sources'
    BY <1>1, <2>1, GhostsGrow
  <2>3. QED
    BY <1>2, <2>2, NothingRelaxes
<1>4. CASE ~Weaker(GatePolicy(work), GatePolicy(base))
  <2>1. PICK p \in Sources : ~Weaker(GatePolicy(base), p)
    BY <1>1 DEF PolicyKept
  <2>2. ~Weaker(GatePolicy(work), p)
    BY <1>2, <1>4, <2>1, WeakerComposes
  <2>3. QED
    BY <1>1, <2>1, <2>2
<1>5. QED
  BY <1>3, <1>4

LEMMA MergeKeepsKeys == Inv /\ Merge => KeysKept'
<1> SUFFICES ASSUME Inv, Merge, Watched'
             PROVE  KeysIn(Entries(Ledger(work))) \subseteq Known'
  BY DEF KeysKept, Merge, Ledger, Selected, Winner
<1>1. TypeOK /\ KeysKept /\ Watched /\ Known \subseteq Known'
  BY GhostsGrow DEF Inv
<1>2. CASE LedgerSlips(base, work)
  BY <1>1, <1>2, GhostsGrow
<1>3. CASE ~LedgerSlips(base, work)
  <2>1. Extends(Ledger(base), Ledger(work)) /\ Told(Ledger(base), Ledger(work), announced')
    BY <1>1, <1>3, WatchedMerge, SupervisedMerge DEF LedgerSlips
  <2>2. KeysIn(Entries(Ledger(work))) \subseteq KeysIn(Entries(Ledger(base))) \cup announced'
    BY <2>1, WatchedMerge, ToldKeeps
  <2>3. announced' \subseteq Known'
    BY DEF Known
  <2>4. QED
    BY <1>1, <2>2, <2>3 DEF KeysKept
<1>4. QED
  BY <1>2, <1>3

LEMMA MergeKeepsAccounts == Inv /\ Merge => WeakeningsAreAccountedFor'
<1> SUFFICES ASSUME Inv, Merge, NEW k \in passed'
             PROVE  k \in Known' \/ \E p \in Sources' : Lets(p, k) \/ ~Supervised(p)
  BY DEF WeakeningsAreAccountedFor, Known
<1>1. /\ TypeOK /\ Sources \subseteq Sources' /\ Known \subseteq Known'
      /\ Watched' => Watched
  BY GhostsGrow DEF Inv
<1>2. CASE ~Watched'
  BY <1>2 DEF Watched
<1>3. CASE k \in passed
  BY <1>1, <1>3 DEF Inv, WeakeningsAreAccountedFor, Known
<1>4. CASE Watched' /\ k \notin passed
  <2>1. PICK pairing \in Pairings(base, work), weak \in SUBSET Keys :
           /\ ~Blocks(base, work, Changes(base, work, Expanded(PolicySide(base, work), pairing)), weak, day)
           /\ passed' = passed \cup weak
    BY DEF Merge
  <2>2. k \in weak
    BY <1>4, <2>1
  <2>3. PICK p \in Sources : ~Weaker(GatePolicy(base), p)
    BY <1>1, <1>4 DEF Inv, PolicyKept
  <2>4. ~Relaxes(GatePolicy(base), p) /\ Judges[p.roles] \subseteq Judges[GatePolicy(base).roles]
    BY <2>3 DEF Weaker
  <2>5. CASE RuleOf[k] \in GatePolicy(base).disabled
    <3>1. RuleOf[k] \in p.disabled
      BY <2>4, <2>5 DEF Relaxes
    <3>2. QED
      BY <1>1, <3>1 DEF Lets
  <2>6. CASE k \notin Judges[GatePolicy(base).roles]
    BY <1>1, <2>4, <2>6 DEF Lets
  <2>7. CASE k \in Active(base, day)
    <3>1. k \in KeysIn(Entries(Ledger(base)))
      BY <2>7 DEF Active, KeysIn
    <3>2. QED
      BY <1>1, <1>4, <3>1 DEF Inv, KeysKept
  <2>8. CASE ~(High >= GatePolicy(base).failOn)
    <3>1. GatePolicy(base).failOn \in Int /\ p.failOn \in Int
      BY <1>1, SelectedFiles DEF TypeOK, Sources, Policy, Severities, Critical
    <3>2. ~(GatePolicy(base).failOn > p.failOn)
      BY <2>4 DEF Relaxes
    <3>3. High < p.failOn
      BY <2>8, <3>1, <3>2 DEF High
    <3>4. QED
      BY <1>1, <3>3 DEF Lets
  <2>9. QED
    BY <2>1, <2>2, <2>5, <2>6, <2>7, <2>8 DEF Blocks, PolicySide
<1>5. QED
  BY <1>2, <1>3, <1>4

LEMMA MergeKeepsPromises == Inv /\ Merge => PromisesAreHeld'
<1> SUFFICES ASSUME Inv, Merge
             PROVE  PromisesAreHeld'
  OBVIOUS
<1>1. base' = work /\ day' = day /\ promised' = IF Displaced(base, work) THEN {} ELSE promised \cup said
  BY DEF Merge
<1>2. \A e \in promised' : Timely(e, day')
  BY <1>1 DEF Inv, SaidIsHeld, PromisesAreHeld
<1>3. Ledger(base)' = Ledger(work)
  BY <1>1 DEF Ledger, Selected, Winner
<1>4. ASSUME Watched', Readable(Ledger(work)), NEW e \in promised'
      PROVE  HasEntry(Ledger(work), e)
  <2>0. ~Displaced(base, work) /\ e \in promised \cup said
    BY <1>1, <1>4
  <2>1. CASE e \in said
    BY <1>4, <2>1 DEF Inv, SaidIsHeld
  <2>2. CASE e \in promised
    <3>1. Watched /\ TypeOK
      BY <1>4, GhostsGrow DEF Inv
    <3>2. Extends(Ledger(base), Ledger(work))
      BY <1>4, <2>0, <3>1, WatchedMerge, SupervisedMerge
    <3>3. HasEntry(Ledger(base), e)
      BY <1>4, <2>2, <3>1, <3>2 DEF Inv, PromisesAreHeld, Extends
    <3>4. QED
      BY <1>4, <3>2, <3>3, WatchedMerge, ExtendsKeeps
  <2>3. QED
    BY <2>0, <2>1, <2>2
<1>5. QED
  BY <1>2, <1>3, <1>4 DEF PromisesAreHeld

LEMMA AllowKeepsSaid ==
    ASSUME Inv, NEW k \in Keys, Allow(k)
    PROVE  SaidIsHeld'
<1> DEFINE x == Opened(work[Resolved(work)])
<1>1. PICK e \in Entry, y \in Text :
         /\ work' = [work EXCEPT ![Resolved(work)] = y]
         /\ Recorded(x, y, e)
         /\ Timely(e, day)
  BY AllowStep DEF Inv
<1>2. day' = day
  BY DEF Allow
<1>3. work \in Trees /\ work[Resolved(work)] \in Text \cup {None}
  BY ResolvedIsAFile, FourFiles DEF Inv, TypeOK, Trees
<1>4. Ledger(work) = work[Resolved(work)] /\ Ledger(work') = y
  BY <1>1, <1>3, AllowWritesTheLedger
<1>5. /\ x \in Text
      /\ Readable(Ledger(work)) <=> x.parses
      /\ x.parses => Entries(Ledger(work)) = x.entries /\ Entries(x) = x.entries
  BY <1>3, <1>4, OpenedIsText, Texts DEF Entries, Readable
<1> HIDE DEF x
<1>6. \A f \in said' : Timely(f, day)
  BY <1>1 DEF Recorded, Inv, SaidIsHeld
<1>7. ASSUME Readable(y), NEW f \in said'
      PROVE  HasEntry(y, f)
  <2>1. y.parses
    BY <1>7, Texts DEF Readable
  <2>2. x.parses /\ Readable(Ledger(work))
    BY <1>1, <1>5, <2>1 DEF Recorded
  <2>3. \A g \in said : HasEntry(x, g)
    BY <1>5, <2>2 DEF Inv, SaidIsHeld, HasEntry
  <2>4. CASE y.entries = Append(x.entries, e) /\ said' = said \cup {e}
    BY <1>5, <1>7, <2>1, <2>2, <2>3, <2>4, AppendHas
  <2>5. CASE y.entries = x.entries /\ said' = said
    <3>1. Entries(y) = y.entries
      BY <1>7, Texts DEF Entries
    <3>2. QED
      BY <1>5, <1>7, <2>2, <2>3, <2>5, <3>1 DEF HasEntry
  <2>6. QED
    BY <1>1, <2>4, <2>5 DEF Recorded
<1>8. Ledger(work)' = y
  BY <1>4 DEF Ledger, Selected, Winner
<1>9. QED
  BY <1>2, <1>6, <1>7, <1>8 DEF SaidIsHeld

LEMMA StepInv == Inv /\ [Next]_vars => Inv'
<1> SUFFICES ASSUME Inv, [Next]_vars
             PROVE  Inv'
  OBVIOUS
<1>0. TypeOK' /\ day \in Nat
  BY StepTypes DEF Inv, TypeOK
<1>1. CASE Tick
  <2>1. UNCHANGED <<base, work, said, first, announced, passed, promised, slipped>> /\ day' = day + 1
    BY <1>1 DEF Tick, ghosts
  <2>2. PolicyKept' /\ KeysKept' /\ WeakeningsAreAccountedFor'
    BY <2>1, BaseUnchanged
  <2>3. PromisesAreHeld'
    BY <1>0, <2>1, PromisesUnchanged
  <2>4. \A e \in said : Timely(e, day')
    BY <1>0, <2>1, StaysTimely DEF Inv, SaidIsHeld, TypeOK
  <2>5. SaidIsHeld'
    BY <2>1, <2>4 DEF Inv, SaidIsHeld, Ledger, Selected, Winner
  <2>6. QED
    BY <1>0, <2>2, <2>3, <2>5 DEF Inv
<1>2. CASE Abandon \/ \E p \in Paths : \E x \in Written[p] : Edit(p, x)
  <2>1. /\ UNCHANGED <<base, first, announced, passed, slipped, promised>>
        /\ day' = day /\ said' = {}
    BY <1>2 DEF Abandon, Edit, ghosts
  <2>2. PolicyKept' /\ KeysKept' /\ WeakeningsAreAccountedFor' /\ PromisesAreHeld'
    BY <1>0, <2>1, BaseUnchanged, PromisesUnchanged
  <2>3. SaidIsHeld'
    BY <2>1 DEF SaidIsHeld
  <2>4. QED
    BY <1>0, <2>2, <2>3 DEF Inv
<1>3. CASE Merge
  <2>1. SaidIsHeld'
    BY <1>3 DEF Merge, SaidIsHeld
  <2>2. QED
    BY <1>0, <1>3, <2>1, MergeKeepsPolicy, MergeKeepsKeys, MergeKeepsAccounts, MergeKeepsPromises DEF Inv
<1>4. CASE \E k \in Keys : Allow(k)
  <2>1. UNCHANGED <<base, first, announced, passed, slipped, promised>> /\ day' = day
    BY <1>4 DEF Allow, ghosts
  <2>2. PolicyKept' /\ KeysKept' /\ WeakeningsAreAccountedFor' /\ PromisesAreHeld'
    BY <1>0, <2>1, BaseUnchanged, PromisesUnchanged
  <2>3. SaidIsHeld'
    BY <1>4, AllowKeepsSaid
  <2>4. QED
    BY <1>0, <2>2, <2>3 DEF Inv
<1>5. CASE UNCHANGED vars
  <2>1. /\ UNCHANGED <<base, work, first, announced, passed, slipped, promised>>
        /\ day' = day /\ said' = said
    BY <1>5 DEF vars, ghosts
  <2>2. PolicyKept' /\ KeysKept' /\ WeakeningsAreAccountedFor' /\ PromisesAreHeld'
    BY <1>0, <2>1, BaseUnchanged, PromisesUnchanged
  <2>3. SaidIsHeld'
    BY <2>1 DEF Inv, SaidIsHeld, Ledger, Selected, Winner
  <2>4. QED
    BY <1>0, <2>2, <2>3 DEF Inv
<1>6. QED
  BY <1>1, <1>2, <1>3, <1>4, <1>5 DEF Next

LEMMA Invariance == Spec => []Inv
<1>1. QED
  BY InitInv, StepInv, PTL DEF Spec

-----------------------------------------------------------------------------
(* What follows for every series of merges.                                *)

\* A weakened test is merged only on an exemption of the first base, announced,
\* or brought by a displaced or revealed ledger, or under a policy no stricter
\* than the first one or one that came past the review in a stated way; once
\* such a policy takes its own files out of review it says nothing more.
THEOREM WeakeningsAccountedFor == Spec => []WeakeningsAreAccountedFor
<1>1. Inv => WeakeningsAreAccountedFor
  BY DEF Inv
<1>2. QED
  BY <1>1, Invariance, PTL

LEMMA BaseChangesInMerge ==
    ASSUME Next, base' # base
    PROVE  Merge /\ base' = work
BY DEF Next, Tick, Abandon, Edit, Allow, Merge

\* From any state of the types, not only a reachable one: a merge weakens the
\* policy in force, if that keeps its files under review, only by the first role
\* table, the removal of an empty config.toml that hid another, or the rename of
\* one to a ledger.
THEOREM WeakensOnlyAsStated == Spec => PolicyWeakensOnlyAsStated
<1>1. ASSUME TypeOK, Next, base' # base, Supervised(GatePolicy(base)),
             Weaker(GatePolicy(base'), GatePolicy(base))
      PROVE  PolicySlips(base, base')
  BY <1>1, BaseChangesInMerge, SupervisedMerge
<1>2. TypeOK /\ [Next]_vars =>
        [base' # base /\ Supervised(GatePolicy(base)) /\ Weaker(GatePolicy(base'), GatePolicy(base))
           => PolicySlips(base, base')]_vars
  BY <1>1
<1>3. QED
  BY <1>2, TypeCorrect, PTL DEF Spec, PolicyWeakensOnlyAsStated

\* So with the ledger in force: a merge takes no entry out of it but by the
\* rename of something else to it, and puts none there unannounced but so or by
\* the removal of an empty ledger that hid another.
THEOREM LedgerGrows == Spec => LedgerOnlyGrows
<1> DEFINE grows == LET old == Entries(Ledger(base))
                        new == Entries(Ledger(base'))
                    IN  /\ IsPrefix(old, new) \/ Displaced(base, base')
                        /\ \/ \A i \in DOMAIN new : i > Len(old) => new[i].key \in announced'
                           \/ LedgerSlips(base, base')
<1>1. ASSUME TypeOK, Next, base' # base, Supervised(GatePolicy(base))
      PROVE  grows
  <2>1. Merge /\ base' = work
    BY <1>1, BaseChangesInMerge
  <2>2. /\ Extends(Ledger(base), Ledger(work)) \/ Displaced(base, work)
        /\ Told(Ledger(base), Ledger(work), announced') \/ LedgerSlips(base, work)
    BY <1>1, <2>1, SupervisedMerge
  <2>3. QED
    BY <2>1, <2>2 DEF Extends, Told
<1>2. TypeOK /\ [Next]_vars => [base' # base /\ Supervised(GatePolicy(base)) => grows]_vars
  BY <1>1
<1>3. QED
  BY <1>2, TypeCorrect, PTL DEF Spec, LedgerOnlyGrows

\* What `allow` reported as recorded is honoured once merged, up to its date,
\* while the policies in force kept their files under review and no file that was
\* no ledger was renamed over it.
THEOREM AllowHonoured == Spec => []AllowIsHonoured
<1>1. ASSUME Inv, Watched, Readable(Ledger(base)), NEW e \in promised,
             e.expires - e.created + Ahead <= Cap, day <= e.expires
      PROVE  e.key \in Active(base, day)
  <2>1. Timely(e, day) /\ HasEntry(Ledger(base), e) /\ e \in Entry /\ day \in Nat
    BY <1>1 DEF Inv, PromisesAreHeld, TypeOK
  <2>2. Honoured(e, day)
    BY <1>1, <2>1, TimelyIsHonoured
  <2>3. QED
    BY <2>1, <2>2 DEF Active, HasEntry
<1>2. Inv => AllowIsHonoured
  BY <1>1 DEF AllowIsHonoured
<1>3. QED
  BY <1>2, Invariance, PTL

=============================================================================
