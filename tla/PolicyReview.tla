---------------------------- MODULE PolicyReview ----------------------------
(***************************************************************************)
(* Changes to checkwash's own files, judged by checkwash.  `check` reads   *)
(* config.toml and allow.toml from the base side of a change, under        *)
(* .checkwash/ before .greenwash/, and a change that passes becomes the    *)
(* next base.  `allow` appends an exemption to the ledger of a branch.     *)
(*                                                                         *)
(* A branch is up to date with the base when it is merged.  A weakened     *)
(* test is a finding at high, as when nothing in the change excuses it.    *)
(***************************************************************************)
EXTENDS Integers, FiniteSets, SequencesExt

CONSTANTS
    Keys,        \* fingerprints of weakened tests, of the supported form
    RuleOf,      \* key -> the rule that finds it
    Guard,       \* the rule GUARDRAIL_TOUCHED
    Tables,      \* role tables: the globs of each role
    Usual,       \* the one of DEFAULT_ROLES
    Guards,      \* table -> those of checkwash's four files that are guardrail
    Judges,      \* table -> the weakened tests whose file is judged as a test
    Cap,         \* MAX_EXPIRY_DAYS
    Ahead,       \* days by which an author's clock may be ahead of the gate's
    Elsewhere,   \* a path outside the two directories, of no supervised role
    None,        \* no file
    Bases,       \* the base sides a history may start from
    Written,     \* path -> what an edit may leave there
    (* bounds *)
    LastDay, MaxMerges, MaxEdited, MaxAllows

Rules == {RuleOf[k] : k \in Keys} \cup {Guard}
Warn == 1
High == 2
Critical == 3
Severities == 0..Critical

Dirs  == {"checkwash", "greenwash"}
Names == {"config", "allow"}
Files == [dir : Dirs, name : Names]
Paths == Files \cup {Elsewhere}
File(d, n) == [dir |-> d, name |-> n]

\* An entry without a date of creation reads like one created in the future.
Entry == [key : Keys, created : Int, expires : Int]

\* One TOML text, for either file: a config.toml has no entries, an allow.toml
\* the default settings.  `odd` is a value the loader warns of and replaces.
Policy == [failOn : Severities, blocks : BOOLEAN, disabled : SUBSET Rules, roles : Tables]
Text   == [bytes : BOOLEAN, parses : BOOLEAN, policy : Policy, odd : BOOLEAN, entries : Seq(Entry)]
Default == [failOn |-> High, blocks |-> FALSE, disabled |-> {}, roles |-> Usual]
Empty   == [bytes |-> FALSE, parses |-> TRUE, policy |-> Default, odd |-> FALSE, entries |-> <<>>]
Trees   == [Paths -> Text \cup {None}]

ASSUME PolicyAssumption ==
    /\ RuleOf \in [Keys -> Rules \ {Guard}]
    /\ Usual \in Tables
    /\ Guards \in [Tables -> SUBSET Files] /\ Guards[Usual] = Files
    /\ Judges \in [Tables -> SUBSET Keys] /\ Judges[Usual] = Keys
    /\ Cap \in Nat /\ Ahead \in Nat
    /\ Elsewhere \notin Files
    /\ None \notin Text
    /\ Bases \subseteq Trees
    /\ Written \in [Paths -> SUBSET (Text \cup {None})]
    /\ {LastDay, MaxMerges, MaxEdited, MaxAllows} \subseteq Nat

VARIABLES
    base,       \* the base side: path -> text
    work,       \* the branch
    day,        \* the gate's date
    said,       \* the entries `allow` reported as recorded on this branch
    merges, allows,   \* counted for the bounds
    (* ghosts *)
    first,      \* the policy and the exempted keys of the first base
    announced,  \* the keys of EXEMPTION_ADDED in reports of merged changes
    passed,     \* the weakened tests that were merged
    promised,   \* the entries of `allow` merged into the ledger in force
    slipped     \* the policies and keys that came into force past the review

ghosts == <<first, announced, passed, promised, slipped>>
vars == <<base, work, day, said, merges, allows, ghosts>>

-----------------------------------------------------------------------------
(* Reading the two files: load_config, load_allowlist, the order of the    *)
(* directories.                                                            *)

Readable(x) == x # None => x.parses
PolicyOf(x) == IF x # None /\ Readable(x) THEN x.policy ELSE Default
Entries(x)  == IF x # None /\ Readable(x) THEN x.entries ELSE <<>>

Winner(side, name) ==
    IF side[File("checkwash", name)] # None
    THEN File("checkwash", name)
    ELSE File("greenwash", name)
Selected(side, name) == side[Winner(side, name)]

GatePolicy(side) == PolicyOf(Selected(side, "config"))
Ledger(side)     == Selected(side, "allow")
KeysIn(entries)  == {entries[i].key : i \in DOMAIN entries}

Earlier(a, b) == IF a < b THEN a ELSE b
Anchor(e, today) == Earlier(e.created, today)

\* _entry_state: neither over the cap nor expired.
Honoured(e, today) == e.expires - Anchor(e, today) <= Cap /\ today <= e.expires

Active(side, today) ==
    LET entries == Entries(Ledger(side))
    IN  {entries[i].key : i \in {j \in DOMAIN entries : Honoured(entries[j], today)}}

-----------------------------------------------------------------------------
(* The change list of a branch against its base.                           *)

Removed(from, to) == {p \in Paths : from[p] # None /\ to[p] = None}
Added(from, to)   == {p \in Paths : from[p] = None /\ to[p] # None}

\* Git pairs equal files, and may pair one with what grew out of it.
Alike(t, u) == t = u \/ (t.entries # <<>> /\ IsPrefix(t.entries, u.entries))

Pairings(from, to) ==
    {r \in SUBSET (Removed(from, to) \X Added(from, to)) :
        /\ \A x, y \in r : x # y => x[1] # y[1] /\ x[2] # y[2]
        /\ \A x \in r : Alike(from[x[1]], to[x[2]])
        /\ \A p \in Removed(from, to), q \in Added(from, to) :
             from[p] = to[q] => \E x \in r : x[1] = p \/ x[2] = q}

\* _expand_renames: a rename of a guardrail to what the base policy's roles make
\* none is a deletion.
Escapes(policy, x) == x[1] \in Guards[policy.roles] /\ x[2] \notin Guards[policy.roles]

Expanded(policy, pairing) == {x \in pairing : ~Escapes(policy, x)}

Changes(from, to, pairing) ==
    {[path |-> x[2], old |-> x[1], before |-> from[x[1]], after |-> to[x[2]]] : x \in pairing}
    \cup {[path |-> p, old |-> p, before |-> from[p], after |-> to[p]]
            : p \in {q \in Paths : from[q] # to[q] /\ \A x \in pairing : q \notin {x[1], x[2]}}}

-----------------------------------------------------------------------------
(* What a change to one of the files is worth.                             *)

Created(c) == c.before \in {None, Empty}

\* shadow_baseline: a new file under .checkwash/ that takes over from an
\* existing one under .greenwash/.
NeverShadows(from, c) == FALSE
Shadows(from, c) ==
    /\ c.after # None
    /\ c.before = None \/ (c.before = Empty /\ c.old # c.path)
    /\ c.path.dir = "checkwash"
    /\ from[c.path] = None
    /\ from[File("greenwash", c.path.name)] # None

Predecessor(from, c) ==
    IF Shadows(from, c) THEN from[File("greenwash", c.path.name)] ELSE c.before

\* _classify_allowlist_change
Appends(old, new) ==
    /\ new # None
    /\ Readable(old) /\ Readable(new)
    /\ IsPrefix(Entries(old), Entries(new))

IsAppend(from, c) == c.path.name = "allow" /\ Appends(Predecessor(from, c), c.after)

AppendedEntries(from, c) ==
    LET new == Entries(c.after)
    IN  {new[i] : i \in DOMAIN new}

Appended(from, c) ==
    LET old == Entries(Predecessor(from, c))
        new == Entries(c.after)
    IN  {new[i].key : i \in {j \in DOMAIN new : j > Len(old)}}

Relaxes(new, old) ==
    \/ ~(new.disabled \subseteq old.disabled)
    \/ new.failOn > old.failOn
    \/ old.blocks /\ ~new.blocks

\* config_transition: "config_uncomparable" or "config_relaxation".
ComparesNoTables(old, new) == Readable(old) /\ Readable(new) /\ ~old.odd /\ ~new.odd
Comparable(old, new) ==
    /\ Readable(old) /\ Readable(new)
    /\ ~old.odd /\ ~new.odd
    /\ old.policy.roles = new.policy.roles
GuardedTransition(old, new) == ~Comparable(old, new) \/ Relaxes(new.policy, old.policy)

\* _created_config_loosens: the role table of a first config is not looked at.
RaisesTheThreshold(x) == PolicyOf(x).failOn > High
Loosens(x) == PolicyOf(x).disabled # {} \/ PolicyOf(x).failOn > High

\* apply_gates: a constraint that existed is critical to touch; a new file is
\* a warning, unless it relaxes what it takes over from.
GuardSeverity(from, c) ==
    IF /\ Created(c)
       /\ IF Shadows(from, c)
          THEN c.path.name = "config" /\ ~GuardedTransition(Predecessor(from, c), c.after)
          ELSE c.path.name = "config" => ~Loosens(c.after)
    THEN Warn ELSE Critical

\* The policy of the base side judges the change; it says which files are
\* guardrails, and which are tests.
PolicySide(from, to) == GatePolicy(from)
IsGuardrail(from, c) == c.path \in Guards[GatePolicy(from).roles]

Touches(from, c) == IsGuardrail(from, c) /\ ~IsAppend(from, c)

Announced(from, changes) ==
    UNION {Appended(from, c) : c \in {d \in changes : IsGuardrail(from, d) /\ IsAppend(from, d)}}

Blocks(from, to, changes, weak, today) ==
    LET policy == PolicySide(from, to)
    IN  \/ /\ Guard \notin policy.disabled
           /\ \/ \E c \in changes : Touches(from, c) /\ GuardSeverity(from, c) >= policy.failOn
              \/ Announced(from, changes) # {} /\ Warn >= policy.failOn
        \/ \E k \in weak : /\ k \in Judges[policy.roles]
                           /\ RuleOf[k] \notin policy.disabled
                           /\ k \notin Active(from, today)
                           /\ High >= policy.failOn

\* An unreadable ledger under on_engine_error = "block" is exit 2; a config
\* that cannot be read has the default, which does not block.
Errs(from, to) == PolicySide(from, to).blocks /\ ~Readable(Ledger(from))

-----------------------------------------------------------------------------
(* resolve_config_file and _cmd_allow.                                     *)

DirExists(side, d) == \E n \in Names : side[File(d, n)] # None

LegacyOnly(side) == File("greenwash", "allow")
Resolved(side) ==
    LET there == {d \in Dirs : side[File(d, "allow")] # None}
        dirs  == {d \in Dirs : DirExists(side, d)}
    IN  CASE "checkwash" \in there -> File("checkwash", "allow")
          [] there = {"greenwash"} -> File("greenwash", "allow")
          [] there = {} /\ "checkwash" \in dirs -> File("checkwash", "allow")
          [] OTHER -> File("greenwash", "allow")

Opened(x) == IF x = None THEN Empty ELSE x

-----------------------------------------------------------------------------
Init ==
    /\ base \in Bases
    /\ work = base
    /\ day = 0
    /\ said = {}
    /\ merges = 0
    /\ allows = 0
    /\ first = [policy |-> GatePolicy(base), keys |-> KeysIn(Entries(Ledger(base)))]
    /\ announced = {}
    /\ passed = {}
    /\ promised = {}
    /\ slipped = [policies |-> {}, keys |-> {}]

Tick ==
    /\ day < LastDay
    /\ day' = day + 1
    /\ UNCHANGED <<base, work, said, merges, allows, ghosts>>

Edited(tree) == {p \in Paths : tree[p] # base[p]}

\* A branch: files are edited first, then `allow` is run.
Edit(p, x) ==
    /\ merges < MaxMerges /\ said = {}
    /\ p \notin Edited(work) /\ Cardinality(Edited(work)) < MaxEdited
    /\ x # base[p]
    /\ work' = [work EXCEPT ![p] = x]
    /\ UNCHANGED <<base, day, said, merges, allows, ghosts>>

Abandon ==
    /\ work # base
    /\ work' = base
    /\ said' = {}
    /\ UNCHANGED <<base, day, merges, allows, ghosts>>

\* `allow`: opens the file for appending, which creates it, and writes one
\* entry.  A kill leaves none of it, a part that does not parse, or a part that
\* parses and has no date or no reason yet, which is ignored.
Allow(k) ==
    /\ merges < MaxMerges
    /\ allows < MaxAllows
    /\ allows' = allows + 1
    /\ \E today \in day..(day + Ahead), term \in 0..Cap :
         LET path  == Resolved(work)
             x     == Opened(work[path])
             entry == [key |-> k, created |-> today, expires |-> today + term]
         IN  \/ /\ work' = [work EXCEPT ![path] =
                              [x EXCEPT !.bytes = TRUE, !.entries = Append(@, entry)]]
                /\ said' = said \cup {entry}
             \/ /\ \/ work' = [work EXCEPT ![path] = x]
                   \/ work' = [work EXCEPT ![path] = [x EXCEPT !.bytes = TRUE]]
                   \/ work' = [work EXCEPT ![path] = [x EXCEPT !.bytes = TRUE, !.parses = FALSE]]
                /\ said' = said
    /\ Cardinality(Edited(work')) <= MaxEdited
    /\ UNCHANGED <<base, day, merges, ghosts>>

\* What is less than it was: a rule, the threshold, the answer to an engine
\* error, or a file that was a guardrail or was judged as a test.
Weaker(new, old) ==
    \/ Relaxes(new, old)
    \/ ~(Guards[old.roles] \subseteq Guards[new.roles])
    \/ ~(Judges[old.roles] \subseteq Judges[new.roles])

Own(name) == {File(d, name) : d \in Dirs}

\* The ways past the review.  The first role table, in a config.toml that was
\* not there or empty, is a warning (_created_config_loosens: "a stated
\* residual").  Nothing is said where an empty file under .checkwash/ is taken
\* away, which reveals the one under .greenwash/, and where something that was
\* no ledger is renamed to one.
FirstTable(from, to) ==
    LET p == Winner(to, "config")
    IN  /\ from[p] = Selected(from, "config")
        /\ from[p] \in {None, Empty}
        /\ ~Relaxes(GatePolicy(to), GatePolicy(from))

Reveals(from, to, name) ==
    from[File("checkwash", name)] = Empty /\ to[File("checkwash", name)] = None

BecomesLedger(from, to, paths) ==
    \E p \in paths \cap Removed(from, to), q \in Own("allow") \cap Added(from, to) :
        Alike(from[p], to[q])

PolicySlips(from, to) ==
    /\ Weaker(GatePolicy(to), GatePolicy(from))
    /\ \/ FirstTable(from, to)
       \/ Reveals(from, to, "config")
       \/ BecomesLedger(from, to, Own("config"))

Displaced(from, to)   == BecomesLedger(from, to, Paths \ Own("allow"))
LedgerSlips(from, to) == Reveals(from, to, "allow") \/ Displaced(from, to)

\* The required check passes, and the branch is merged.
Merge ==
    /\ merges < MaxMerges
    /\ work # base
    /\ \E pairing \in Pairings(base, work), weak \in SUBSET Keys :
         LET changes == Changes(base, work, Expanded(PolicySide(base, work), pairing))
         IN  /\ ~Errs(base, work)
             /\ ~Blocks(base, work, changes, weak, day)
             /\ announced' = IF Guard \in GatePolicy(base).disabled THEN announced
                             ELSE announced \cup Announced(base, changes)
             /\ passed' = passed \cup weak
    /\ base' = work
    /\ said' = {}
    /\ promised' = IF Displaced(base, work) THEN {} ELSE promised \cup said
    /\ slipped' =
         [policies |-> slipped.policies \cup
                         IF PolicySlips(base, work) THEN {GatePolicy(work)} ELSE {},
          keys     |-> slipped.keys \cup
                         IF LedgerSlips(base, work) THEN KeysIn(Entries(Ledger(work))) ELSE {}]
    /\ merges' = merges + 1
    /\ UNCHANGED <<work, day, allows, first>>

Next ==
    \/ Tick \/ Abandon \/ Merge
    \/ \E p \in Paths : \E x \in Written[p] : Edit(p, x)
    \/ \E k \in Keys : Allow(k)

Spec == Init /\ [][Next]_vars

-----------------------------------------------------------------------------
(* Properties.                                                             *)

TypeOK ==
    /\ base \in Trees
    /\ work \in Trees
    /\ day \in Nat
    /\ said \in SUBSET Entry
    /\ merges \in Nat
    /\ allows \in Nat
    /\ first \in [policy : Policy, keys : SUBSET Keys]
    /\ announced \in SUBSET Keys
    /\ passed \in SUBSET Keys
    /\ promised \in SUBSET Entry
    /\ slipped \in [policies : SUBSET Policy, keys : SUBSET Keys]

\* The policy keeps its own files under review.
Supervised(policy) == Guard \notin policy.disabled /\ Guards[policy.roles] = Files

\* The policies the author of the first base chose, or that came past the review.
Sources == {first.policy} \cup slipped.policies
Watched == \A p \in Sources : Supervised(p)

\* The policy itself lets the weakened test k pass.
Lets(p, k) == RuleOf[k] \in p.disabled \/ High < p.failOn \/ k \notin Judges[p.roles]

\* However changes to the policy follow each other, a weakened test is merged
\* only on an exemption that was there at first, was announced or came with a
\* displaced or revealed ledger, or under a policy no stricter than the first
\* one or one that came past the review in one of the three ways of
\* PolicySlips: no other change, and no other series of changes each of which
\* passes, exempts itself.  Once such a policy takes its own files out of review
\* nothing is promised any more.
\* (engine.py: "the two-commit plant of issue #79"; "`roles` overrides are a
\* stated residual".)
WeakeningsAreAccountedFor ==
    \A k \in passed : \/ k \in first.keys \cup announced \cup slipped.keys
                      \/ \E p \in Sources : Lets(p, k) \/ ~Supervised(p)

\* A policy that keeps its own files under review is weakened, be it by its role
\* table, by a change that passes only in one of three ways: the first role
\* table, the removal of an empty file that hid another, and the rename of a
\* config.toml to a ledger.  Editing, taking over, deleting, breaking and moving
\* away a file that was there, and creating one that disables a rule or raises
\* the threshold, are not among them.
\* (SPEC 6: "Existing guardrail edits remain critical".)
PolicyWeakensOnlyAsStated ==
    [][base' # base /\ Supervised(GatePolicy(base)) /\ Weaker(GatePolicy(base'), GatePolicy(base))
         => PolicySlips(base, base')]_vars

\* Under such a policy the ledger in force only grows, and what is new was
\* announced: no exemption is revoked, rewritten or hidden by a change that
\* passes, unless something that was no ledger is renamed to one; and only such
\* a rename, or the removal of an empty ledger that hid another, puts one in
\* force unannounced.
\* (SPEC 6: "Modifying or deleting existing entries stays critical.")
LedgerOnlyGrows ==
    [][base' # base /\ Supervised(GatePolicy(base)) =>
         LET old == Entries(Ledger(base))
             new == Entries(Ledger(base'))
         IN  /\ IsPrefix(old, new) \/ Displaced(base, base')
             /\ \/ \A i \in DOMAIN new : i > Len(old) => new[i].key \in announced'
                \/ LedgerSlips(base, base')]_vars

\* What `allow` reported as recorded is honoured once it is merged, on every
\* day up to its date, provided its term leaves room for the author's clock,
\* the policies in force kept their files under review, and no file that was no
\* ledger was renamed over it.
\* (config.py: "or `allow` writes a ledger `check` never opens".)
AllowIsHonoured ==
    Watched /\ Readable(Ledger(base)) =>
        \A e \in promised :
            e.expires - e.created + Ahead <= Cap /\ day <= e.expires => e.key \in Active(base, day)


=============================================================================
