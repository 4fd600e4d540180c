-------------------------------- MODULE Gates --------------------------------
(***************************************************************************)
(* gating.apply_gates: the findings of one diff are judged in report       *)
(* order, and what is left at or above fail_on blocks.                     *)
(*                                                                         *)
(* A deleted oracle is excused when its counterpart arrived elsewhere in   *)
(* the diff.  What arrived is a ledger of three credits, shared by every   *)
(* finding: the moved texts, the contexts proved for single assertions and *)
(* the contexts proved for whole test units.  Which finding takes a credit *)
(* depends on the order, on the routes tried before, and on the holds that *)
(* need no credit at all.                                                  *)
(***************************************************************************)
EXTENDS Naturals, Sequences, FiniteSets

CONSTANTS
    Assertions,    \* assertions, as far as their text and context tell them apart
    Texts,         \* normalized texts
    Keys,          \* proof keys of one assertion in its context
    Contexts,      \* proof keys of whole test units
    NoContext,     \* a unit that could not be proved as a whole
    Text,          \* [Assertions -> Texts]
    Proof,         \* [Assertions -> SUBSET Keys]: one key per parameter row
    Losses,        \* what a finding may report
    Arrivals,      \* what the diff may add in live, collected tests
    MaxFindings, MaxArrivals   \* bounds on one diff

(* GUARDRAIL_TOUCHED stands for every rule outside ORACLE_RULES. *)
Rules == <<"GUARDRAIL_TOUCHED", "ASSERT_REMOVED",
           "ASSERT_SUBSTITUTED", "ASSERT_WEAKENED", "TEST_DISABLED",
           "EXPECTED_VALUE_CHANGED">>

Rank(rule) == CHOOSE i \in DOMAIN Rules : Rules[i] = rule

OracleRules == {"ASSERT_REMOVED", "ASSERT_SUBSTITUTED", "ASSERT_WEAKENED",
                "TEST_DISABLED", "EXPECTED_VALUE_CHANGED"}

(* What a finding reports.  "lost" are the assertions that left, "proved"  *)
(* those of them whose context the base side proves.                       *)
Finding == [rule: {Rules[i] : i \in DOMAIN Rules}, lost: SUBSET Assertions,
            proved: SUBSET Assertions, vanished: BOOLEAN,
            context: Contexts \cup {NoContext}]

(* A new unit, or an older one that gained assertions (no context of its own). *)
Arrival == [gained: SUBSET Assertions, proved: SUBSET Assertions,
            context: Contexts \cup {NoContext}]

ASSUME GatesAssumption ==
    /\ IsFiniteSet(Assertions)
    /\ Text \in [Assertions -> Texts]
    /\ Proof \in [Assertions -> SUBSET Keys]
    /\ NoContext \notin Contexts
    /\ Losses \subseteq Finding
    /\ \A f \in Losses : f.vanished => f.rule = "TEST_DISABLED"
    /\ Arrivals \subseteq Arrival
    /\ MaxFindings \in Nat
    /\ MaxArrivals \in Nat

Severities == <<"info", "warn", "high", "critical">>

AtLeast(severity, threshold) ==
    \E i, j \in DOMAIN Severities :
        i >= j /\ Severities[i] = severity /\ Severities[j] = threshold

VARIABLES
    (* the diff and the contract *)
    findings,      \* in report order
    arrivals,      \* pairs of an arrival and the number of its copy
    duplicates, frozen,
    (* the ledger *)
    moved,         \* [Texts -> Nat]
    assertions,    \* [Keys -> Nat]
    units,         \* [Contexts -> Nat]
    (* the judgement *)
    marks, failOn, verdict

diff   == <<findings, arrivals, duplicates, frozen>>
ledger == <<moved, assertions, units>>
vars   == <<diff, ledger, marks, failOn, verdict>>

-----------------------------------------------------------------------------
(* Bags of texts, keys and contexts, counted from the two sides of the diff. *)

WithText(as, t) == {a \in as : Text[a] = t}

WithKey(as, k) == {a \in as : k \in Proof[a]}

TextLost(fs, t) == UNION {{i} \X WithText(fs[i].lost, t) : i \in DOMAIN fs}

TextArrived(as, t) == UNION {{p} \X WithText(p[1].gained, t) : p \in as}

KeyArrived(as, k) == UNION {{p} \X WithKey(p[1].proved, k) : p \in as}

UnitArrived(as, h) == {p \in as : p[1].context = h}

Fewer(m, n) == IF m <= n THEN m ELSE n

MovedTexts(fs, as) ==
    [t \in Texts |-> Fewer(Cardinality(TextLost(fs, t)), Cardinality(TextArrived(as, t)))]

ArrivalCredits(as) == [k \in Keys |-> Cardinality(KeyArrived(as, k))]

UnitCredits(as) == [h \in Contexts |-> Cardinality(UnitArrived(as, h))]

(* assertion_keys and the texts of an own assertion set, as bags. *)
KeysOf(as) == [k \in Keys |-> Cardinality(WithKey(as, k))]

TextsOf(as) == [t \in Texts |-> Cardinality(WithText(as, t))]

CoversStrictly(credits, needed) ==
    \A x \in DOMAIN needed : needed[x] > 0 => credits[x] > needed[x]

Covers(credits, needed) == \A x \in DOMAIN needed : credits[x] >= needed[x]

Minus(credits, needed) == [x \in DOMAIN credits |-> credits[x] - needed[x]]

SpendsAnything(credits, needed) == \E x \in DOMAIN needed : needed[x] > 0

(* spend pays nothing for an empty need. *)
CanSpend(credits, needed) ==
    /\ \E x \in DOMAIN needed : needed[x] > 0
    /\ Covers(credits, needed)

-----------------------------------------------------------------------------
Upto(S, n) == UNION {[1..m -> S] : m \in 0..n}

(* Found in report order: Finding.sort_key ranks the rule first. *)
InReportOrder(fs) ==
    \A i, j \in DOMAIN fs : i < j => Rank(fs[i].rule) <= Rank(fs[j].rule)

(* Survivors outside the diff are looked for only for a unit that vanished *)
(* and did not arrive in the diff.                                         *)
Wanted(fs, as) ==
    {fs[i].context : i \in {j \in DOMAIN fs : fs[j].vanished}}
        \ ({p[1].context : p \in as} \cup {NoContext})

(* Findings that touch no credit: one counts for two in the bound. *)
InPlace(fs) == {i \in DOMAIN fs : fs[i].rule # "ASSERT_REMOVED" /\ ~fs[i].vanished}

(* Copies of what arrived, numbered from one. *)
Bags(S, n) ==
    {B \in SUBSET (S \X (1..n)) :
        /\ IsFiniteSet(B) /\ Cardinality(B) <= n
        /\ \A p \in B : p[2] > 1 => <<p[1], p[2] - 1>> \in B}

Init ==
    /\ findings \in {fs \in Upto(Losses, MaxFindings) :
                         /\ InReportOrder(fs)
                         /\ Len(fs) + Cardinality(InPlace(fs)) <= MaxFindings}
    /\ arrivals \in Bags(Arrivals, MaxArrivals)
    /\ duplicates \in SUBSET Wanted(findings, arrivals)
    /\ frozen \in BOOLEAN
    /\ failOn = "unread"
    /\ moved = MovedTexts(findings, arrivals)
    /\ assertions = ArrivalCredits(arrivals)
    /\ units = UnitCredits(arrivals)
    /\ marks = << >>
    /\ verdict = "none"

-----------------------------------------------------------------------------
Judging == verdict = "none" /\ Len(marks) < Len(findings)

This == findings[Len(marks) + 1]

Mark(severity, held) ==
    /\ marks' = Append(marks, [severity |-> severity, held |-> held])
    /\ UNCHANGED <<diff, failOn, verdict>>

FreezeHolds(severity) == IF frozen /\ severity = "warn" THEN "high" ELSE severity

(* E2: the contract's freeze raises a finding that reaches it. *)
Freeze(severity) == IF frozen THEN "high" ELSE severity

(* D3: an active exemption is taken before any credit is looked at. *)
Exempt ==
    /\ Judging
    /\ Mark("warn", "ALLOWLISTED")
    /\ UNCHANGED ledger

(* E4 to E8: what the analysis recorded about the file decides, and no     *)
(* credit is looked at.                                                    *)
Escalate ==
    /\ Judging
    /\ This.rule \notin OracleRules
    /\ \E severity \in {"warn", "high", "critical"} : Mark(severity, "none")
    /\ UNCHANGED ledger

(* A pytestmark in a conftest disables nothing. *)
InertMark ==
    /\ Judging
    /\ This.rule = "TEST_DISABLED" /\ ~This.vanished
    /\ Mark("info", "none")
    /\ UNCHANGED ledger

(* Every own assertion that left has its proof. *)
Proven(f) == f.lost # {} /\ \A a \in f.lost : a \in f.proved /\ Proof[a] # {}

PaysAssertion(f) ==
    /\ f.rule = "ASSERT_REMOVED"
    /\ Covers(moved, TextsOf(f.lost))
    /\ CanSpend(assertions, KeysOf(f.proved))

PaysUnit(f) ==
    /\ f.vanished
    /\ f.context # NoContext
    /\ units[f.context] > 0
    /\ Covers(assertions, KeysOf(f.proved))

Survives(f) == f.vanished /\ f.context \in duplicates

PaysTexts(f) ==
    /\ f.vanished
    /\ Proven(f)
    /\ Covers(moved, TextsOf(f.lost))
    /\ CanSpend(assertions, KeysOf(f.proved))

SpendTextsAndKeys ==
    /\ moved' = Minus(moved, TextsOf(This.lost))
    /\ assertions' = Minus(assertions, KeysOf(This.proved))
    /\ UNCHANGED units

(* D2, one assertion of a test that is still there. *)
AssertionMoved ==
    /\ Judging
    /\ PaysAssertion(This)
    /\ SpendTextsAndKeys
    /\ Mark(Freeze("info"), "ASSERTION_MOVED")

UnitMovedFreeKeys ==
    /\ Judging
    /\ PaysUnit(This)
    /\ units' = [units EXCEPT ![This.context] = @ - 1]
    /\ UNCHANGED <<assertions, moved>>
    /\ Mark("info", "ASSERTION_MOVED")

UnitMovedFreeUnit ==
    /\ Judging
    /\ PaysUnit(This)
    /\ assertions' = Minus(assertions, KeysOf(This.proved))
    /\ UNCHANGED <<units, moved>>
    /\ Mark("info", "ASSERTION_MOVED")

(* D2, a whole unit: it also takes the credits of its assertions, but not  *)
(* their texts, and E2 does not reach it.                                  *)
UnitMoved ==
    /\ Judging
    /\ PaysUnit(This)
    /\ units' = [units EXCEPT ![This.context] = @ - 1]
    /\ assertions' = Minus(assertions, KeysOf(This.proved))
    /\ UNCHANGED moved
    /\ Mark("info", "ASSERTION_MOVED")

(* D10: one live survivor covers any number of identical deletions. *)
DuplicateRemains ==
    /\ Judging
    /\ ~PaysUnit(This)
    /\ Survives(This)
    /\ UNCHANGED ledger
    /\ Mark("info", "DUPLICATE_REMAINS")

(* D2, a vanished unit whose own assertions all arrived, wherever they did. *)
TextsMoved ==
    /\ Judging
    /\ ~PaysUnit(This) /\ ~Survives(This)
    /\ PaysTexts(This)
    /\ SpendTextsAndKeys
    /\ Mark(Freeze("info"), "ASSERTION_MOVED")

-----------------------------------------------------------------------------
(* The holds, in the order in which they are tried. *)
Holds == <<"REPAIR_EVIDENCE", "PACKAGE_REPAIR", "DEPENDENCY_DRIFT",
           "SAME_UNIT_REWRITE", "RESTRUCTURED", "SPLIT_OR_RENAMED",
           "COMPAT_GATE", "PROD_SYMBOL_REMOVED", "MILD_WEAKENING">>

(* What the analysis may have found beside a finding, by its rule: "removal" *)
(* is parametrize rows deleted from a test that goes on running some.        *)
Possible(f) ==
    CASE f.rule = "ASSERT_REMOVED" -> {"python", "evidence", "rewrite"}
      [] f.rule = "ASSERT_SUBSTITUTED" -> {"evidence", "manifest", "rewrite"}
      [] f.rule = "ASSERT_WEAKENED" -> {"python", "evidence", "mild"}
      [] f.rule = "EXPECTED_VALUE_CHANGED" -> {"evidence", "package", "manifest"}
      [] f.vanished -> {"python", "evidence", "symbol", "restructured", "split"}
      [] OTHER -> {"python", "evidence", "symbol", "removal", "compat"}

RemovalShape(f, facts) == f.vanished \/ "removal" \in facts

(* D-199: weakening rules take no repair evidence, in a Python test any of *)
(* them, in another language only those that loosen a test still there.    *)
Refuses(f, facts) ==
    IF "python" \in facts THEN f.rule \in {"ASSERT_REMOVED", "ASSERT_WEAKENED", "TEST_DISABLED"}
    ELSE \/ f.rule = "ASSERT_WEAKENED"
         \/ f.rule = "TEST_DISABLED" /\ ~RemovalShape(f, facts)

(* D5 needs every own assertion proved and still unspent in the ledger. *)
ProvenRestructure(f) == Proven(f) /\ Covers(assertions, KeysOf(f.proved))

Eligible(f, facts) ==
    {h \in {Holds[i] : i \in DOMAIN Holds} :
        \/ h = "REPAIR_EVIDENCE" /\ "evidence" \in facts /\ ~Refuses(f, facts)
        \/ h = "PACKAGE_REPAIR" /\ "package" \in facts
        \/ h = "DEPENDENCY_DRIFT" /\ "manifest" \in facts
        \/ h = "SAME_UNIT_REWRITE" /\ "rewrite" \in facts
        \/ h = "RESTRUCTURED" /\ "restructured" \in facts /\ ProvenRestructure(f)
        \/ h = "SPLIT_OR_RENAMED" /\ "split" \in facts /\ ProvenRestructure(f)
        \/ h = "COMPAT_GATE" /\ "compat" \in facts /\ "removal" \notin facts
        \/ h = "PROD_SYMBOL_REMOVED" /\ "symbol" \in facts /\ RemovalShape(f, facts)
        \/ h = "MILD_WEAKENING" /\ "mild" \in facts}

First(held) ==
    Holds[CHOOSE i \in DOMAIN Holds :
        Holds[i] \in held /\ \A j \in 1..(i - 1) : Holds[j] \notin held]

ByProof == {"RESTRUCTURED", "SPLIT_OR_RENAMED"}

(* E1 when nothing holds the finding.  A hold that rests on the ledger     *)
(* spends only when it is the one chosen.                                  *)
Hold(held) ==
    /\ assertions' = IF held \in ByProof THEN Minus(assertions, KeysOf(This.proved))
                     ELSE assertions
    /\ Mark(Freeze("warn"), held)
    /\ UNCHANGED <<moved, units>>

Weigh ==
    /\ Judging
    /\ This.rule \in OracleRules
    /\ ~PaysAssertion(This) /\ ~PaysUnit(This) /\ ~Survives(This) /\ ~PaysTexts(This)
    /\ \E facts \in SUBSET Possible(This) :
           LET eligible == Eligible(This, facts) IN
           \/ eligible = {} /\ Mark("high", "none") /\ UNCHANGED ledger
           \/ eligible # {} /\ Hold(First(eligible))

Blocking(threshold) ==
    {i \in DOMAIN marks :
        marks[i].held # "ALLOWLISTED" /\ AtLeast(marks[i].severity, threshold)}

(* The configured threshold is read here and nowhere before. *)
Conclude ==
    /\ verdict = "none"
    /\ Len(marks) = Len(findings)
    /\ failOn' \in {"warn", "high"}
    /\ verdict' = IF Blocking(failOn') # {} THEN "block" ELSE "pass"
    /\ UNCHANGED <<diff, ledger, marks>>

Next == \/ Exempt \/ Escalate \/ InertMark \/ AssertionMoved \/ UnitMoved
        \/ DuplicateRemains \/ TextsMoved \/ Weigh \/ Conclude

Spec == Init /\ [][Next]_vars

-----------------------------------------------------------------------------
HeldBy == {Holds[i] : i \in DOMAIN Holds}
             \cup {"none", "ALLOWLISTED", "ASSERTION_MOVED", "DUPLICATE_REMAINS"}

(* The judgement runs over the findings in order, and no credit is overdrawn. *)
TypeOK ==
    /\ findings \in Seq(Losses)
    /\ arrivals \subseteq Arrivals \X (1..MaxArrivals)
    /\ duplicates \subseteq Contexts
    /\ frozen \in BOOLEAN
    /\ failOn \in {"unread", "warn", "high"}
    /\ moved \in [Texts -> Nat]
    /\ assertions \in [Keys -> Nat]
    /\ units \in [Contexts -> Nat]
    /\ marks \in Seq([severity : {Severities[i] : i \in DOMAIN Severities}, held : HeldBy])
    /\ Len(marks) <= Len(findings)
    /\ verdict \in {"none", "block", "pass"}

Excused == {i \in DOMAIN marks : marks[i].held \in {"ASSERTION_MOVED"} \cup ByProof}

(* Deleted assertions excused on the strength of key k. *)
Paid(k) == UNION {{i} \X WithKey(findings[i].proved, k) : i \in Excused}

(* Each arriving assertion excuses at most one deleted one, whichever route *)
(* the deletions took: as a whole unit, as an assertion, or as a            *)
(* restructured or split test (SPEC D2).                                    *)
ArrivalPaysOnce ==
    \A k \in Keys : Cardinality(Paid(k)) <= Cardinality(KeyArrived(arrivals, k))

(* A test that proves no assertion of its own is only ever excused as a     *)
(* whole unit; no more such deletions are excused than identical units      *)
(* arrived, though their assertion credits are empty.                       *)
WholeUnitPaysOnce ==
    \A h \in Contexts :
        Cardinality({i \in Excused : findings[i].context = h /\ findings[i].proved = {}})
            <= Cardinality(UnitArrived(arrivals, h))

(* Did as many arrive as left, by proof and by text? *)
OnlyRelocated ==
    /\ \A i \in DOMAIN findings :
           Proven(findings[i]) /\ (findings[i].vanished \/ findings[i].rule = "ASSERT_REMOVED")
    /\ \A k \in Keys :
           Cardinality(UNION {{i} \X WithKey(findings[i].proved, k) : i \in DOMAIN findings})
               <= Cardinality(KeyArrived(arrivals, k))
    /\ \A t \in Texts : Cardinality(TextLost(findings, t)) <= Cardinality(TextArrived(arrivals, t))

(* A diff that only moves proved assertions passes, even where warn blocks: *)
(* whatever the order and whichever route each deletion takes, none of them *)
(* uses up a credit that a later one needs.                                 *)
RelocationPasses == verdict = "block" /\ OnlyRelocated => frozen

(* Under oracle_freeze a diff passes only if each of its oracle findings is *)
(* exempted, an inert mark, or a test whose whole unit is there at head: in *)
(* the diff or outside it.  Assertion credits and holds do not carry it.    *)
FrozenPass ==
    frozen /\ verdict = "pass" =>
        \A i \in DOMAIN findings :
            \/ findings[i].rule \notin OracleRules
            \/ marks[i].held = "ALLOWLISTED"
            \/ findings[i].rule = "TEST_DISABLED" /\ ~findings[i].vanished
            \/ /\ findings[i].vanished
               /\ \/ findings[i].context \in duplicates
                  \/ findings[i].context # NoContext /\ UnitArrived(arrivals, findings[i].context) # {}
=============================================================================
