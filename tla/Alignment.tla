------------------------------ MODULE Alignment ------------------------------
(***************************************************************************)
(* ir/diffalign._pair_assertions: which assertion of a changed test unit   *)
(* is which.  The old assertions look for a partner one after the other,   *)
(* in passes from the safest identity to mere position; what is left is    *)
(* removed, or added.  A unit's own assertions go first, those it reaches  *)
(* through a helper method (`via`) then take from what is left.            *)
(***************************************************************************)
EXTENDS Naturals, Sequences

CONSTANTS
    Kinds,      \* assertions, as far as the passes tell them apart: records
                \* of text, context, tree, form, left, strength, subject, check, via
    NoTree,     \* a statement that does not parse by itself
    NoSubject,  \* nothing a name or an expression stands for
    NoCheck,    \* no raises call
    Unknown,    \* the strength of a form that is not classified
    MaxBefore,  \* bounds on the assertions of the two sides
    MaxAfter

\* "context": where the names of the text were last bound; "subject": an
\* expression with that context; "check": the callee, the types and the
\* keywords of a raises call, but for match=; "via": reached through a helper.
Known(x) == x.strength # Unknown
SameClass(x, y) == IF Known(x) THEN Known(y) ELSE ~Known(y) /\ x.form = y.form

\* One text, or one statement, is classified alike on both sides; a form is
\* classified or it is not.
ASSUME AlignmentAssumption ==
    /\ \A x \in Kinds : x.via \in BOOLEAN /\ (Known(x) => x.strength \in Nat)
    /\ \A x, y \in Kinds :
          \/ x.text = y.text
          \/ x.tree = y.tree /\ x.tree # NoTree
          \/ x.form = y.form
          => SameClass(x, y)
    /\ MaxBefore \in Nat /\ MaxAfter \in Nat

VARIABLES
    (* the unit *)
    before, after,  \* its assertions in span order
    python,         \* is it Python?
    (* the passes *)
    pass,
    at,             \* the old assertion that looked last
    partner,        \* of each old assertion, 0 for none
    fallback        \* old assertions paired by order alone

unit == <<before, after, python>>
vars == <<unit, pass, at, partner, fallback>>

Rounds == {"own", "via"}
Stages == <<"context", "text", "tree", "key", "order", "raises">>
Done   == [round |-> "done", stage |-> "context"]

Old(i) == before[i]
New(j) == after[j]

-----------------------------------------------------------------------------
Units(n) == UNION {[1..m -> Kinds] : m \in 0..n}

Init ==
    /\ before \in Units(MaxBefore)
    /\ after \in Units(MaxAfter)
    /\ python \in BOOLEAN
    /\ pass = [round |-> "own", stage |-> "context"]
    /\ at = 0
    /\ partner = [i \in DOMAIN before |-> 0]
    /\ fallback = {}

-----------------------------------------------------------------------------
NeverTaken(j) == FALSE
Taken(j) == \E i \in DOMAIN before : partner[i] = j

\* Own assertions pair with own ones, the others with all that is left.
Offered(j) == ~Taken(j) /\ (pass.round = "via" \/ ~New(j).via)

AnyCompatible(x, y) == TRUE
\* May the order fallback pair these two?
Compatible(x, y) == (Known(x) /\ Known(y)) \/ x.form = y.form

SameSubject(x, y) == x.subject = y.subject /\ x.subject # NoSubject

AddsMatch(x, y) == x.form = "raises" /\ y.form = "pattern" /\ x.check = y.check /\ x.check # NoCheck

FitsByItself(stage, x, y) ==
    \/ stage = "text" /\ x.text = y.text
    \/ stage = "tree" /\ python /\ x.tree = y.tree /\ x.tree # NoTree
    \/ stage = "key" /\ x.form = y.form /\ x.left = y.left
    \/ stage = "order" /\ Compatible(x, y)
    \/ stage = "raises" /\ python /\ AddsMatch(x, y)

Fits(stage, x, y) ==
    \/ stage = "context" /\ x.text = y.text /\ x.context = y.context
    \/ FitsByItself(stage, x, y)

Fitting(i) == {j \in DOMAIN after : Offered(j) /\ Fits(pass.stage, Old(i), New(j))}

Weaker(x, y) == Known(x) /\ (~Known(y) \/ y.strength < x.strength)

\* rank = (a.form != b.form, weaker), then span order
Rank(x, y) == (IF x.form # y.form THEN 2 ELSE 0) + (IF Weaker(x, y) THEN 1 ELSE 0)

Ahead(x, j, k) ==
    \/ Rank(x, New(j)) < Rank(x, New(k))
    \/ Rank(x, New(j)) = Rank(x, New(k)) /\ j <= k

\* #434 A: the order fallback of a Python unit's own assertions prefers what
\* checks the same subject.
SubjectFirst == python /\ pass = [round |-> "own", stage |-> "order"]

NoPartners(i) == {}
SubjectPartners(i) ==
    {j \in Fitting(i) : SubjectFirst /\ SameSubject(Old(i), New(j))}

Chosen(i, j) ==
    \/ /\ j \in SubjectPartners(i)
       /\ \A k \in SubjectPartners(i) : Ahead(Old(i), j, k)
    \/ /\ SubjectPartners(i) = {}
       /\ \A k \in Fitting(i) : j <= k

-----------------------------------------------------------------------------
\* Still without a partner, of this round.
Open(i) == partner[i] = 0 /\ Old(i).via = (pass.round = "via")

Turn(i) ==
    /\ pass # Done
    /\ i > at /\ Open(i)
    /\ \A k \in DOMAIN before : at < k /\ k < i => ~Open(k)
    /\ at' = i
    /\ UNCHANGED <<unit, pass>>

Pair(i) ==
    /\ Turn(i)
    /\ \E j \in Fitting(i) :
          /\ Chosen(i, j)
          /\ partner' = [partner EXCEPT ![i] = j]
    /\ fallback' = IF pass.stage = "order" THEN fallback \cup {i} ELSE fallback

Miss(i) ==
    /\ Turn(i)
    /\ Fitting(i) = {}
    /\ UNCHANGED <<partner, fallback>>

After(p) ==
    CASE p.stage = "context" -> [p EXCEPT !.stage = "text"]
      [] p.stage = "text"    -> [p EXCEPT !.stage = "tree"]
      [] p.stage = "tree"    -> [p EXCEPT !.stage = "key"]
      [] p.stage = "key"     -> [p EXCEPT !.stage = "order"]
      [] p.stage = "order" /\ p.round = "own" -> [p EXCEPT !.stage = "raises"]
      [] p.stage = "order" /\ p.round = "via" -> Done
      [] OTHER               -> [round |-> "via", stage |-> "context"]

NextPass ==
    /\ pass # Done
    /\ \A i \in DOMAIN before : at < i => ~Open(i)
    /\ pass' = After(pass)
    /\ at' = 0
    /\ UNCHANGED <<unit, partner, fallback>>

Next == (\E i \in DOMAIN before : Pair(i) \/ Miss(i)) \/ NextPass

Spec == Init /\ [][Next]_vars

-----------------------------------------------------------------------------
\* Nothing is paired twice, and own assertions only with own ones.
TypeOK ==
    /\ pass = Done \/ pass \in [round : Rounds, stage : {Stages[n] : n \in DOMAIN Stages}]
    /\ at \in 0..Len(before)
    /\ partner \in [DOMAIN before -> 0..Len(after)]
    /\ fallback \subseteq {i \in DOMAIN before : partner[i] # 0}
    /\ \A i, k \in DOMAIN before : partner[i] = partner[k] /\ partner[i] # 0 => i = k
    /\ \A i \in DOMAIN before : partner[i] # 0 /\ ~Old(i).via => ~New(partner[i]).via

OwnOld == {i \in DOMAIN before : ~Old(i).via}
OwnNew == {j \in DOMAIN after : ~New(j).via}

SameContext(x, y) == x.text = y.text /\ x.context = y.context
SameText(x, y)    == x.text = y.text

\* A twin is given up only for another twin of the same assertion: whatever
\* was inserted, moved or weakened around it, as many assertions of one text
\* and context, and as many of one text, are paired with their like as there
\* are on both sides.  ("inserting a new case mid-function shifted every later
\* pairing by one: the untouched assertion paired with the inserted twin".)
TwinsArePaired ==
    pass = Done =>
        \A i \in OwnOld, j \in OwnNew :
            /\ SameContext(Old(i), New(j)) =>
                  \/ partner[i] # 0 /\ SameContext(Old(i), New(partner[i]))
                  \/ \E k \in OwnOld : partner[k] = j /\ SameContext(Old(k), New(j))
            /\ SameText(Old(i), New(j)) =>
                  \/ partner[i] # 0 /\ SameText(Old(i), New(partner[i]))
                  \/ \E k \in OwnOld : partner[k] = j /\ SameText(Old(k), New(j))

\* An own assertion is reported as removed only if the new side has fewer of
\* its class, the classified ones or those of one unclassified form: every
\* one that is there answers for another old one of the class.  (SPEC section
\* 3: "Their removal still counts for ASSERT_REMOVED"; and a rewritten unit
\* of as many checks loses none.)
RemovedOnlyIfFewer ==
    pass = Done =>
        \A i \in OwnOld, j \in OwnNew :
            partner[i] = 0 /\ SameClass(Old(i), New(j)) =>
                \E k \in OwnOld : partner[k] = j /\ SameClass(Old(k), New(j))

\* No decoy: an old assertion paired by order takes another subject's
\* assertion only if every compatible one of its own subject stands for
\* another old assertion.  (SPEC section 4: "a weakening that still reads the
\* old subject takes the old assertion's place ahead of a decoy on another
\* subject in either order".)
NoDecoy ==
    pass = Done /\ python =>
        \A i \in OwnOld \cap fallback, j \in OwnNew :
            /\ SameSubject(Old(i), New(j)) /\ Compatible(Old(i), New(j))
            /\ ~SameSubject(Old(i), New(partner[i]))
            => Taken(j)

=============================================================================
