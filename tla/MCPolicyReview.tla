---------------------------- MODULE MCPolicyReview ----------------------------
(* Small instances of PolicyReview for TLC. *)
EXTENDS PolicyReview, TLC

CONSTANTS k1, r1

OneRule == k1 :> r1

\* The default table, one that takes the tests out of review, and one that
\* takes the policy's own files out as well.
SomeTables == {"usual", "no tests", "nothing"}
SomeGuards == [t \in SomeTables |-> IF t = "nothing" THEN {} ELSE Files]
SomeJudges == [t \in SomeTables |-> IF t = "usual" THEN Keys ELSE {}]

Config(failOn, blocks, disabled) ==
    [Empty EXCEPT !.bytes = TRUE,
                  !.policy = [failOn |-> failOn, blocks |-> blocks, disabled |-> disabled, roles |-> Usual]]
Tabled(table) == [Config(High, FALSE, {}) EXCEPT !.policy.roles = table]
Ledgered(entries) == [Empty EXCEPT !.bytes = TRUE, !.entries = entries]

Plain  == Config(High, FALSE, {})
Strict == Config(High, TRUE, {})
Lax    == Config(High, FALSE, {r1})
Raised == Config(Critical, TRUE, {})
Odd    == [Strict EXCEPT !.odd = TRUE]
Untested == Tabled("no tests")
Blind    == Tabled("nothing")
Broken == [Plain EXCEPT !.parses = FALSE]

e1 == [key |-> k1, created |-> 0, expires |-> 1]
e2 == [key |-> k1, created |-> 0, expires |-> 0]

Tree(cc, gc, ca, ga, x) ==
    [p \in Paths |-> CASE p = File("checkwash", "config") -> cc
                       [] p = File("greenwash", "config") -> gc
                       [] p = File("checkwash", "allow")  -> ca
                       [] p = File("greenwash", "allow")  -> ga
                       [] OTHER -> x]

SomeBases ==
    {Tree(cc, gc, None, None, None) : cc \in {None, Lax}, gc \in {None, Strict}}
    \cup {Tree(None, None, ca, ga, Ledgered(<<e2>>))
            : ca \in {None, Empty}, ga \in {Broken, Ledgered(<<e1>>)}}

SomeTexts ==
    [p \in Paths |->
        CASE p = File("checkwash", "config") -> {None, Empty, Strict, Lax, Raised, Broken, Untested, Blind}
          [] p = File("greenwash", "config") -> {None, Empty, Lax, Blind}
          [] p = File("checkwash", "allow")  -> {None, Empty, Ledgered(<<e1>>), Ledgered(<<e2>>), Strict}
          [] p = File("greenwash", "allow")  -> {None, Empty, Ledgered(<<e2>>)}
          [] OTHER -> {None, Strict}]

\* Files come and go, and none is empty.
SomeRenames == [p \in Paths |-> SomeTexts[p] \ {Empty}]

===============================================================================
