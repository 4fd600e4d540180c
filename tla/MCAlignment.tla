----------------------------- MODULE MCAlignment -----------------------------
EXTENDS Alignment

\* Two equal checks in different contexts, one of them respelled, a weaker one
\* of the same subject, one of another subject, a raises call without and
\* with a match, and a check that a helper lends the test.
Assertion(text, context, tree, form, left, strength, subject, check) ==
    [text |-> text, context |-> context, tree |-> tree, form |-> form, left |-> left,
     strength |-> strength, subject |-> subject, check |-> check, via |-> FALSE]

Lent(x) == [x EXCEPT !.via = TRUE, !.subject = NoSubject]

Plain == Assertion("x == 1", "first", "x1", "eq", "x", 90, "x first", NoCheck)
Match == Assertion("raises E match", "first", "rEm", "pattern", "none", 60, NoSubject, "E")

MCKinds == {
    Plain, Match, Lent(Plain),
    Assertion("x == 1", "later", "x1", "eq", "x", 90, "x later", NoCheck),
    Assertion("x==1", "first", "x1", "eq", "x", 90, "x first", NoCheck),
    Assertion("x", "first", "x", "truthy", "none", 20, "x first", NoCheck),
    Assertion("y == 1", "first", "y1", "eq", "y", 90, "y first", NoCheck),
    Assertion("raises E", "first", "rE", "raises", "none", Unknown, NoSubject, "E")}

=============================================================================
