------------------------------- MODULE MCGates -------------------------------
(***************************************************************************)
(* Two assertions with one text in two contexts, and a smoke test without  *)
(* any: a deletion may find the right text and the wrong context.          *)
(***************************************************************************)
EXTENDS Gates

MCText == [a |-> "t", b |-> "t"]
MCProof == [a |-> {"ka"}, b |-> {"kb"}]

Loss(rule, lost, proved, vanished, context) ==
    [rule |-> rule, lost |-> lost, proved |-> proved, vanished |-> vanished, context |-> context]

MCLosses ==
    {Loss("ASSERT_REMOVED", {"a"}, {"a"}, FALSE, "no"),
     Loss("ASSERT_REMOVED", {"b"}, {}, FALSE, "no"),
     Loss("TEST_DISABLED", {"a", "b"}, {"a", "b"}, TRUE, "pair"),
     Loss("TEST_DISABLED", {}, {}, TRUE, "smoke"),
     Loss("TEST_DISABLED", {}, {}, FALSE, "no"),
     Loss("EXPECTED_VALUE_CHANGED", {}, {}, FALSE, "no"),
     Loss("ASSERT_WEAKENED", {}, {}, FALSE, "no"),
     Loss("ASSERT_SUBSTITUTED", {}, {}, FALSE, "no"),
     Loss("GUARDRAIL_TOUCHED", {}, {}, FALSE, "no")}

Arrive(gained, proved, context) ==
    [gained |-> gained, proved |-> proved, context |-> context]

MCArrivals ==
    {Arrive({"a", "b"}, {"a", "b"}, "pair"), Arrive({"a"}, {"a"}, "no"),
     Arrive({"b"}, {"b"}, "no"), Arrive({"a"}, {}, "no"), Arrive({}, {}, "smoke")}
=============================================================================
