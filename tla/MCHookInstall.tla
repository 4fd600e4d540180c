---------------------------- MODULE MCHookInstall ----------------------------
EXTENDS HookInstall

CONSTANTS Old, New, Mine

\* A file with groups under one event.
One(e, groups) == Text([x \in Events |-> IF x = e THEN groups ELSE << >>])

A == <<[kind |-> "plain", hooks |-> <<Old, Mine>>]>>
B == <<[kind |-> "plain", hooks |-> <<Mine, Old, New>>], [kind |-> "user", hooks |-> <<Old>>]>>
C == <<[kind |-> "plain", hooks |-> <<Mine>>], [kind |-> "plain", hooks |-> <<Old>>], [kind |-> "plain", hooks |-> <<New>>]>>
D == <<[kind |-> "plain", hooks |-> <<Old>>], [kind |-> "matched", hooks |-> <<Old, Mine>>]>>

\* Files with managed handlers of two runtimes in one group, in several, in a
\* group of the user's and in one of another event's kind.
RaceContents ==
    [s \in Scopes |->
        IF s = "shared" THEN {NoFile, Linked, One("Stop", A)}
        ELSE {NoFile, Bad, One("Stop", B), One("SessionStart", C), One("PreToolUse", D)}]
RaceEdits == {Bad, One("Stop", <<[kind |-> "user", hooks |-> <<Mine>>]>>)}

=============================================================================
