-------------------------- MODULE MCWorktreeChanges --------------------------
(* Small instances of WorktreeChanges for TLC. *)
EXTENDS WorktreeChanges, TLC

CONSTANTS lf, crlf, other, huge, c0, c1

\* Textual CRLF is LF; everything else is its own key.
TextKey == [c \in Contents |-> IF c = crlf THEN lf ELSE c]

Tree(x1, x2, x3, x4) == [p \in Paths |-> CASE p = 1 -> x1 [] p = 2 -> x2 [] p = 3 -> x3 [] OTHER -> x4]

At(trees, h, dirty, m) ==
    [tree |-> trees, head |-> h, index |-> trees[h], work |-> dirty, moves |-> m]

\* Repositories that others change during the call: between the commits one
\* file is weakened, another comes, goes or turns into a submodule or back.
Histories == {[c \in Commits |-> IF c = c0 THEN Tree(lf, y[1], None, None) ELSE Tree(other, y[2], None, None)]
                : y \in {<<None, lf>>, <<lf, None>>, <<Link, lf>>, <<lf, Link>>}}
Moving == {At(t, h, [t[h] EXCEPT ![1] = x], 2) : t \in Histories, h \in Commits, x \in {lf, other}}

\* Repositories at rest: every combination of deletions and arrivals.
Leaves == {lf, crlf, other}
Moved  == {<<x, None>> : x \in Leaves} \cup {<<None, x>> : x \in Leaves} \cup {<<None, None>>, <<huge, None>>, <<lf, other>>}
Resting == {At([c \in Commits |-> Tree(m1[1], m2[1], m3[1], m4[1])], c0,
               Tree(m1[2], m2[2], m3[2], m4[2]), 0)
              : m1, m2, m3 \in Moved, m4 \in {<<lf, None>>, <<None, crlf>>, <<None, huge>>}}

SmallWorlds == Moving \cup Resting

=============================================================================
