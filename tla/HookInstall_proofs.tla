-------------------------- MODULE HookInstall_proofs --------------------------
(***************************************************************************)
(* For any runtimes, handlers of the user's, settings files of any length, *)
(* installers and edits: what an installer leaves runs one runtime, once   *)
(* per event, installing it again changes nothing, and what the user had   *)
(* at the installer's last look is kept.                                   *)
(***************************************************************************)
EXTENDS HookInstall, SequenceTheorems, WellFoundedInduction, TLAPS

-----------------------------------------------------------------------------
(* Induction, for a set of numbers in the place of a predicate.            *)

LEMMA LeastOf ==
    ASSUME NEW S, S \subseteq Nat, S # {}
    PROVE  \E m \in S : \A k \in S : m <= k
<1> DEFINE Less == {ss \in Nat \X Nat : ss[1] < ss[2]}
<1>1. IsWellFoundedOn(Less, Nat)
  BY NatLessThanWellFounded DEF OpToRel
<1>2. \A k, m \in Nat : k < m => <<k, m>> \in Less
  OBVIOUS
<1> HIDE DEF Less
<1>3. PICK m \in S : \A k \in S : ~(<<k, m>> \in Less)
  BY <1>1, WFMin
<1>4. m \in Nat /\ \A k \in S : k \in Nat /\ ~(k < m)
  BY <1>2, <1>3
<1>5. \A k \in S : m <= k
  BY <1>4
<1> QED
  BY <1>3, <1>5

LEMMA Induction ==
    ASSUME NEW S, 0 \in S, \A n \in Nat : n \in S => n + 1 \in S
    PROVE  Nat \subseteq S
<1> SUFFICES ASSUME Nat \ S # {} PROVE FALSE
  OBVIOUS
<1>1. PICK m \in Nat \ S : \A k \in Nat \ S : m <= k
  <2> DEFINE Missing == Nat \ S
  <2>1. Missing \subseteq Nat /\ Missing # {}
    OBVIOUS
  <2> HIDE DEF Missing
  <2>2. \E m \in Missing : \A k \in Missing : m <= k
    BY <2>1, LeastOf
  <2> QED
    BY <2>2 DEF Missing
<1>2. m # 0
  BY <1>1
<1>3. m - 1 \in Nat /\ (m - 1) + 1 = m /\ ~(m <= m - 1)
  BY <1>1, <1>2
<1>4. m - 1 \in S
  BY <1>1, <1>3
<1> QED
  BY <1>1, <1>3, <1>4

-----------------------------------------------------------------------------
(* What Without returns.                                                   *)

KeepStep(kept, seq, dropped, n) ==
    IF n = 0 THEN << >>
    ELSE IF seq[n] \in dropped THEN kept[n - 1] ELSE Append(kept[n - 1], seq[n])

Kept(seq, dropped) == CHOOSE kept : kept = [n \in 0 .. Len(seq) |-> KeepStep(kept, seq, dropped, n)]

LEMMA WithoutIsKept ==
    ASSUME NEW seq, NEW dropped
    PROVE  Without(seq, dropped) = Kept(seq, dropped)[Len(seq)]
BY DEF Without, Kept, KeepStep

\* The recursion has a solution, so Kept is one.
LEMMA KeptIs ==
    ASSUME NEW seq, Len(seq) \in Nat, NEW dropped
    PROVE  Kept(seq, dropped) = [n \in 0 .. Len(seq) |-> KeepStep(Kept(seq, dropped), seq, dropped, n)]
<1> DEFINE Solves(kept, m) == kept = [n \in 0 .. m |-> KeepStep(kept, seq, dropped, n)]
           S == {m \in Nat : \E kept : Solves(kept, m)}
<1>1. 0 \in S
  <2>1. Solves([n \in 0 .. 0 |-> << >>], 0)
    BY DEF KeepStep
  <2> QED
    BY <2>1
<1>2. ASSUME NEW m \in Nat, m \in S PROVE m + 1 \in S
  <2>1. PICK kept : Solves(kept, m)
    BY <1>2
  <2> DEFINE more == [n \in 0 .. m + 1 |-> IF n = m + 1 THEN KeepStep(kept, seq, dropped, n) ELSE kept[n]]
  <2>2. ASSUME NEW n \in 0 .. m + 1 PROVE more[n] = KeepStep(more, seq, dropped, n)
    <3>1. n # 0 => n - 1 \in 0 .. m /\ more[n - 1] = kept[n - 1]
      BY <2>2
    <3>2. KeepStep(more, seq, dropped, n) = KeepStep(kept, seq, dropped, n)
      BY <3>1 DEF KeepStep
    <3>3. n # m + 1 => n \in 0 .. m /\ kept[n] = KeepStep(kept, seq, dropped, n)
      BY <2>1, <2>2
    <3> QED
      BY <3>2, <3>3
  <2>3. Solves(more, m + 1)
    <3> DEFINE same == [n \in 0 .. m + 1 |-> KeepStep(more, seq, dropped, n)]
    <3>1. \A n \in 0 .. m + 1 : more[n] = same[n]
      BY <2>2
    <3>2. more = [n \in 0 .. m + 1 |-> more[n]] /\ same = [n \in 0 .. m + 1 |-> same[n]]
      OBVIOUS
    <3>3. more = same
      <4> HIDE DEF more, same
      <4> QED
        BY <3>1, <3>2
    <3> HIDE DEF more
    <3> QED
      BY <3>3
  <2>4. \E longer : Solves(longer, m + 1)
    <3> HIDE DEF more, Solves
    <3> QED
      BY <2>3
  <2> QED
    BY <2>4
<1> HIDE DEF S
<1>3. Len(seq) \in S
  BY <1>1, <1>2, Induction
<1>4. \E kept : Solves(kept, Len(seq))
  BY <1>3 DEF S
<1> QED
  BY <1>4 DEF Kept

LEMMA KeptStep ==
    ASSUME NEW seq, Len(seq) \in Nat, NEW dropped, NEW n \in 0 .. Len(seq)
    PROVE  Kept(seq, dropped)[n] = KeepStep(Kept(seq, dropped), seq, dropped, n)
<1> DEFINE kept == Kept(seq, dropped)
<1>1. kept = [m \in 0 .. Len(seq) |-> KeepStep(kept, seq, dropped, m)]
  BY KeptIs
<1> HIDE DEF kept
<1>2. kept[n] = KeepStep(kept, seq, dropped, n)
  BY <1>1
<1> QED
  BY <1>2 DEF kept

\* Only elements outside the set are left.
LEMMA WithoutTyped ==
    ASSUME NEW Elements, NEW seq \in Seq(Elements), NEW dropped
    PROVE  Without(seq, dropped) \in Seq(Elements \ dropped)
<1> DEFINE kept == Kept(seq, dropped)
           S == {m \in Nat : m <= Len(seq) => kept[m] \in Seq(Elements \ dropped)}
<1>0. Len(seq) \in Nat /\ \A n \in 1 .. Len(seq) : seq[n] \in Elements
  OBVIOUS
<1>1. \A n \in 0 .. Len(seq) : kept[n] = KeepStep(kept, seq, dropped, n)
  BY <1>0, KeptStep
<1> HIDE DEF kept
<1>2. 0 \in S
  <2>1. kept[0] = << >>
    BY <1>0, <1>1 DEF KeepStep
  <2>2. << >> \in Seq(Elements \ dropped)
    OBVIOUS
  <2> QED
    BY <2>1, <2>2
<1>3. ASSUME NEW m \in Nat, m \in S PROVE m + 1 \in S
  <2> SUFFICES ASSUME m + 1 <= Len(seq) PROVE kept[m + 1] \in Seq(Elements \ dropped)
    OBVIOUS
  <2>1. kept[m + 1] = IF seq[m + 1] \in dropped THEN kept[m] ELSE Append(kept[m], seq[m + 1])
    BY <1>0, <1>1 DEF KeepStep
  <2>2. kept[m] \in Seq(Elements \ dropped)
    BY <1>0, <1>3
  <2> QED
    BY <1>0, <2>1, <2>2
<1> HIDE DEF S
<1>4. Len(seq) \in S
  BY <1>0, <1>2, <1>3, Induction
<1>5. kept[Len(seq)] \in Seq(Elements \ dropped)
  BY <1>0, <1>4 DEF S
<1> QED
  BY <1>5, WithoutIsKept DEF kept

\* Nothing to leave out, nothing changes.
LEMMA WithoutNone ==
    ASSUME NEW Elements, NEW seq \in Seq(Elements), NEW dropped, Elements \cap dropped = {}
    PROVE  Without(seq, dropped) = seq
<1> DEFINE kept == Kept(seq, dropped)
           S == {m \in Nat : m <= Len(seq) => kept[m] = SubSeq(seq, 1, m)}
<1>0. Len(seq) \in Nat /\ \A n \in 1 .. Len(seq) : seq[n] \in Elements
  OBVIOUS
<1>1. \A n \in 0 .. Len(seq) : kept[n] = KeepStep(kept, seq, dropped, n)
  BY <1>0, KeptStep
<1> HIDE DEF kept
<1>2. 0 \in S
  <2>1. kept[0] = << >>
    BY <1>0, <1>1 DEF KeepStep
  <2>2. SubSeq(seq, 1, 0) = << >>
    OBVIOUS
  <2> QED
    BY <2>1, <2>2
<1>3. ASSUME NEW m \in Nat, m \in S PROVE m + 1 \in S
  <2> SUFFICES ASSUME m + 1 <= Len(seq) PROVE kept[m + 1] = SubSeq(seq, 1, m + 1)
    OBVIOUS
  <2>1. kept[m + 1] = IF seq[m + 1] \in dropped THEN kept[m] ELSE Append(kept[m], seq[m + 1])
    BY <1>0, <1>1 DEF KeepStep
  <2>2. kept[m] = SubSeq(seq, 1, m) /\ seq[m + 1] \notin dropped
    BY <1>0, <1>3
  <2>3. SubSeq(seq, 1, m + 1) = Append(SubSeq(seq, 1, m), seq[m + 1])
    BY <1>0, SubSeqRecursiveSecond
  <2> QED
    BY <2>1, <2>2, <2>3
<1> HIDE DEF S
<1>4. Len(seq) \in S
  BY <1>0, <1>2, <1>3, Induction
<1>5. SubSeq(seq, 1, Len(seq)) = seq
  BY SubSeqFull
<1>6. kept[Len(seq)] = seq
  BY <1>0, <1>4, <1>5 DEF S
<1> QED
  BY <1>6, WithoutIsKept DEF kept

\* An element at the end comes last, or not at all.
LEMMA WithoutAppend ==
    ASSUME NEW Elements, NEW seq \in Seq(Elements), NEW x \in Elements, NEW dropped
    PROVE  Without(Append(seq, x), dropped) =
             IF x \in dropped THEN Without(seq, dropped) ELSE Append(Without(seq, dropped), x)
<1> DEFINE longer == Append(seq, x)
           long   == Kept(longer, dropped)
           kept   == Kept(seq, dropped)
           S      == {m \in Nat : m <= Len(seq) => long[m] = kept[m]}
<1>0. /\ Len(seq) \in Nat /\ Len(longer) = Len(seq) + 1
      /\ longer[Len(seq) + 1] = x
      /\ \A n \in 1 .. Len(seq) : longer[n] = seq[n]
  BY AppendProperties
<1> HIDE DEF longer
<1>1. /\ \A n \in 0 .. Len(seq) : kept[n] = KeepStep(kept, seq, dropped, n)
      /\ \A n \in 0 .. Len(seq) + 1 : long[n] = KeepStep(long, longer, dropped, n)
  BY <1>0, KeptStep
<1>w. /\ Without(seq, dropped) = kept[Len(seq)]
      /\ Without(longer, dropped) = long[Len(seq) + 1]
  BY <1>0, WithoutIsKept
<1> HIDE DEF kept, long
<1>2. 0 \in S
  BY <1>0, <1>1 DEF KeepStep
<1>3. ASSUME NEW m \in Nat, m \in S PROVE m + 1 \in S
  <2> SUFFICES ASSUME m + 1 <= Len(seq) PROVE long[m + 1] = kept[m + 1]
    OBVIOUS
  <2>1. /\ m + 1 \in 0 .. Len(seq) /\ m + 1 \in 0 .. Len(seq) + 1 /\ m + 1 # 0
        /\ (m + 1) - 1 = m /\ longer[m + 1] = seq[m + 1] /\ long[m] = kept[m]
    BY <1>0, <1>3
  <2> QED
    BY <1>1, <2>1 DEF KeepStep
<1> HIDE DEF S
<1>4. Len(seq) \in S
  BY <1>0, <1>2, <1>3, Induction
<1>5. long[Len(seq)] = kept[Len(seq)]
  BY <1>0, <1>4 DEF S
<1>6. long[Len(seq) + 1] = IF x \in dropped THEN long[Len(seq)] ELSE Append(long[Len(seq)], x)
  BY <1>0, <1>1 DEF KeepStep
<1> QED
  BY <1>5, <1>6, <1>w DEF longer

-----------------------------------------------------------------------------
(* What the merge of one event does to its groups.                         *)

Handlers == Runtimes \cup Customs
User     == Handlers \ Runtimes

LEMMA UnmanagedTyped ==
    ASSUME NEW hooks \in Seq(Handlers)
    PROVE  Unmanaged(hooks) \in Seq(User) /\ Unmanaged(hooks) \in Seq(Handlers)
<1>1. Unmanaged(hooks) \in Seq(User)
  BY WithoutTyped DEF Unmanaged, User
<1>2. User \subseteq Handlers
  BY DEF User
<1> QED
  BY <1>1, <1>2, SeqMonotonic

LEMMA UnmanagedAgain ==
    ASSUME NEW hooks \in Seq(Handlers)
    PROVE  Unmanaged(Unmanaged(hooks)) = Unmanaged(hooks)
<1>1. User \cap Runtimes = {}
  BY DEF User
<1> QED
  BY <1>1, UnmanagedTyped, WithoutNone DEF Unmanaged

LEMMA UnmanagedAppend ==
    ASSUME NEW hooks \in Seq(Handlers), NEW r \in Runtimes
    PROVE  Unmanaged(Append(hooks, r)) = Unmanaged(hooks)
BY WithoutAppend DEF Unmanaged, Handlers

LEMMA UnmanagedNothing == Unmanaged(<< >>) = << >>
<1>1. << >> \in Seq(User) /\ User \cap Runtimes = {}
  BY DEF User
<1> QED
  BY <1>1, WithoutNone DEF Unmanaged

\* One group without its managed handlers.
ClearedGroup(e, g) == IF Owned(e, g) THEN [kind |-> g.kind, hooks |-> Unmanaged(g.hooks)] ELSE g

LEMMA GroupsAre == Groups = [kind : Kinds, hooks : Seq(Handlers)]
BY DEF Groups, Handlers

LEMMA GroupAt ==
    ASSUME NEW groups \in Seq(Groups), NEW n \in 1 .. Len(groups)
    PROVE  /\ groups[n] \in Groups
           /\ groups[n].kind \in Kinds
           /\ groups[n].hooks \in Seq(Handlers)
<1>1. groups[n] \in Groups
  BY ElementOfSeq
<1> QED
  BY <1>1, GroupsAre

LEMMA ClearedGroupTyped ==
    ASSUME NEW e, NEW g \in Groups
    PROVE  /\ ClearedGroup(e, g) \in Groups
           /\ ClearedGroup(e, g).kind = g.kind
           /\ ClearedGroup(e, ClearedGroup(e, g)) = ClearedGroup(e, g)
<1>1. g.kind \in Kinds /\ g.hooks \in Seq(Handlers) /\ g = [kind |-> g.kind, hooks |-> g.hooks]
  BY GroupsAre
<1>2. Unmanaged(g.hooks) \in Seq(Handlers) /\ Unmanaged(Unmanaged(g.hooks)) = Unmanaged(g.hooks)
  BY <1>1, UnmanagedTyped, UnmanagedAgain
<1> QED
  BY <1>1, <1>2, GroupsAre DEF ClearedGroup, Owned

LEMMA ClearedIs ==
    ASSUME NEW e, NEW groups \in Seq(Groups)
    PROVE  /\ Cleared(e, groups) = [n \in 1 .. Len(groups) |-> ClearedGroup(e, groups[n])]
           /\ Cleared(e, groups) \in Seq(Groups)
           /\ Len(Cleared(e, groups)) = Len(groups)
<1>1. DOMAIN groups = 1 .. Len(groups) /\ Len(groups) \in Nat
      /\ \A n \in 1 .. Len(groups) : groups[n] \in Groups
  OBVIOUS
<1>2. ASSUME NEW n \in 1 .. Len(groups)
      PROVE  (IF Owned(e, groups[n]) THEN [groups[n] EXCEPT !.hooks = Unmanaged(@)] ELSE groups[n])
                = ClearedGroup(e, groups[n])
  <2>1. groups[n] \in [kind : Kinds, hooks : Seq(Handlers)]
    BY <1>1, <1>2, GroupsAre
  <2> QED
    BY <2>1 DEF ClearedGroup
<1>3. Cleared(e, groups) = [n \in 1 .. Len(groups) |-> ClearedGroup(e, groups[n])]
  BY <1>1, <1>2 DEF Cleared
<1>4. \A n \in 1 .. Len(groups) : ClearedGroup(e, groups[n]) \in Groups
  BY <1>1, ClearedGroupTyped
<1>5. [n \in 1 .. Len(groups) |-> ClearedGroup(e, groups[n])] \in Seq(Groups)
  BY <1>1, <1>4, IsASeq
<1> QED
  BY <1>1, <1>3, <1>5

\* The place of a managed handler.
LEMMA MatchIs ==
    ASSUME NEW e, NEW groups \in Seq(Groups), NEW m
    PROVE  m \in Matches(e, groups) <=>
             \E n \in 1 .. Len(groups) : \E k \in 1 .. Len(groups[n].hooks) :
                 m = <<n, k>> /\ Owned(e, groups[n]) /\ groups[n].hooks[k] \in Runtimes
<1>1. \A n \in 1 .. Len(groups) : groups[n].hooks \in Seq(Handlers)
  BY GroupAt
<1>2. \A n \in 1 .. Len(groups) : DOMAIN groups[n].hooks = 1 .. Len(groups[n].hooks)
  BY <1>1
<1>3. DOMAIN groups = 1 .. Len(groups)
  OBVIOUS
<1> QED
  BY <1>2, <1>3 DEF Matches

Single(e, groups, r) ==
    \E m \in Matches(e, groups) :
        Matches(e, groups) = {m} /\ groups[m[1]].hooks[m[2]] = r

\* The three outcomes of a merge.
Appended(e, groups, r) == Append(groups, InstallerGroup(e, r))
Placed(e, groups, r, f) ==
    [Cleared(e, groups) EXCEPT ![f].hooks = Append(@, r)]

LEMMA MergeIs ==
    ASSUME NEW e, NEW groups \in Seq(Groups), NEW r
    PROVE  \/ Merge(e, groups, r) = groups /\ Single(e, groups, r)
           \/ Merge(e, groups, r) = Appended(e, groups, r) /\ Matches(e, groups) = {}
           \/ \E f \in 1 .. Len(groups) :
                 Owned(e, groups[f]) /\ Merge(e, groups, r) = Placed(e, groups, r, f)
<1> DEFINE matches == Matches(e, groups)
           Foremost(m) == m \in matches /\ \A other \in matches : m[1] <= other[1]
           first == CHOOSE m \in matches : \A other \in matches : m[1] <= other[1]
<1>1. CASE Single(e, groups, r)
  BY <1>1 DEF Merge, Single
<1>2. CASE ~Single(e, groups, r) /\ matches = {}
  BY <1>2 DEF Merge, Single, Appended
<1>3. CASE ~Single(e, groups, r) /\ matches # {}
  <2> DEFINE places == {m[1] : m \in matches}
  <2>1. \A m \in matches : m[1] \in 1 .. Len(groups) /\ Owned(e, groups[m[1]])
    BY MatchIs
  <2>2. places \subseteq Nat /\ places # {}
    BY <1>3, <2>1
  <2> HIDE DEF matches
  <2>3. PICK least \in places : \A n \in places : least <= n
    <3> HIDE DEF places
    <3> QED
      BY <2>2, LeastOf
  <2>4. \E m \in matches : \A other \in matches : m[1] <= other[1]
    BY <2>3
  <2>5. first \in matches
    BY <2>4
  <2>6. Merge(e, groups, r) = Placed(e, groups, r, first[1])
    BY <1>3 DEF Merge, Single, Placed, matches
  <2> HIDE DEF first
  <2> QED
    BY <2>1, <2>5, <2>6
<1> QED
  BY <1>1, <1>2, <1>3

LEMMA InstallerGroupTyped ==
    ASSUME NEW e, NEW r \in Runtimes
    PROVE  InstallerGroup(e, r) \in Groups
BY GroupsAre DEF InstallerGroup, OwnKind, Kinds, Handlers

\* The groups after the handler took the place of the managed ones.
LEMMA PlacedIs ==
    ASSUME NEW e, NEW groups \in Seq(Groups), NEW r \in Runtimes, NEW f \in 1 .. Len(groups),
           Owned(e, groups[f])
    PROVE  /\ Placed(e, groups, r, f) \in Seq(Groups)
           /\ Len(Placed(e, groups, r, f)) = Len(groups)
           /\ \A n \in 1 .. Len(groups) : n # f => Placed(e, groups, r, f)[n] = ClearedGroup(e, groups[n])
           /\ Placed(e, groups, r, f)[f] =
                [kind |-> groups[f].kind, hooks |-> Append(Unmanaged(groups[f].hooks), r)]
<1> DEFINE clear == Cleared(e, groups)
           g == [kind |-> groups[f].kind, hooks |-> Append(Unmanaged(groups[f].hooks), r)]
<1>1. clear \in Seq(Groups) /\ Len(clear) = Len(groups)
      /\ \A n \in 1 .. Len(groups) : clear[n] = ClearedGroup(e, groups[n])
  BY ClearedIs
<1>2. clear[f] = [kind |-> groups[f].kind, hooks |-> Unmanaged(groups[f].hooks)]
  BY <1>1 DEF ClearedGroup
<1>3. groups[f].kind \in Kinds /\ groups[f].hooks \in Seq(Handlers)
  BY GroupAt
<1>4. Append(Unmanaged(groups[f].hooks), r) \in Seq(Handlers)
  BY <1>3, UnmanagedTyped, AppendProperties DEF Handlers
<1>5. g \in Groups
  BY <1>3, <1>4, GroupsAre
<1>6. Placed(e, groups, r, f) = [clear EXCEPT ![f] = g]
  <2>1. [clear[f] EXCEPT !.hooks = Append(@, r)] = g
    <3> DEFINE hooks == Append(clear[f].hooks, r)
    <3> HIDE DEF clear
    <3>1. hooks = g.hooks
      BY <1>2
    <3>2. [clear[f] EXCEPT !.hooks = Append(@, r)] = [clear[f] EXCEPT !.hooks = hooks]
      OBVIOUS
    <3> HIDE DEF hooks
    <3>3. [clear[f] EXCEPT !.hooks = hooks] = [kind |-> groups[f].kind, hooks |-> hooks]
      BY <1>2
    <3> QED
      BY <3>1, <3>2, <3>3
  <2>2. Placed(e, groups, r, f) = [clear EXCEPT ![f] = [clear[f] EXCEPT !.hooks = Append(@, r)]]
    BY DEF Placed
  <2> QED
    BY <2>1, <2>2
<1> HIDE DEF clear, g
<1>7. [clear EXCEPT ![f] = g] \in Seq(Groups) /\ Len([clear EXCEPT ![f] = g]) = Len(clear)
  BY <1>1, <1>5, ExceptSeq
<1>8. DOMAIN clear = 1 .. Len(groups)
  BY <1>1
<1>9. [clear EXCEPT ![f] = g][f] = g
      /\ \A n \in 1 .. Len(groups) : n # f => [clear EXCEPT ![f] = g][n] = clear[n]
  BY <1>8
<1> QED
  BY <1>1, <1>6, <1>7, <1>9 DEF g

LEMMA MergeTyped ==
    ASSUME NEW e, NEW groups \in Seq(Groups), NEW r \in Runtimes
    PROVE  Merge(e, groups, r) \in Seq(Groups)
<1>1. Appended(e, groups, r) \in Seq(Groups)
  BY InstallerGroupTyped, AppendProperties DEF Appended
<1>2. \A f \in 1 .. Len(groups) : Owned(e, groups[f]) => Placed(e, groups, r, f) \in Seq(Groups)
  BY PlacedIs
<1> QED
  BY <1>1, <1>2, MergeIs

\* However many managed handlers there were, the installer's groups run one.
LEMMA MergeSingle ==
    ASSUME NEW e, NEW groups \in Seq(Groups), NEW r \in Runtimes
    PROVE  Single(e, Merge(e, groups, r), r)
<1>1. ASSUME Matches(e, groups) = {} PROVE Single(e, Appended(e, groups, r), r)
  <2> DEFINE new == Appended(e, groups, r)
             end == Len(groups) + 1
  <2>1. /\ new \in Seq(Groups) /\ Len(new) = end /\ Len(groups) \in Nat
        /\ new[end] = InstallerGroup(e, r)
        /\ \A n \in 1 .. Len(groups) : new[n] = groups[n]
    BY InstallerGroupTyped, AppendProperties DEF Appended
  <2> HIDE DEF new
  <2>2. /\ Owned(e, new[end]) /\ Len(new[end].hooks) = 1 /\ new[end].hooks[1] = r
    BY <2>1 DEF InstallerGroup, Owned
  <2>3. <<end, 1>> \in Matches(e, new)
    BY <2>1, <2>2, MatchIs
  <2>4. ASSUME NEW m \in Matches(e, new) PROVE m = <<end, 1>>
    <3>1. PICK n \in 1 .. Len(new) : \E k \in 1 .. Len(new[n].hooks) :
             m = <<n, k>> /\ Owned(e, new[n]) /\ new[n].hooks[k] \in Runtimes
      BY <2>1, <2>4, MatchIs
    <3>2. CASE n = end
      BY <2>2, <3>1, <3>2
    <3>3. CASE n # end
      <4>1. n \in 1 .. Len(groups) /\ new[n] = groups[n]
        BY <2>1, <3>1, <3>3
      <4>2. m \in Matches(e, groups)
        BY <3>1, <4>1, MatchIs
      <4> QED
        BY <1>1, <4>2
    <3> QED
      BY <3>2, <3>3
  <2>5. Matches(e, new) = {<<end, 1>>}
    BY <2>3, <2>4
  <2> QED
    BY <2>2, <2>5 DEF Single, new
<1>2. ASSUME NEW f \in 1 .. Len(groups), Owned(e, groups[f])
      PROVE  Single(e, Placed(e, groups, r, f), r)
  <2> DEFINE new  == Placed(e, groups, r, f)
             left == Unmanaged(groups[f].hooks)
             end  == Len(left) + 1
  <2>1. /\ new \in Seq(Groups) /\ Len(new) = Len(groups)
        /\ \A n \in 1 .. Len(groups) : n # f => new[n] = ClearedGroup(e, groups[n])
        /\ new[f] = [kind |-> groups[f].kind, hooks |-> Append(left, r)]
    BY <1>2, PlacedIs
  <2>2. ASSUME NEW n \in 1 .. Len(groups)
        PROVE  /\ Unmanaged(groups[n].hooks) \in Seq(User)
               /\ \A k \in 1 .. Len(Unmanaged(groups[n].hooks)) : Unmanaged(groups[n].hooks)[k] \notin Runtimes
    <3>1. Unmanaged(groups[n].hooks) \in Seq(User)
      BY GroupAt, UnmanagedTyped
    <3> QED
      BY <3>1 DEF User
  <2>3. left \in Seq(User) /\ Len(left) \in Nat /\ \A k \in 1 .. Len(left) : left[k] \notin Runtimes
    BY <2>2
  <2> HIDE DEF new, left
  <2>4. /\ Owned(e, new[f])
        /\ Len(new[f].hooks) = end /\ new[f].hooks[end] = r
        /\ \A k \in 1 .. Len(left) : new[f].hooks[k] \notin Runtimes
    BY <1>2, <2>1, <2>3 DEF Owned
  <2>5. <<f, end>> \in Matches(e, new)
    <3>1. f \in 1 .. Len(new) /\ end \in 1 .. Len(new[f].hooks)
      BY <2>1, <2>3, <2>4
    <3>2. new[f].hooks[end] \in Runtimes
      BY <2>4
    <3> QED
      BY <2>1, <2>4, <3>1, <3>2, MatchIs
  <2>6. ASSUME NEW m \in Matches(e, new) PROVE m = <<f, end>>
    <3>1. PICK n \in 1 .. Len(new) : \E k \in 1 .. Len(new[n].hooks) :
             m = <<n, k>> /\ Owned(e, new[n]) /\ new[n].hooks[k] \in Runtimes
      BY <2>1, <2>6, MatchIs
    <3>2. n = f
      <4> SUFFICES ASSUME n # f PROVE FALSE
        OBVIOUS
      <4>1. new[n] = ClearedGroup(e, groups[n]) /\ n \in 1 .. Len(groups)
        BY <2>1, <3>1
      <4>2. groups[n].kind = new[n].kind
        BY <4>1, GroupAt, ClearedGroupTyped
      <4>3. new[n].hooks = Unmanaged(groups[n].hooks)
        BY <3>1, <4>1, <4>2 DEF ClearedGroup, Owned
      <4> QED
        BY <2>2, <3>1, <4>1, <4>3
    <3>3. PICK k \in 1 .. Len(new[f].hooks) : m = <<f, k>> /\ new[f].hooks[k] \in Runtimes
      BY <3>1, <3>2
    <3>4. k = end
      BY <2>3, <2>4, <3>3
    <3> QED
      BY <3>3, <3>4
  <2>7. Matches(e, new) = {<<f, end>>}
    BY <2>5, <2>6
  <2> QED
    BY <2>4, <2>7 DEF Single, new
<1> QED
  BY <1>1, <1>2, MergeIs

LEMMA MergeAgain ==
    ASSUME NEW e, NEW groups, NEW r, Single(e, groups, r)
    PROVE  Merge(e, groups, r) = groups
BY DEF Single, Merge

\* What the user has beside the managed handlers stays, in its order.
LEMMA MergeKeepsOthers ==
    ASSUME NEW e, NEW groups \in Seq(Groups), NEW r \in Runtimes
    PROVE  Others(e, Merge(e, groups, r)) = Others(e, groups)
<1> DEFINE clear == Cleared(e, groups)
<1>0. clear \in Seq(Groups) /\ Len(clear) = Len(groups) /\ Len(groups) \in Nat
      /\ \A n \in 1 .. Len(groups) : clear[n] = ClearedGroup(e, groups[n])
  BY ClearedIs
<1>1. Others(e, Appended(e, groups, r)) = Others(e, groups)
  <2> DEFINE new  == Appended(e, groups, r)
             last == ClearedGroup(e, InstallerGroup(e, r))
  <2>1. /\ new \in Seq(Groups) /\ Len(new) = Len(groups) + 1
        /\ new[Len(groups) + 1] = InstallerGroup(e, r)
        /\ \A n \in 1 .. Len(groups) : new[n] = groups[n]
    BY InstallerGroupTyped, AppendProperties DEF Appended
  <2>2. Cleared(e, new) \in Seq(Groups) /\ Len(Cleared(e, new)) = Len(groups) + 1
        /\ \A n \in 1 .. Len(groups) + 1 : Cleared(e, new)[n] = ClearedGroup(e, new[n])
    BY <2>1, ClearedIs
  <2>3. last \in Emptied /\ last \in Groups
    <3>1. <<r>> = Append(<< >>, r) /\ << >> \in Seq(Handlers)
      OBVIOUS
    <3>2. Unmanaged(<<r>>) = << >>
      BY <3>1, UnmanagedAppend, UnmanagedNothing
    <3>3. Owned(e, InstallerGroup(e, r)) /\ InstallerGroup(e, r).hooks = <<r>>
          /\ InstallerGroup(e, r).kind \in Kinds
      BY DEF Owned, InstallerGroup, OwnKind, Kinds
    <3>4. last \in Emptied
      BY <3>2, <3>3 DEF ClearedGroup, Emptied
    <3> QED
      BY <3>4, InstallerGroupTyped, ClearedGroupTyped
  <2> HIDE DEF new, last, clear
  <2>4. /\ Append(clear, last) \in Seq(Groups) /\ Len(Append(clear, last)) = Len(groups) + 1
        /\ \A n \in 1 .. Len(groups) : Append(clear, last)[n] = clear[n]
        /\ Append(clear, last)[Len(groups) + 1] = last
    BY <1>0, <2>3, AppendProperties
  <2>5. ASSUME NEW n \in 1 .. Len(groups) + 1 PROVE Cleared(e, new)[n] = Append(clear, last)[n]
    <3>1. CASE n = Len(groups) + 1
      BY <2>1, <2>2, <2>4, <3>1 DEF last
    <3>2. CASE n \in 1 .. Len(groups)
      BY <1>0, <2>1, <2>2, <2>4, <3>2
    <3> QED
      BY <1>0, <2>5, <3>1, <3>2
  <2>6. Cleared(e, new) = Append(clear, last)
    BY <2>2, <2>4, <2>5, SeqEqual
  <2>7. Without(Append(clear, last), Emptied) = Without(clear, Emptied)
    BY <1>0, <2>3, WithoutAppend
  <2> QED
    BY <2>6, <2>7 DEF Others, new, clear
<1>2. ASSUME NEW f \in 1 .. Len(groups), Owned(e, groups[f])
      PROVE  Others(e, Placed(e, groups, r, f)) = Others(e, groups)
  <2> DEFINE new == Placed(e, groups, r, f)
  <2>1. /\ new \in Seq(Groups) /\ Len(new) = Len(groups)
        /\ \A n \in 1 .. Len(groups) : n # f => new[n] = ClearedGroup(e, groups[n])
        /\ new[f] = [kind |-> groups[f].kind, hooks |-> Append(Unmanaged(groups[f].hooks), r)]
    BY <1>2, PlacedIs
  <2> HIDE DEF new
  <2>2. Cleared(e, new) \in Seq(Groups) /\ Len(Cleared(e, new)) = Len(groups)
        /\ \A n \in 1 .. Len(groups) : Cleared(e, new)[n] = ClearedGroup(e, new[n])
    BY <2>1, ClearedIs
  <2>3. ASSUME NEW n \in 1 .. Len(groups) PROVE ClearedGroup(e, new[n]) = ClearedGroup(e, groups[n])
    <3>1. CASE n # f
      BY <2>1, <3>1, GroupAt, ClearedGroupTyped
    <3>2. CASE n = f
      <4>1. groups[f].hooks \in Seq(Handlers)
        BY GroupAt
      <4>2. Unmanaged(Append(Unmanaged(groups[f].hooks), r)) = Unmanaged(groups[f].hooks)
        BY <4>1, UnmanagedTyped, UnmanagedAgain, UnmanagedAppend
      <4> DEFINE more == Append(Unmanaged(groups[f].hooks), r)
      <4>3. new[f] = [kind |-> groups[f].kind, hooks |-> more] /\ Unmanaged(more) = Unmanaged(groups[f].hooks)
        BY <2>1, <4>2
      <4> HIDE DEF more
      <4> QED
        BY <1>2, <3>2, <4>3 DEF ClearedGroup, Owned
    <3> QED
      BY <3>1, <3>2
  <2>4. Cleared(e, new) = clear
    <3>1. \A n \in 1 .. Len(groups) : Cleared(e, new)[n] = clear[n]
      BY <1>0, <2>2, <2>3
    <3> HIDE DEF clear
    <3> QED
      BY <1>0, <2>2, <3>1, SeqEqual
  <2> QED
    BY <2>4 DEF Others, new
<1> HIDE DEF clear
<1>3. CASE Merge(e, groups, r) = groups
  BY <1>3
<1>4. CASE Merge(e, groups, r) = Appended(e, groups, r)
  BY <1>1, <1>4
<1>5. ASSUME NEW f \in 1 .. Len(groups), Owned(e, groups[f]),
             Merge(e, groups, r) = Placed(e, groups, r, f)
      PROVE  Others(e, Merge(e, groups, r)) = Others(e, groups)
  BY <1>2, <1>5
<1> QED
  BY <1>3, <1>4, <1>5, MergeIs

-----------------------------------------------------------------------------
(* Types.                                                                  *)

Readable == {NoFile} \cup Texts
Files    == {NoFile, Linked, Bad} \cup Texts

LEMMA ReadTyped ==
    ASSUME NEW content \in Readable, NEW e \in Events
    PROVE  Read(content)[e] \in Seq(Groups)
<1>1. CASE content \in Texts
  BY <1>1 DEF Texts, Settings, Read
<1>2. CASE content = NoFile
  <2>1. << >> \in Seq(Groups)
    OBVIOUS
  <2> QED
    BY <1>2, <2>1 DEF NoFile, Read
<1> QED
  BY <1>1, <1>2 DEF Readable

LEMMA MergedTyped ==
    ASSUME NEW content \in Readable, NEW r \in Runtimes, NEW scope
    PROVE  /\ Merged(content, r, scope) \in Texts
           /\ \A e \in Events : Read(Merged(content, r, scope))[e] =
                IF e \in EventsOf(scope) THEN Merge(e, Read(content)[e], r) ELSE Read(content)[e]
<1> DEFINE settings == [e \in Events |-> IF e \in EventsOf(scope) THEN Merge(e, Read(content)[e], r)
                                                                  ELSE Read(content)[e]]
<1>1. \A e \in Events : settings[e] \in Seq(Groups)
  BY ReadTyped, MergeTyped
<1>2. settings \in Settings
  BY <1>1 DEF Settings
<1>3. Merged(content, r, scope) = Text(settings)
  BY DEF Merged
<1>4. \A e \in Events : settings[e] = IF e \in EventsOf(scope) THEN Merge(e, Read(content)[e], r)
                                                              ELSE Read(content)[e]
  OBVIOUS
<1> HIDE DEF settings
<1> QED
  BY <1>2, <1>3, <1>4 DEF Text, Texts, Read

LEMMA TypeInit == Init => TypeOK
<1> SUFFICES ASSUME Init PROVE TypeOK
  OBVIOUS
<1>1. file \in [Scopes -> Files]
  BY InstallAssumption DEF Init, Scopes, Files
<1>2. proc \in [Installers -> Processes]
  <2>1. \A r \in Runtimes, mode \in Modes : Fresh(r, mode) \in Processes
    BY DEF Fresh, Processes, Steps
  <2> QED
    BY <2>1 DEF Init
<1>3. writer \in [Scopes -> Runtimes \cup {"other"}] /\ seen \in [Installers -> Files]
  BY DEF Init, Files
<1>4. temps = {}
  BY DEF Init
<1> QED
  BY <1>1, <1>2, <1>3, <1>4 DEF TypeOK, Files

\* A step of one installer moves its own program counter, and only Load
\* changes what it holds besides.
LEMMA InstallerMoves ==
    ASSUME TypeOK, NEW p \in Installers,
           Ask(p) \/ Load(p) \/ Probe(p) \/ Write(p) \/ Recheck(p) \/ Replace(p) \/ Kill(p)
    PROVE  /\ proc' \in [Installers -> Processes]
           /\ \A q \in Installers \ {p} : proc'[q] = proc[q]
           /\ ~Load(p) => proc'[p].original = proc[p].original
           /\ proc'[p].mode = proc[p].mode /\ proc'[p].runtime = proc[p].runtime
           /\ \A from, to : Goto(p, from, to) => proc[p].pc = from /\ proc'[p].pc = to
           /\ Load(p) => proc'[p].pc \in {"refused", "probe"}
<1>1. proc \in [Installers -> Processes] /\ file \in [Scopes -> Files]
  BY DEF TypeOK, Files
<1>2. ASSUME NEW from, NEW to \in Steps, Goto(p, from, to)
      PROVE  /\ proc' \in [Installers -> Processes]
             /\ \A q \in Installers \ {p} : proc'[q] = proc[q]
             /\ proc'[p].original = proc[p].original
             /\ proc'[p].mode = proc[p].mode /\ proc'[p].runtime = proc[p].runtime
             /\ proc'[p].pc = to
  <2>1. [proc[p] EXCEPT !.pc = to] \in Processes
    BY <1>1 DEF Processes
  <2> QED
    BY <1>1, <1>2, <2>1 DEF Goto, Processes
<1>3. \A from, to : Goto(p, from, to) => proc[p].pc = from /\ proc'[p].pc = to
  BY <1>1 DEF Goto, Processes
<1>4. ASSUME file[Scope(p)] \notin {Linked, Bad},
             proc' = [proc EXCEPT ![p].pc = "probe", ![p].original = file[Scope(p)]]
      PROVE  /\ proc' \in [Installers -> Processes]
             /\ \A q \in Installers \ {p} : proc'[q] = proc[q]
             /\ proc'[p].mode = proc[p].mode /\ proc'[p].runtime = proc[p].runtime
             /\ proc'[p].pc = "probe"
  <2>1. file[Scope(p)] \in {NoFile} \cup Texts
    BY <1>1, <1>4 DEF Files, Scope, Scopes
  <2>2. [proc[p] EXCEPT !.pc = "probe", !.original = file[Scope(p)]] \in Processes
    BY <1>1, <2>1 DEF Processes, Steps
  <2>3. proc' = [proc EXCEPT ![p] = [proc[p] EXCEPT !.pc = "probe", !.original = file[Scope(p)]]]
    BY <1>4
  <2> QED
    BY <1>1, <2>2, <2>3 DEF Processes
<1>5. CASE Load(p)
  <2>1. CASE Goto(p, "load", "refused")
    BY <1>2, <1>3, <1>5, <2>1 DEF Steps
  <2>2. CASE ~Goto(p, "load", "refused")
    BY <1>3, <1>4, <1>5, <2>2 DEF Load
  <2> QED
    BY <2>1, <2>2
<1>6. CASE ~Load(p)
  <2>1. \E from, to \in Steps : Goto(p, from, to)
    <3>1. {"asked", "load", "probe", "write", "recheck", "replace", "done", "refused", "killed"} = Steps
      BY DEF Steps
    <3> QED
      BY <1>6, <3>1 DEF Ask, Probe, Write, Recheck, Replace, Kill
  <2> QED
    BY <1>2, <1>3, <1>6, <2>1
<1> QED
  BY <1>5, <1>6

LEMMA TypeStep == TypeOK /\ [Next]_vars => TypeOK'
<1> SUFFICES ASSUME TypeOK, [Next]_vars PROVE TypeOK'
  OBVIOUS
<1>0. /\ file \in [Scopes -> Files] /\ proc \in [Installers -> Processes]
      /\ temps \subseteq {p \in Installers : proc[p].pc \in {"recheck", "replace", "killed"}}
      /\ writer \in [Scopes -> Runtimes \cup {"other"}]
      /\ seen \in [Installers -> Files]
  BY DEF TypeOK, Files
<1>1. CASE UNCHANGED vars
  BY <1>1 DEF vars, TypeOK
<1>2. ASSUME NEW s \in Scopes, UserEdits(s) PROVE TypeOK'
  <2>1. \A content \in Edits : content \in Files
    BY InstallAssumption DEF Files
  <2>2. file' \in [Scopes -> Files]
    BY <1>0, <1>2, <2>1 DEF UserEdits
  <2>3. writer' \in [Scopes -> Runtimes \cup {"other"}]
    BY <1>0, <1>2 DEF UserEdits
  <2> QED
    BY <1>0, <1>2, <2>2, <2>3 DEF UserEdits, TypeOK, Files
<1>3. ASSUME NEW p \in Installers,
             Ask(p) \/ Load(p) \/ Probe(p) \/ Write(p) \/ Recheck(p) \/ Replace(p) \/ Kill(p)
      PROVE  TypeOK'
  <2>1. /\ proc' \in [Installers -> Processes]
        /\ \A q \in Installers \ {p} : proc'[q] = proc[q]
        /\ \A from, to : Goto(p, from, to) => proc[p].pc = from /\ proc'[p].pc = to
        /\ Load(p) => proc[p].pc = "load"
    BY <1>3, InstallerMoves DEF Load, Goto
  <2>2. /\ proc[p].original \in Readable /\ proc[p].runtime \in Runtimes /\ Scope(p) \in Scopes
    BY <1>0 DEF Processes, Readable, Scope, Scopes
  <2>3. file' \in [Scopes -> Files] /\ writer' \in [Scopes -> Runtimes \cup {"other"}]
    <3>1. CASE Replace(p)
      <4>1. Result(p) \in Files
        BY <2>2, MergedTyped DEF Result, Files
      <4> QED
        BY <1>0, <2>2, <3>1, <4>1 DEF Replace
    <3>2. CASE ~Replace(p)
      <4>1. UNCHANGED <<file, writer>>
        BY <1>3, <3>2 DEF Ask, Load, Probe, Write, Recheck, Kill
      <4> QED
        BY <1>0, <4>1
    <3> QED
      BY <3>1, <3>2
  <2>4. seen' \in [Installers -> Files]
    BY <1>0, <1>3, <2>2 DEF Ask, Load, Probe, Write, Recheck, Replace, Kill
  <2>5. temps' \subseteq {q \in Installers : proc'[q].pc \in {"recheck", "replace", "killed"}}
    <3>1. \A q \in temps : q # p => q \in Installers /\ proc'[q].pc \in {"recheck", "replace", "killed"}
      BY <1>0, <2>1
    <3>2. p \in temps' => proc'[p].pc \in {"recheck", "replace", "killed"}
      BY <1>0, <1>3, <2>1 DEF Ask, Load, Probe, Write, Recheck, Replace, Kill, RemoveTemp
    <3>3. temps' \subseteq temps \cup {p}
      BY <1>3 DEF Ask, Load, Probe, Write, Recheck, Replace, Kill, RemoveTemp
    <3> QED
      BY <3>1, <3>2, <3>3
  <2> QED
    BY <2>1, <2>3, <2>4, <2>5 DEF TypeOK, Files
<1> QED
  BY <1>1, <1>2, <1>3 DEF Next

\* A temporary file lies beside the settings only while its installer is
\* between writing it and replacing with it, or was killed there; whatever the
\* files held.
THEOREM TypeCorrect == Spec => []TypeOK
  BY TypeInit, TypeStep, PTL DEF Spec

-----------------------------------------------------------------------------
(* What is installed, and what an installer has seen.                      *)

\* A file an installer wrote is the merge of some settings with its handlers.
Installed(s) ==
    writer[s] # "other" =>
        /\ writer[s] \in Runtimes
        /\ \E content \in Readable : file[s] = Merged(content, writer[s], s)

\* Between the second look and the replace an installer knows what it saw: the
\* settings it merged.
LookedAgain(p) == proc[p].pc = "replace" => seen[p] = proc[p].original

Inv == TypeOK /\ (\A s \in Scopes : Installed(s)) /\ (\A p \in Installers : LookedAgain(p))

LEMMA InvInit == Init => Inv
<1>1. Init => \A p \in Installers : proc[p].pc = "asked"
  BY DEF Init, Fresh
<1> QED
  BY <1>1, TypeInit DEF Init, Inv, Installed, LookedAgain

LEMMA InvStep == Inv /\ [Next]_vars => Inv'
<1> SUFFICES ASSUME Inv, [Next]_vars PROVE Inv'
  OBVIOUS
<1>0. /\ TypeOK /\ TypeOK'
      /\ file \in [Scopes -> Files] /\ proc \in [Installers -> Processes]
      /\ writer \in [Scopes -> Runtimes \cup {"other"}]
      /\ seen \in [Installers -> Files]
  BY TypeStep DEF Inv, TypeOK, Files
<1>1. CASE UNCHANGED vars
  BY <1>0, <1>1 DEF vars, Inv, Installed, LookedAgain
<1>2. ASSUME NEW s \in Scopes, UserEdits(s) PROVE Inv'
  <2>1. /\ writer'[s] = "other"
        /\ \A t \in Scopes \ {s} : writer'[t] = writer[t] /\ file'[t] = file[t]
    <3>1. PICK content \in Edits : file' = [file EXCEPT ![s] = content]
      BY <1>2 DEF UserEdits
    <3> QED
      BY <1>0, <1>2, <3>1 DEF UserEdits
  <2> QED
    BY <1>0, <1>2, <2>1 DEF UserEdits, Inv, Installed, LookedAgain
<1>3. ASSUME NEW p \in Installers,
             Ask(p) \/ Load(p) \/ Probe(p) \/ Write(p) \/ Recheck(p) \/ Replace(p) \/ Kill(p)
      PROVE  Inv'
  <2>1. /\ \A q \in Installers \ {p} : proc'[q] = proc[q]
        /\ ~Load(p) => proc'[p].original = proc[p].original
        /\ \A from, to : Goto(p, from, to) => proc[p].pc = from /\ proc'[p].pc = to
        /\ Load(p) => proc'[p].pc \in {"refused", "probe"}
    BY <1>0, <1>3, InstallerMoves
  <2>2. ASSUME NEW s \in Scopes PROVE Installed(s)'
    <3>1. CASE Replace(p) /\ s = Scope(p)
      <4>1. file'[s] = Merged(proc[p].original, proc[p].runtime, s) /\ writer'[s] = proc[p].runtime
        BY <1>0, <3>1 DEF Replace, Result
      <4>2. proc[p].original \in Readable /\ proc[p].runtime \in Runtimes
        BY <1>0 DEF Processes, Readable
      <4> QED
        BY <4>1, <4>2 DEF Installed
    <3>2. CASE ~(Replace(p) /\ s = Scope(p))
      <4>1. file'[s] = file[s] /\ writer'[s] = writer[s]
        BY <1>0, <1>3, <3>2 DEF Ask, Load, Probe, Write, Recheck, Replace, Kill
      <4> QED
        BY <4>1 DEF Inv, Installed
    <3> QED
      BY <3>1, <3>2
  <2>3. ASSUME NEW q \in Installers, proc'[q].pc = "replace" PROVE seen'[q] = proc'[q].original
    <3>1. CASE q # p
      <4>1. seen'[q] = seen[q]
        BY <1>0, <1>3, <3>1 DEF Ask, Load, Probe, Write, Recheck, Replace, Kill
      <4> QED
        BY <2>1, <2>3, <3>1, <4>1 DEF Inv, LookedAgain
    <3>2. CASE q = p
      <4>1. Recheck(p) /\ ~Changed(p)
        BY <1>3, <2>1, <2>3, <3>2 DEF Ask, Load, Probe, Write, Recheck, Replace, Kill
      <4> QED
        BY <1>0, <2>1, <2>3, <3>2, <4>1 DEF Recheck, Changed, Load, Goto
    <3> QED
      BY <3>1, <3>2
  <2> QED
    BY <1>0, <2>2, <2>3 DEF Inv, LookedAgain
<1> QED
  BY <1>1, <1>2, <1>3 DEF Next

LEMMA InvAlways == Spec => []Inv
  BY InvInit, InvStep, PTL DEF Spec

\* In a file that an installer left, each event's managed groups hold one
\* managed handler, the installer's.
LEMMA InstalledSingle ==
    ASSUME NEW s, Installed(s), writer[s] # "other", NEW e \in EventsOf(s)
    PROVE  Single(e, Read(file[s])[e], writer[s]) /\ file[s].settings = Read(file[s])
<1>1. PICK content \in Readable : file[s] = Merged(content, writer[s], s)
  BY DEF Installed
<1>2. writer[s] \in Runtimes /\ e \in Events
  BY DEF Installed, EventsOf
<1>3. /\ Read(file[s])[e] = Merge(e, Read(content)[e], writer[s])
      /\ file[s] \in Texts
  BY <1>1, <1>2, MergedTyped
<1>4. Read(content)[e] \in Seq(Groups)
  BY <1>2, ReadTyped
<1> QED
  BY <1>2, <1>3, <1>4, MergeSingle DEF Texts, Read

\* Whatever the files held and whoever raced, an installed file runs one
\* runtime, once per event.
THEOREM RunsOnce == Spec => []OneRuntime
<1>1. Inv => OneRuntime
  <2> SUFFICES ASSUME Inv, NEW s \in Scopes, writer[s] # "other", NEW e \in EventsOf(s)
               PROVE  Single(e, file[s].settings[e], writer[s])
    BY DEF OneRuntime, Single
  <2> QED
    BY InstalledSingle DEF Inv
<1> QED
  BY <1>1, InvAlways, PTL

\* Installing again what is installed changes nothing, for any settings.
THEOREM Idempotent == Spec => []ReinstallIsNothing
<1>1. Inv => ReinstallIsNothing
  <2> SUFFICES ASSUME Inv, NEW s \in Scopes, writer[s] # "other"
               PROVE  Merged(file[s], writer[s], s) = file[s]
    BY DEF ReinstallIsNothing
  <2> DEFINE again == [e \in Events |-> IF e \in EventsOf(s) THEN Merge(e, Read(file[s])[e], writer[s])
                                                             ELSE Read(file[s])[e]]
  <2>1. file[s] \in Texts
    BY MergedTyped DEF Inv, Installed
  <2>2. ASSUME NEW e \in Events PROVE again[e] = Read(file[s])[e]
    <3>1. e \in EventsOf(s) => Merge(e, Read(file[s])[e], writer[s]) = Read(file[s])[e]
      BY InstalledSingle, MergeAgain DEF Inv
    <3> QED
      BY <3>1
  <2>3. Read(file[s]) = file[s].settings /\ file[s].settings \in [Events -> Seq(Groups)]
        /\ file[s] = [form |-> "text", settings |-> file[s].settings]
    BY <2>1 DEF Texts, Settings, Read
  <2>4. again = Read(file[s])
    <3>1. again = [e \in Events |-> again[e]]
      OBVIOUS
    <3> HIDE DEF again
    <3> QED
      BY <2>2, <2>3, <3>1
  <2>5. Merged(file[s], writer[s], s) = Text(again)
    BY DEF Merged
  <2> HIDE DEF again
  <2> QED
    BY <2>3, <2>4, <2>5 DEF Text
<1> QED
  BY <1>1, InvAlways, PTL

\* Whatever moves between the reading and the replace, the file that comes into
\* place keeps every handler and group of the user's, in their order, that was
\* in it at the installer's last look.
THEOREM UserIsKept == Spec => UserSettingsKept
<1> DEFINE Keeps == \A p \in Installers, s \in Scopes :
                      Replace(p) /\ s = Scope(p) =>
                        /\ seen[p] \notin {Linked, Bad}
                        /\ \A e \in Events : Others(e, Read(file'[s])[e]) = Others(e, Read(seen[p])[e])
<1>1. Inv => Keeps
  <2> SUFFICES ASSUME Inv, NEW p \in Installers, NEW s \in Scopes, Replace(p), s = Scope(p)
               PROVE  /\ seen[p] \notin {Linked, Bad}
                      /\ \A e \in Events : Others(e, Read(file'[s])[e]) = Others(e, Read(seen[p])[e])
    OBVIOUS
  <2>1. file \in [Scopes -> Files] /\ proc \in [Installers -> Processes]
    BY DEF Inv, TypeOK, Files
  <2>2. /\ seen[p] = proc[p].original /\ proc[p].original \in Readable
        /\ proc[p].runtime \in Runtimes
        /\ file'[s] = Merged(seen[p], proc[p].runtime, s)
    BY <2>1 DEF Inv, LookedAgain, Replace, Goto, Result, Processes, Readable
  <2>3. seen[p] \notin {Linked, Bad}
    BY <2>2 DEF Readable, Texts, NoFile, Linked, Bad
  <2>4. ASSUME NEW e \in Events
        PROVE  Others(e, Read(file'[s])[e]) = Others(e, Read(seen[p])[e])
    <3>1. Read(seen[p])[e] \in Seq(Groups)
      BY <2>2, ReadTyped
    <3>2. Read(file'[s])[e] \in {Read(seen[p])[e], Merge(e, Read(seen[p])[e], proc[p].runtime)}
      BY <2>2, MergedTyped
    <3> QED
      BY <2>2, <3>1, <3>2, MergeKeepsOthers
  <2> QED
    BY <2>3, <2>4
<1> QED
  BY <1>1, InvAlways, PTL DEF Spec, UserSettingsKept

=============================================================================
