-------------------------- MODULE Alignment_proofs --------------------------
(***************************************************************************)
(* What is proved about Alignment for any assertions and units of any      *)
(* length.                                                                 *)
(***************************************************************************)
EXTENDS Alignment, TLAPS, WellFoundedInduction

-----------------------------------------------------------------------------
(* Type correctness.                                                       *)

\* The assertions of a unit, and who may have a partner when.
Sides ==
    /\ before \in [DOMAIN before -> Kinds] /\ DOMAIN before = 1..Len(before)
    /\ after \in [DOMAIN after -> Kinds] /\ DOMAIN after = 1..Len(after)
    /\ Len(before) \in Nat /\ Len(after) \in Nat

LentWait == pass.round = "own" => \A i \in DOMAIN before : Old(i).via => partner[i] = 0

Types == Sides /\ TypeOK /\ LentWait

LEMMA UnitFacts ==
    ASSUME NEW n \in Nat, NEW s, s \in Units(n)
    PROVE  s \in [DOMAIN s -> Kinds] /\ DOMAIN s = 1..Len(s) /\ Len(s) \in Nat
<1>1. PICK m \in 0..n : s \in [1..m -> Kinds]
  BY DEF Units
<1>2. s \in Seq(Kinds) /\ Len(s) = m
  BY <1>1
<1>3. QED
  BY <1>1, <1>2

LEMMA StagesAre ==
    {Stages[n] : n \in DOMAIN Stages} = {"context", "text", "tree", "key", "order", "raises"}
<1>1. DOMAIN Stages = 1..6
  BY DEF Stages
<1>2. /\ Stages[1] = "context" /\ Stages[2] = "text" /\ Stages[3] = "tree"
      /\ Stages[4] = "key" /\ Stages[5] = "order" /\ Stages[6] = "raises"
  BY DEF Stages
<1>3. QED
  BY <1>1, <1>2

LEMMA InitTypes == Init => Types
<1> SUFFICES ASSUME Init PROVE Types
  OBVIOUS
<1>1. Sides
  BY UnitFacts, AlignmentAssumption DEF Init, Sides
<1>2. pass \in [round : Rounds, stage : {Stages[n] : n \in DOMAIN Stages}]
  BY StagesAre DEF Init, Rounds
<1>3. QED
  BY <1>1, <1>2 DEF Init, Types, TypeOK, LentWait, Sides

\* What a pairing step does, apart from the pass it belongs to.
LEMMA PairFacts ==
    ASSUME Types, NEW i \in DOMAIN before, Pair(i)
    PROVE  \E j \in Fitting(i) :
              /\ Chosen(i, j)
              /\ partner' = [partner EXCEPT ![i] = j]
              /\ partner[i] = 0
              /\ j \in 1..Len(after) /\ j # 0 /\ ~Taken(j)
              /\ Old(i).via = (pass.round = "via")
              /\ pass.round = "via" \/ ~New(j).via
              /\ Fits(pass.stage, Old(i), New(j))
<1>1. PICK j \in Fitting(i) : Chosen(i, j) /\ partner' = [partner EXCEPT ![i] = j]
  BY DEF Pair
<1>2. partner[i] = 0 /\ Old(i).via = (pass.round = "via")
  BY DEF Pair, Turn, Open
<1>3. j \in DOMAIN after /\ Offered(j) /\ Fits(pass.stage, Old(i), New(j))
  BY <1>1 DEF Fitting
<1>4. j \in 1..Len(after) /\ j # 0
  BY <1>3 DEF Types, Sides
<1>5. ~Taken(j) /\ (pass.round = "via" \/ ~New(j).via)
  BY <1>3 DEF Offered
<1>6. QED
  BY <1>1, <1>2, <1>3, <1>4, <1>5

LEMMA StepTypes == Types /\ [Next]_vars => Types'
<1> SUFFICES ASSUME Types, [Next]_vars PROVE Types'
  OBVIOUS
<1>1. CASE UNCHANGED vars
  BY <1>1 DEF vars, unit, Types, Sides, TypeOK, LentWait, Old, New
<1>2. ASSUME NEW i \in DOMAIN before, Pair(i)
      PROVE  Types'
  <2>1. PICK j \in Fitting(i) :
              /\ Chosen(i, j)
              /\ partner' = [partner EXCEPT ![i] = j]
              /\ partner[i] = 0
              /\ j \in 1..Len(after) /\ j # 0 /\ ~Taken(j)
              /\ Old(i).via = (pass.round = "via")
              /\ pass.round = "via" \/ ~New(j).via
              /\ Fits(pass.stage, Old(i), New(j))
    BY <1>2, PairFacts
  <2>2. at' = i /\ UNCHANGED <<unit, pass>>
    BY <1>2 DEF Pair, Turn
  <2>3. fallback' \subseteq fallback \cup {i}
    BY <1>2 DEF Pair
  <2>4. Sides'
    BY <2>2 DEF Types, Sides, unit
  <2>5. partner' \in [DOMAIN before -> 0..Len(after)]
    BY <2>1 DEF Types, TypeOK
  <2>6. at' \in 0..Len(before)
    BY <2>2 DEF Types, Sides
  <2>7. \A k \in DOMAIN before : partner'[k] = IF k = i THEN j ELSE partner[k]
    BY <2>1 DEF Types, TypeOK
  <2>8. fallback' \subseteq {k \in DOMAIN before : partner'[k] # 0}
    BY <2>1, <2>3, <2>7 DEF Types, TypeOK
  <2>9. \A k \in DOMAIN before : partner[k] # j
    BY <2>1 DEF Taken
  <2>10. \A k, l \in DOMAIN before : partner'[k] = partner'[l] /\ partner'[k] # 0 => k = l
    BY <2>7, <2>9 DEF Types, TypeOK
  <2>11. \A k \in DOMAIN before : partner'[k] # 0 /\ ~Old(k).via => ~New(partner'[k]).via
    BY <2>1, <2>7 DEF Types, TypeOK
  <2>12. pass.round = "own" => \A k \in DOMAIN before : Old(k).via => partner'[k] = 0
    BY <2>1, <2>7 DEF Types, LentWait
  <2>13. QED
    BY <2>2, <2>4, <2>5, <2>6, <2>8, <2>10, <2>11, <2>12
       DEF Types, TypeOK, LentWait, unit, Old, New
<1>3. ASSUME NEW i \in DOMAIN before, Miss(i)
      PROVE  Types'
  BY <1>3 DEF Miss, Turn, unit, Types, Sides, TypeOK, LentWait, Old, New
<1>4. CASE NextPass
  <2>1. pass' = After(pass) /\ at' = 0 /\ UNCHANGED <<unit, partner, fallback>> /\ pass # Done
    BY <1>4 DEF NextPass
  <2>2. pass' = Done \/ pass' \in [round : Rounds, stage : {Stages[n] : n \in DOMAIN Stages}]
    BY <2>1, StagesAre DEF After, Done, Rounds, Types, TypeOK
  <2>3. pass'.round = "own" => pass.round = "own"
    BY <2>1, StagesAre DEF After, Done, Rounds, Types, TypeOK
  <2>4. QED
    BY <2>1, <2>2, <2>3 DEF unit, Types, Sides, TypeOK, LentWait, Old, New
<1>5. QED
  BY <1>1, <1>2, <1>3, <1>4 DEF Next

LEMMA AlwaysTypes == Spec => []Types
BY InitTypes, StepTypes, PTL DEF Spec

\* Whatever the units, no assertion answers for two, and none of the unit's
\* own for one of a helper (_match_assertions' `used` and its two rounds).
THEOREM TypeCorrect == Spec => []TypeOK
BY AlwaysTypes, PTL DEF Types

-----------------------------------------------------------------------------
(* Twins.  Three passes give up on an assertion only when every one of its *)
(* like is taken: the first by context, the second by text, the fallback   *)
(* by class.  Until such a pass is over, everything paired is alike.       *)

Searches == {"context", "text", "order"}

Upto(stage) == CASE stage = "context" -> {"context"}
                 [] stage = "text"    -> {"context", "text"}
                 [] stage = "order"   -> {"context", "text", "tree", "key", "order"}

Like(stage, x, y) ==
    CASE stage = "context" -> SameContext(x, y)
      [] stage = "text"    -> SameText(x, y)
      [] stage = "order"   -> SameClass(x, y)

Over(stage) == pass.round # "own" \/ pass.stage \notin Upto(stage)
In(stage)   == pass.round = "own" /\ pass.stage = stage

Answered(stage, i, j) ==
    \/ partner[i] # 0 /\ Like(stage, Old(i), New(partner[i]))
    \/ \E k \in OwnOld : partner[k] = j /\ Like(stage, Old(k), New(j))

AllAlike(stage) ==
    ~Over(stage) =>
        \A k \in DOMAIN before : partner[k] # 0 => Like(stage, Old(k), New(partner[k]))

Searched(stage) ==
    \A i \in OwnOld, j \in OwnNew :
        /\ Like(stage, Old(i), New(j))
        /\ Over(stage) \/ (In(stage) /\ i <= at)
        => Answered(stage, i, j)

\* What fits in the passes so far is alike, and what is alike fits.
LEMMA FitsLike ==
    ASSUME NEW stage \in Searches, NEW x \in Kinds, NEW y \in Kinds
    PROVE  /\ \A p \in Upto(stage) : Fits(p, x, y) => Like(stage, x, y)
           /\ Like(stage, x, y) => Fits(stage, x, y)
<1>1. CASE stage = "context"
  BY <1>1 DEF Upto, Fits, FitsByItself, Like, SameContext
<1>2. CASE stage = "text"
  BY <1>2 DEF Upto, Fits, FitsByItself, Like, SameText
<1>3. CASE stage = "order"
  <2>1. x.text = y.text \/ (x.tree = y.tree /\ x.tree # NoTree) \/ x.form = y.form => SameClass(x, y)
    BY AlignmentAssumption
  <2>2. Compatible(x, y) => SameClass(x, y)
    BY <2>1 DEF Compatible, SameClass
  <2>3. SameClass(x, y) => Compatible(x, y)
    BY DEF Compatible, SameClass
  <2>4. QED
    BY <1>3, <2>1, <2>2, <2>3 DEF Upto, Fits, FitsByItself, Like
<1>4. QED
  BY <1>1, <1>2, <1>3 DEF Searches

\* No pairing is undone.
LEMMA PairsStay ==
    ASSUME Types, [Next]_vars
    PROVE  /\ UNCHANGED unit
           /\ \A k \in DOMAIN before : partner[k] # 0 => partner'[k] = partner[k]
<1>1. CASE UNCHANGED vars
  BY <1>1 DEF vars
<1>2. ASSUME NEW i \in DOMAIN before, Pair(i)
      PROVE  /\ UNCHANGED unit
             /\ \A k \in DOMAIN before : partner[k] # 0 => partner'[k] = partner[k]
  <2>1. PICK j \in Fitting(i) : partner' = [partner EXCEPT ![i] = j] /\ partner[i] = 0
    BY <1>2, PairFacts
  <2>2. UNCHANGED unit
    BY <1>2 DEF Pair, Turn
  <2>3. QED
    BY <2>1, <2>2 DEF Types, TypeOK
<1>3. ASSUME NEW i \in DOMAIN before, Miss(i)
      PROVE  UNCHANGED <<unit, partner>>
  BY <1>3 DEF Miss, Turn
<1>4. CASE NextPass
  BY <1>4 DEF NextPass
<1>5. QED
  BY <1>1, <1>2, <1>3, <1>4 DEF Next

LEMMA AnsweredStays ==
    ASSUME Types, [Next]_vars, NEW stage, NEW i \in OwnOld, NEW j, Answered(stage, i, j), j # 0
    PROVE  Answered(stage, i, j)'
<1>1. /\ UNCHANGED unit
      /\ \A k \in DOMAIN before : partner[k] # 0 => partner'[k] = partner[k]
  BY PairsStay
<1>2. before' = before /\ after' = after
  BY <1>1 DEF unit
<1>3. \A x, y : Like(stage, x, y)' = Like(stage, x, y)
  BY DEF Like, SameContext, SameText, SameClass, Known
<1>4. CASE partner[i] # 0 /\ Like(stage, Old(i), New(partner[i]))
  BY <1>1, <1>2, <1>4 DEF Answered, OwnOld, Old, New
<1>5. CASE \E k \in OwnOld : partner[k] = j /\ Like(stage, Old(k), New(j))
  BY <1>1, <1>2, <1>5 DEF Answered, OwnOld, Old, New
<1>6. QED
  BY <1>4, <1>5 DEF Answered

Twin(stage) == AllAlike(stage) /\ Searched(stage)

LEMMA InitTwin == Init => \A stage \in Searches : Twin(stage)
<1> SUFFICES ASSUME Init, NEW stage \in Searches
             PROVE  Twin(stage)
  OBVIOUS
<1>1. Types
  BY InitTypes
<1>2. ~Over(stage)
  BY DEF Init, Over, Upto, Searches
<1>3. \A i \in OwnOld : ~(i <= at)
  BY <1>1 DEF Init, OwnOld, Types, Sides
<1>4. QED
  BY <1>2, <1>3 DEF Init, Twin, AllAlike, Searched

\* Who is passed over in an own pass has a partner already.
LEMMA PassedOver ==
    ASSUME Types, NEW stage \in Searches, Twin(stage), In(stage),
           NEW i \in OwnOld, NEW j \in OwnNew, Like(stage, Old(i), New(j)),
           i <= at \/ ~Open(i)
    PROVE  Answered(stage, i, j)
<1>1. CASE i <= at
  BY <1>1 DEF Twin, Searched
<1>2. CASE ~Open(i)
  <2>1. i \in DOMAIN before /\ ~Old(i).via
    BY DEF OwnOld
  <2>2. Old(i).via \in BOOLEAN
    BY <2>1, AlignmentAssumption DEF Old, Types, Sides
  <2>3. partner[i] # 0
    BY <1>2, <2>1, <2>2 DEF Open, In
  <2>4. ~Over(stage)
    BY DEF Over, In, Upto, Searches
  <2>5. QED
    BY <2>1, <2>3, <2>4 DEF Twin, AllAlike, Answered
<1>3. QED
  BY <1>1, <1>2

LEMMA PairTwin ==
    ASSUME Types, [Next]_vars, NEW stage \in Searches, Twin(stage),
           NEW i \in DOMAIN before, Pair(i)
    PROVE  Twin(stage)'
<1>1. PICK j \in Fitting(i) :
              /\ partner' = [partner EXCEPT ![i] = j]
              /\ partner[i] = 0
              /\ j \in 1..Len(after)
              /\ Fits(pass.stage, Old(i), New(j))
  BY PairFacts
<1>2. before' = before /\ after' = after /\ pass' = pass /\ at' = i
  BY DEF Pair, Turn, unit
<1>3. \A k \in DOMAIN before : partner'[k] = IF k = i THEN j ELSE partner[k]
  BY <1>1 DEF Types, TypeOK
<1>4. Old(i) \in Kinds /\ New(j) \in Kinds
  BY <1>1 DEF Old, New, Types, Sides
<1>5. ~Over(stage) => Like(stage, Old(i), New(j))
  BY <1>1, <1>4, FitsLike DEF Over
<1>6. \A x, y : Like(stage, x, y)' = Like(stage, x, y)
  BY DEF Like, SameContext, SameText, SameClass, Known
<1>7. AllAlike(stage)'
  <2>1. ~Over(stage) => \A k \in DOMAIN before : partner'[k] # 0 => Like(stage, Old(k), New(partner'[k]))
    BY <1>3, <1>5 DEF Twin, AllAlike
  <2>2. QED
    BY <1>2, <1>6, <2>1 DEF AllAlike, Over, Old, New
<1>8. ASSUME NEW l \in OwnOld, NEW m \in OwnNew, Like(stage, Old(l), New(m)),
             Over(stage) \/ (In(stage) /\ l <= i)
      PROVE  Answered(stage, l, m)'
  <2>0. m # 0
    BY DEF OwnNew, Types, Sides
  <2>1. CASE Over(stage)
    BY <1>8, <2>0, <2>1, AnsweredStays DEF Twin, Searched
  <2>2. CASE In(stage) /\ l # i
    <3>1. l <= at \/ ~Open(l)
      <4>1. l \in DOMAIN before /\ l \in Nat /\ i \in Nat /\ at \in Nat
        BY DEF OwnOld, Types, Sides, TypeOK
      <4>2. l <= i
        BY <1>8, <2>2 DEF Over, In, Upto, Searches
      <4>3. \A k \in DOMAIN before : at < k /\ k < i => ~Open(k)
        BY DEF Pair, Turn
      <4>4. l <= at \/ (at < l /\ l < i)
        BY <2>2, <4>1, <4>2
      <4>5. QED
        BY <4>1, <4>3, <4>4
    <3>2. Answered(stage, l, m)
      BY <1>8, <2>2, <3>1, PassedOver
    <3>3. QED
      BY <2>0, <3>2, AnsweredStays
  <2>3. CASE In(stage) /\ l = i
    <3>1. partner'[i] = j /\ j # 0 /\ Like(stage, Old(i), New(j))
      BY <1>1, <1>3, <1>5, <2>3 DEF Over, In, Upto, Searches
    <3>2. QED
      BY <1>2, <2>3, <3>1 DEF Answered, Old, New, Like, SameContext, SameText, SameClass, Known
  <2>4. QED
    BY <1>8, <2>1, <2>2, <2>3
<1>9. Searched(stage)'
  BY <1>2, <1>6, <1>8 DEF Searched, Over, In, OwnOld, OwnNew, Old, New
<1>10. QED
  BY <1>7, <1>9 DEF Twin

LEMMA MissTwin ==
    ASSUME Types, [Next]_vars, NEW stage \in Searches, Twin(stage),
           NEW i \in DOMAIN before, Miss(i)
    PROVE  Twin(stage)'
<1>1. before' = before /\ after' = after /\ pass' = pass /\ at' = i /\ partner' = partner
  BY DEF Miss, Turn, unit
<1>2. \A x, y : Like(stage, x, y)' = Like(stage, x, y)
  BY DEF Like, SameContext, SameText, SameClass, Known
<1>3. AllAlike(stage)'
  BY <1>1, <1>2 DEF Twin, AllAlike, Over, Old, New
<1>4. ASSUME NEW l \in OwnOld, NEW m \in OwnNew, Like(stage, Old(l), New(m)),
             Over(stage) \/ (In(stage) /\ l <= i)
      PROVE  Answered(stage, l, m)
  <2>1. CASE Over(stage)
    BY <1>4, <2>1 DEF Twin, Searched
  <2>2. CASE In(stage) /\ l # i
    <3>1. l \in DOMAIN before /\ l \in Nat /\ i \in Nat /\ at \in Nat
      BY DEF OwnOld, Types, Sides, TypeOK
    <3>2. l <= i
      BY <1>4, <2>2 DEF Over, In, Upto, Searches
    <3>3. \A k \in DOMAIN before : at < k /\ k < i => ~Open(k)
      BY DEF Miss, Turn
    <3>4. l <= at \/ (at < l /\ l < i)
      BY <2>2, <3>1, <3>2
    <3>5. QED
      BY <1>4, <2>2, <3>1, <3>3, <3>4, PassedOver
  <2>3. CASE In(stage) /\ l = i
    <3>1. l \in DOMAIN before /\ m \in DOMAIN after /\ ~New(m).via
      BY DEF OwnOld, OwnNew
    <3>2. Old(l) \in Kinds /\ New(m) \in Kinds
      BY <3>1 DEF Old, New, Types, Sides
    <3>3. Fits(pass.stage, Old(i), New(m))
      BY <1>4, <2>3, <3>2, FitsLike DEF In
    <3>4. ~Offered(m)
      BY <3>1, <3>3 DEF Miss, Fitting
    <3>5. PICK k \in DOMAIN before : partner[k] = m
      BY <3>1, <3>4 DEF Offered, Taken
    <3>6. m # 0
      BY <3>1 DEF Types, Sides
    <3>7. k \in OwnOld
      BY <2>3, <3>5, <3>6 DEF In, Types, LentWait, OwnOld
    <3>8. ~Over(stage)
      BY <2>3 DEF Over, In, Upto, Searches
    <3>9. Like(stage, Old(k), New(m))
      BY <3>5, <3>6, <3>8 DEF Twin, AllAlike
    <3>10. QED
      BY <3>5, <3>7, <3>9 DEF Answered
  <2>4. QED
    BY <1>4, <2>1, <2>2, <2>3
<1>5. Searched(stage)'
  BY <1>1, <1>2, <1>4 DEF Searched, Answered, Over, In, OwnOld, OwnNew, Old, New
<1>6. QED
  BY <1>3, <1>5 DEF Twin

LEMMA PassTwin ==
    ASSUME Types, [Next]_vars, NEW stage \in Searches, Twin(stage), NextPass
    PROVE  Twin(stage)'
<1>1. /\ before' = before /\ after' = after /\ partner' = partner
      /\ pass' = After(pass) /\ at' = 0 /\ pass # Done
  BY DEF NextPass, unit
<1>2. \A x, y : Like(stage, x, y)' = Like(stage, x, y)
  BY DEF Like, SameContext, SameText, SameClass, Known
<1>3. /\ pass \in [round : Rounds, stage : {"context", "text", "tree", "key", "order", "raises"}]
      /\ Over(stage) => Over(stage)'
      /\ Over(stage)' => Over(stage) \/ In(stage)
  <2>1. pass \in [round : Rounds, stage : {"context", "text", "tree", "key", "order", "raises"}]
    BY <1>1, StagesAre DEF Types, TypeOK
  <2>2. CASE stage = "context"
    BY <1>1, <2>1, <2>2 DEF Over, In, Upto, After, Done, Rounds
  <2>3. CASE stage = "text"
    BY <1>1, <2>1, <2>3 DEF Over, In, Upto, After, Done, Rounds
  <2>4. CASE stage = "order"
    BY <1>1, <2>1, <2>4 DEF Over, In, Upto, After, Done, Rounds
  <2>5. QED
    BY <2>1, <2>2, <2>3, <2>4 DEF Searches
<1>4. AllAlike(stage)'
  BY <1>1, <1>2, <1>3 DEF Twin, AllAlike, Old, New
<1>5. ASSUME NEW l \in OwnOld, NEW m \in OwnNew, Like(stage, Old(l), New(m)),
             Over(stage)' \/ l <= 0
      PROVE  Answered(stage, l, m)
  <2>1. l \in DOMAIN before /\ l \in Nat \ {0} /\ at \in Nat
    BY DEF OwnOld, Types, Sides, TypeOK
  <2>2. CASE Over(stage)
    BY <1>5, <2>2 DEF Twin, Searched
  <2>3. CASE In(stage)
    <3>1. l <= at \/ ~Open(l)
      BY <2>1 DEF NextPass
    <3>2. QED
      BY <1>5, <2>3, <3>1, PassedOver
  <2>4. QED
    BY <1>3, <1>5, <2>1, <2>2, <2>3
<1>6. Searched(stage)'
  BY <1>1, <1>2, <1>5 DEF Searched, Answered, Over, In, OwnOld, OwnNew, Old, New
<1>7. QED
  BY <1>4, <1>6 DEF Twin

LEMMA StepTwin ==
    Types /\ [Next]_vars /\ (\A stage \in Searches : Twin(stage))
        => (\A stage \in Searches : Twin(stage))'
<1> SUFFICES ASSUME Types, [Next]_vars, \A stage \in Searches : Twin(stage),
                    NEW stage \in Searches
             PROVE  Twin(stage)'
  OBVIOUS
<1>0. Twin(stage)
  OBVIOUS
<1>1. CASE UNCHANGED vars
  <2>1. \A x, y : Like(stage, x, y)' = Like(stage, x, y)
    BY DEF Like, SameContext, SameText, SameClass, Known
  <2>2. QED
    BY <1>0, <1>1, <2>1 DEF vars, unit, Twin, AllAlike, Searched, Answered, Over, In, OwnOld, OwnNew, Old, New
<1>2. CASE Next
  BY <1>0, <1>2, PairTwin, MissTwin, PassTwin DEF Next
<1>3. QED
  BY <1>1, <1>2

Aligned == Types /\ \A stage \in Searches : Twin(stage)

LEMMA AlwaysAligned == Spec => []Aligned
BY InitTypes, InitTwin, StepTypes, StepTwin, PTL DEF Spec, Aligned

LEMMA Finished ==
    ASSUME Aligned, pass = Done, NEW stage \in Searches, NEW i \in OwnOld, NEW j \in OwnNew,
           Like(stage, Old(i), New(j))
    PROVE  Answered(stage, i, j)
<1>1. Over(stage)
  BY DEF Over, Done
<1>2. QED
  BY <1>1 DEF Aligned, Twin, Searched

\* In units of any length, whatever else changed, as many equal assertions of
\* one text and context, and of one text, are paired as both sides have
\* (_match_assertions, passes 0 and 1).
THEOREM NoTwinIsLost == Spec => []TwinsArePaired
<1>1. Aligned => TwinsArePaired
  <2> SUFFICES ASSUME Aligned, pass = Done, NEW i \in OwnOld, NEW j \in OwnNew
               PROVE  /\ SameContext(Old(i), New(j)) =>
                            \/ partner[i] # 0 /\ SameContext(Old(i), New(partner[i]))
                            \/ \E k \in OwnOld : partner[k] = j /\ SameContext(Old(k), New(j))
                      /\ SameText(Old(i), New(j)) =>
                            \/ partner[i] # 0 /\ SameText(Old(i), New(partner[i]))
                            \/ \E k \in OwnOld : partner[k] = j /\ SameText(Old(k), New(j))
    BY DEF TwinsArePaired
  <2>1. \A x, y : Like("context", x, y) = SameContext(x, y)
    BY DEF Like
  <2>2. \A x, y : Like("text", x, y) = SameText(x, y)
    BY DEF Like
  <2>3. SameContext(Old(i), New(j)) => Answered("context", i, j)
    BY <2>1, Finished DEF Searches
  <2>4. SameText(Old(i), New(j)) => Answered("text", i, j)
    BY <2>2, Finished DEF Searches
  <2>5. QED
    BY <2>1, <2>2, <2>3, <2>4 DEF Answered
<1>2. QED
  BY <1>1, AlwaysAligned, PTL

\* In units of any length, an own assertion goes unpaired only if every new
\* one of its class answers for another old one of the class
\* (_match_assertions, the order fallback and _compatible).
THEOREM NothingLostInRewrites == Spec => []RemovedOnlyIfFewer
<1>1. Aligned => RemovedOnlyIfFewer
  <2> SUFFICES ASSUME Aligned, pass = Done, NEW i \in OwnOld, NEW j \in OwnNew,
                      partner[i] = 0, SameClass(Old(i), New(j))
               PROVE  \E k \in OwnOld : partner[k] = j /\ SameClass(Old(k), New(j))
    BY DEF RemovedOnlyIfFewer
  <2>1. \A x, y : Like("order", x, y) = SameClass(x, y)
    BY DEF Like
  <2>2. Answered("order", i, j)
    BY <2>1, Finished DEF Searches
  <2>3. QED
    BY <2>1, <2>2 DEF Answered
<1>2. QED
  BY <1>1, AlwaysAligned, PTL

-----------------------------------------------------------------------------
(* Decoys.                                                                 *)

\* NoDecoy, from the moment an assertion is paired by order.
Preferred ==
    python =>
        \A i \in OwnOld \cap fallback, j \in OwnNew :
            /\ SameSubject(Old(i), New(j)) /\ Compatible(Old(i), New(j))
            /\ ~SameSubject(Old(i), New(partner[i]))
            => Taken(j)

LEMMA StepPreferred == Types /\ Preferred /\ [Next]_vars => Preferred'
<1> SUFFICES ASSUME Types, Preferred, [Next]_vars, python',
                    NEW i \in (OwnOld \cap fallback)', NEW j \in OwnNew',
                    SameSubject(Old(i), New(j))', Compatible(Old(i), New(j))',
                    ~SameSubject(Old(i), New(partner[i]))'
             PROVE  Taken(j)'
  BY DEF Preferred
<1>1. /\ before' = before /\ after' = after /\ python' = python
      /\ \A k \in DOMAIN before : partner[k] # 0 => partner'[k] = partner[k]
  BY PairsStay DEF unit
<1>2. /\ i \in OwnOld /\ i \in fallback' /\ j \in OwnNew
      /\ SameSubject(Old(i), New(j)) /\ Compatible(Old(i), New(j))
      /\ ~SameSubject(Old(i), New(partner'[i]))
  BY <1>1 DEF OwnOld, OwnNew, Old, New, SameSubject, Compatible, Known
<1>3. Taken(j) => Taken(j)'
  <2>1. j # 0
    BY <1>2 DEF OwnNew, Types, Sides
  <2>2. QED
    BY <1>1, <2>1 DEF Taken
<1>4. CASE i \in fallback
  <2>1. partner'[i] = partner[i]
    BY <1>1, <1>4 DEF Types, TypeOK
  <2>2. QED
    BY <1>1, <1>2, <1>3, <1>4, <2>1 DEF Preferred
<1>5. CASE i \notin fallback
  <2>1. Pair(i) /\ pass.stage = "order"
    BY <1>2, <1>5 DEF Next, Pair, Miss, NextPass, vars
  <2>2. i \in DOMAIN before /\ ~Old(i).via /\ j \in DOMAIN after /\ ~New(j).via
    BY <1>2 DEF OwnOld, OwnNew
  <2>3. PICK n \in Fitting(i) : Chosen(i, n) /\ partner' = [partner EXCEPT ![i] = n]
                               /\ Old(i).via = (pass.round = "via")
    BY <2>1, <2>2, PairFacts
  <2>4. partner'[i] = n
    BY <2>2, <2>3 DEF Types, TypeOK
  <2>5. pass.round = "own"
    <3>1. pass.round # "via"
      BY <2>2, <2>3
    <3>2. pass # Done
      BY <2>1 DEF Pair, Turn
    <3>3. QED
      BY <3>1, <3>2 DEF Types, TypeOK, Rounds
  <2>6. SubjectFirst
    <3>1. pass \in [round : Rounds, stage : {Stages[m] : m \in DOMAIN Stages}]
      BY <2>1 DEF Pair, Turn, Types, TypeOK
    <3>2. pass = [round |-> "own", stage |-> "order"]
      BY <2>1, <2>5, <3>1
    <3>3. QED
      BY <1>1, <3>2 DEF SubjectFirst
  <2>7. n \notin SubjectPartners(i)
    BY <1>2, <2>4 DEF SubjectPartners
  <2>8. SubjectPartners(i) = {}
    BY <2>3, <2>7 DEF Chosen
  <2>9. Fits(pass.stage, Old(i), New(j))
    BY <1>2, <2>1 DEF Fits, FitsByItself
  <2>10. ~Offered(j)
    BY <1>2, <2>2, <2>6, <2>8, <2>9 DEF SubjectPartners, Fitting
  <2>11. Taken(j)
    BY <2>2, <2>10 DEF Offered
  <2>12. QED
    BY <1>3, <2>11
<1>6. QED
  BY <1>4, <1>5

\* In units of any length, the order fallback gives an own assertion another
\* subject's only when every compatible one of its own subject is taken
\* (_subject_partner).
THEOREM NoDecoyTakesThePlace == Spec => []NoDecoy
<1>1. Init => Preferred
  BY DEF Init, Preferred
<1>2. Preferred => NoDecoy
  BY DEF Preferred, NoDecoy
<1>3. QED
  BY <1>1, <1>2, StepPreferred, AlwaysTypes, PTL DEF Spec

-----------------------------------------------------------------------------
(* Choices.                                                                *)

LEMMA LeastOf ==
    ASSUME NEW S, S \subseteq Nat, S # {}
    PROVE  \E m \in S : \A k \in S : m <= k
<1> DEFINE R == {ss \in Nat \X Nat : ss[1] < ss[2]}
<1>1. IsWellFoundedOn(R, Nat)
  BY NatLessThanWellFounded DEF OpToRel
<1>2. \A k, m \in Nat : k < m => <<k, m>> \in R
  OBVIOUS
<1> HIDE DEF R
<1>3. PICK m \in S : \A k \in S : ~(<<k, m>> \in R)
  BY <1>1, WFMin
<1>4. m \in Nat /\ \A k \in S : k \in Nat /\ ~(k < m)
  BY <1>2, <1>3
<1>5. \A k \in S : m <= k
  BY <1>4
<1> QED
  BY <1>3, <1>5

\* Where anything fits, the rules name one of them (_subject_partner's best
\* rank, the fallback's first): whoever has a turn pairs or misses.
TurnsAreTaken == \A i \in DOMAIN before : Fitting(i) = {} \/ \E j \in Fitting(i) : Chosen(i, j)

LEMMA Choices == Types => TurnsAreTaken
<1> SUFFICES ASSUME Types, NEW i \in DOMAIN before, Fitting(i) # {}
             PROVE  \E j \in Fitting(i) : Chosen(i, j)
  BY DEF TurnsAreTaken
<1>1. Fitting(i) \subseteq Nat /\ SubjectPartners(i) \subseteq Fitting(i)
  BY DEF Fitting, SubjectPartners, Types, Sides
<1>2. CASE SubjectPartners(i) = {}
  <2>1. PICK j \in Fitting(i) : \A k \in Fitting(i) : j <= k
    BY <1>1, LeastOf
  <2> QED
    BY <1>2, <2>1 DEF Chosen
<1>3. CASE SubjectPartners(i) # {}
  <2> DEFINE rank(j) == Rank(Old(i), New(j))
             Ranks   == {rank(j) : j \in SubjectPartners(i)}
  <2>1. \A j : rank(j) \in Nat
    BY DEF Rank
  <2> HIDE DEF rank
  <2>2. Ranks \subseteq Nat /\ Ranks # {}
    BY <1>3, <2>1
  <2>3. PICK r \in Ranks : \A q \in Ranks : r <= q
    BY <2>2, LeastOf
  <2> DEFINE Best == {j \in SubjectPartners(i) : rank(j) = r}
  <2>4. Best \subseteq Nat /\ Best # {}
    BY <1>1, <2>3
  <2>5. PICK j \in Best : \A k \in Best : j <= k
    BY <2>4, LeastOf
  <2>6. ASSUME NEW k \in SubjectPartners(i)
        PROVE  rank(j) < rank(k) \/ (rank(j) = rank(k) /\ j <= k)
    <3>1. r <= rank(k) /\ rank(j) = r /\ rank(k) \in Nat /\ r \in Nat
      BY <2>1, <2>2, <2>3, <2>5
    <3> QED
      BY <2>5, <3>1
  <2>7. \A k \in SubjectPartners(i) : Ahead(Old(i), j, k)
    BY <2>6 DEF Ahead, rank
  <2> QED
    BY <1>1, <2>5, <2>7 DEF Chosen
<1> QED
  BY <1>2, <1>3

\* In units of any length, a turn is never stuck between two candidates
\* (_match_assertions).
THEOREM NoTurnIsStuck == Spec => []TurnsAreTaken
BY Choices, AlwaysTypes, PTL

=============================================================================
