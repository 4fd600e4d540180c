---------------------------- MODULE Gates_proofs ----------------------------
(***************************************************************************)
(* The ledger of Gates is balanced: for every assertion key, what is left  *)
(* and what was paid with it add up to what arrived.  From that balance:   *)
(* the credits pay once, a pure relocation never runs out of them, and the *)
(* freeze lets through only what has its reason.                           *)
(***************************************************************************)
EXTENDS Gates, FiniteSetTheorems, TLAPS

SeverityNames == {"info", "warn", "high", "critical"}

HeldNames == {"REPAIR_EVIDENCE", "PACKAGE_REPAIR", "DEPENDENCY_DRIFT",
              "SAME_UNIT_REWRITE", "RESTRUCTURED", "SPLIT_OR_RENAMED",
              "COMPAT_GATE", "PROD_SYMBOL_REMOVED", "MILD_WEAKENING",
              "none", "ALLOWLISTED", "ASSERTION_MOVED", "DUPLICATE_REMAINS"}

(* What the steps need of the types. *)
Typed ==
    /\ findings \in Seq(Losses)
    /\ IsFiniteSet(arrivals)
    /\ marks \in Seq([severity : SeverityNames, held : HeldNames])
    /\ Len(marks) <= Len(findings)
    /\ assertions \in [Keys -> Nat]
    /\ units \in [Contexts -> Nat]

(* The ledger, key by key. *)
Balanced ==
    \A k \in Keys : assertions[k] + Cardinality(Paid(k)) = Cardinality(KeyArrived(arrivals, k))

(* Units excused without any proved assertion. *)
PaidWhole(h) == {i \in Excused : findings[i].context = h /\ findings[i].proved = {}}

UnitsBalanced ==
    \A h \in Contexts : units[h] + Cardinality(PaidWhole(h)) <= Cardinality(UnitArrived(arrivals, h))

Inv == Typed /\ Balanced /\ UnitsBalanced

-----------------------------------------------------------------------------
(* A loss is a Finding: its proved assertions are among the finitely many  *)
(* assertions.                                                             *)
LEMMA LossTypes ==
    ASSUME NEW f \in Losses
    PROVE  /\ f \in Finding
           /\ f.lost \subseteq Assertions
           /\ f.proved \subseteq Assertions
           /\ f.context \in Contexts \cup {NoContext}
  BY GatesAssumption DEF Finding

(* The keys a set of assertions needs are counted by a finite set. *)
LEMMA KeysOfNat ==
    ASSUME NEW S \in SUBSET Assertions
    PROVE  /\ KeysOf(S) \in [Keys -> Nat]
           /\ \A k \in Keys : /\ IsFiniteSet(WithKey(S, k))
                              /\ KeysOf(S)[k] = Cardinality(WithKey(S, k))
<1>1. ASSUME NEW k \in Keys
      PROVE  /\ IsFiniteSet(WithKey(S, k))
             /\ Cardinality(WithKey(S, k)) \in Nat
  <2>1. IsFiniteSet(Assertions)
    BY GatesAssumption
  <2>2. WithKey(S, k) \subseteq Assertions
    BY DEF WithKey
  <2> QED
    BY <2>1, <2>2, FS_Subset, FS_CardinalityType
<1> QED
  BY <1>1 DEF KeysOf

(* What covers a need can be lowered by it. *)
LEMMA MinusNat ==
    ASSUME NEW credits \in [Keys -> Nat], NEW needed \in [Keys -> Nat], Covers(credits, needed)
    PROVE  /\ Minus(credits, needed) \in [Keys -> Nat]
           /\ \A k \in Keys : Minus(credits, needed)[k] + needed[k] = credits[k]
<1>1. \A k \in Keys : credits[k] >= needed[k] /\ credits[k] \in Nat /\ needed[k] \in Nat
  BY DEF Covers
<1> QED
  BY <1>1 DEF Minus

(* Pairing one finding with a finite set of assertions adds their number. *)
LEMMA PairsAdd ==
    ASSUME NEW P, IsFiniteSet(P), NEW n, NEW A, IsFiniteSet(A),
           \A a \in A : <<n, a>> \notin P
    PROVE  /\ IsFiniteSet(P \cup ({n} \X A))
           /\ Cardinality(P \cup ({n} \X A)) = Cardinality(P) + Cardinality(A)
<1>1. IsFiniteSet({n}) /\ Cardinality({n}) = 1
  BY FS_Singleton
<1>2. /\ IsFiniteSet({n} \X A)
      /\ Cardinality({n} \X A) = 1 * Cardinality(A)
  BY <1>1, FS_Product
<1>3. P \cap ({n} \X A) = {}
  OBVIOUS
<1>4. /\ IsFiniteSet(P \cup ({n} \X A))
      /\ Cardinality(P \cup ({n} \X A))
            = Cardinality(P) + Cardinality({n} \X A) - Cardinality(P \cap ({n} \X A))
  BY <1>2, FS_Union
<1>5. Cardinality(P \cap ({n} \X A)) = 0
  BY <1>3, FS_EmptySet
<1>6. Cardinality(A) \in Nat /\ Cardinality(P) \in Nat
  BY FS_CardinalityType
<1> QED
  BY <1>2, <1>4, <1>5, <1>6

-----------------------------------------------------------------------------
(* The finding being judged, and its number. *)
LEMMA ThisFinding ==
    ASSUME Typed, Judging
    PROVE  /\ Len(marks) + 1 \in DOMAIN findings
           /\ This \in Losses
           /\ Len(marks) \in Nat /\ Len(findings) \in Nat
           /\ DOMAIN marks = 1..Len(marks)
           /\ This = findings[Len(marks) + 1]
  BY DEF Typed, Judging, This

LEMMA ExcusedFinite ==
    ASSUME Typed
    PROVE  /\ Excused \subseteq 1..Len(marks)
           /\ IsFiniteSet(Excused)
           /\ Len(marks) + 1 \notin Excused
<1>1. Excused \subseteq 1..Len(marks) /\ Len(marks) \in Nat
  BY DEF Typed, Excused
<1>2. IsFiniteSet(1..Len(marks))
  BY <1>1, FS_Interval
<1>3. IsFiniteSet(Excused)
  BY <1>1, <1>2, FS_Subset
<1>4. Len(marks) + 1 \notin 1..Len(marks)
  BY <1>1
<1> QED
  BY <1>1, <1>3, <1>4

LEMMA PaidFinite ==
    ASSUME Typed, NEW k \in Keys
    PROVE  /\ IsFiniteSet(Paid(k))
           /\ \A a : <<Len(marks) + 1, a>> \notin Paid(k)
<1>1. \A i \in Excused : findings[i] \in Losses
  BY ExcusedFinite DEF Typed
<1>2. \A i \in Excused : findings[i].proved \subseteq Assertions
  BY <1>1, LossTypes
<1>3. Paid(k) \subseteq Excused \X Assertions
  BY <1>2 DEF Paid, WithKey
<1>4. IsFiniteSet(Excused \X Assertions)
  BY ExcusedFinite, GatesAssumption, FS_Product
<1>5. IsFiniteSet(Paid(k))
  BY <1>3, <1>4, FS_Subset, Zenon
<1>6. \A a : <<Len(marks) + 1, a>> \notin Paid(k)
  BY <1>3, ExcusedFinite
<1> QED
  BY <1>5, <1>6

(* What arrived with one key can be counted. *)
LEMMA ArrivedFinite ==
    ASSUME IsFiniteSet(arrivals), arrivals \subseteq Arrivals \X Nat, NEW k \in Keys
    PROVE  Cardinality(KeyArrived(arrivals, k)) \in Nat
<1>1. \A p \in arrivals : p[1] \in Arrivals
  OBVIOUS
<1>2. \A p \in arrivals : p[1].proved \subseteq Assertions
  BY <1>1, GatesAssumption DEF Arrival
<1>3. KeyArrived(arrivals, k) \subseteq arrivals \X Assertions
  BY <1>2 DEF KeyArrived, WithKey
<1>4. IsFiniteSet(arrivals \X Assertions)
  BY GatesAssumption, FS_Product
<1> QED
  BY <1>3, <1>4, FS_Subset, FS_CardinalityType

-----------------------------------------------------------------------------
LEMMA InitInv == Init => Inv
<1> SUFFICES ASSUME Init PROVE Inv
  OBVIOUS
<1>1. /\ findings \in Seq(Losses)
      /\ IsFiniteSet(arrivals)
      /\ arrivals \subseteq Arrivals \X Nat
      /\ marks = << >>
  <2>1. \A m \in 0..MaxFindings : [1..m -> Losses] \subseteq Seq(Losses)
    BY GatesAssumption
  <2>2. findings \in Seq(Losses)
    BY <2>1, GatesAssumption DEF Init, Upto
  <2>3. 1..MaxArrivals \subseteq Nat
    BY GatesAssumption
  <2> QED
    BY <2>2, <2>3 DEF Init, Bags
<1>2. Excused = {}
  BY <1>1 DEF Excused
<1>3. assertions \in [Keys -> Nat]
  BY <1>1, ArrivedFinite DEF Init, ArrivalCredits
<1>4. units \in [Contexts -> Nat]
  <2>1. \A h \in Contexts : UnitArrived(arrivals, h) \subseteq arrivals
    BY DEF UnitArrived
  <2>2. \A h \in Contexts : Cardinality(UnitArrived(arrivals, h)) \in Nat
    BY <1>1, <2>1, FS_Subset, FS_CardinalityType
  <2> QED
    BY <2>2 DEF Init, UnitCredits
<1>5. Typed
  <2>1. marks \in Seq([severity : SeverityNames, held : HeldNames]) /\ Len(marks) = 0
    BY <1>1
  <2>2. Len(findings) \in Nat
    BY <1>1
  <2> QED
    BY <1>1, <1>3, <1>4, <2>1, <2>2 DEF Typed
<1>6. Balanced
  <2>1. \A k \in Keys : Paid(k) = {}
    BY <1>2 DEF Paid
  <2>2. \A k \in Keys : Cardinality(Paid(k)) = 0
    BY <2>1, FS_EmptySet
  <2>3. \A k \in Keys : assertions[k] = Cardinality(KeyArrived(arrivals, k)) /\ assertions[k] \in Nat
    BY <1>3 DEF Init, ArrivalCredits
  <2> QED
    BY <2>2, <2>3 DEF Balanced
<1>7. UnitsBalanced
  <2>1. \A h \in Contexts : PaidWhole(h) = {}
    BY <1>2 DEF PaidWhole
  <2>2. \A h \in Contexts : Cardinality(PaidWhole(h)) = 0
    BY <2>1, FS_EmptySet
  <2>3. \A h \in Contexts : units[h] = Cardinality(UnitArrived(arrivals, h)) /\ units[h] \in Nat
    BY <1>4 DEF Init, UnitCredits
  <2> QED
    BY <2>2, <2>3 DEF UnitsBalanced
<1> QED
  BY <1>5, <1>6, <1>7 DEF Inv

-----------------------------------------------------------------------------
Moves == {"ASSERTION_MOVED"} \cup ByProof

(* Marking a finding excuses it or does not; the rest stay as they were. *)
LEMMA Marked ==
    ASSUME Typed, Judging, NEW sev \in SeverityNames, NEW held \in HeldNames, Mark(sev, held)
    PROVE  /\ marks' \in Seq([severity : SeverityNames, held : HeldNames])
           /\ Len(marks') <= Len(findings)
           /\ UNCHANGED diff
           /\ Excused' = IF held \in Moves THEN Excused \cup {Len(marks) + 1} ELSE Excused
<1> DEFINE n == Len(marks) + 1
<1> DEFINE new == [severity |-> sev, held |-> held]
<1>1. marks' = Append(marks, new) /\ new \in [severity : SeverityNames, held : HeldNames]
  BY DEF Mark
<1>2. marks \in Seq([severity : SeverityNames, held : HeldNames])
  BY DEF Typed
<1>3. /\ marks' \in Seq([severity : SeverityNames, held : HeldNames])
      /\ Len(marks') = n
      /\ DOMAIN marks' = 1..n /\ DOMAIN marks = 1..Len(marks)
      /\ \A i \in 1..Len(marks) : marks'[i] = marks[i]
      /\ marks'[n].held = held
      /\ Len(marks) \in Nat
  BY <1>1, <1>2
<1>4. n <= Len(findings)
  BY ThisFinding DEF Judging
<1>5. 1..n = (1..Len(marks)) \cup {n} /\ n \notin 1..Len(marks)
  BY <1>3
<1>6. Excused' = {i \in 1..n : marks'[i].held \in Moves}
  BY <1>3 DEF Excused, Moves, ByProof
<1>7. Excused = {i \in 1..Len(marks) : marks[i].held \in Moves}
  BY <1>3 DEF Excused, Moves, ByProof
<1>8. Excused' = IF held \in Moves THEN Excused \cup {n} ELSE Excused
  <2> HIDE DEF n, new
  <2>1. \A i : i \in Excused' <=> (i \in Excused \/ (i = n /\ held \in Moves))
    BY <1>3, <1>5, <1>6, <1>7
  <2> QED
    BY <2>1
<1> QED
  BY <1>3, <1>4, <1>8 DEF Mark

(* A finding excused as moved pays with every key of its own. *)
LEMMA PaysKeys ==
    ASSUME Typed, Balanced, Judging, NEW sev \in SeverityNames, NEW held \in HeldNames, Mark(sev, held),
           held \in Moves, Covers(assertions, KeysOf(This.proved)),
           assertions' = Minus(assertions, KeysOf(This.proved))
    PROVE  assertions' \in [Keys -> Nat] /\ Balanced'
<1> DEFINE n == Len(marks) + 1
<1>2. Excused' = Excused \cup {n} /\ findings' = findings /\ arrivals' = arrivals
  BY Marked DEF diff
<1>3. This.proved \in SUBSET Assertions /\ This = findings[n]
  BY ThisFinding, LossTypes
<1>4. /\ KeysOf(This.proved) \in [Keys -> Nat]
      /\ \A k \in Keys : /\ IsFiniteSet(WithKey(This.proved, k))
                         /\ KeysOf(This.proved)[k] = Cardinality(WithKey(This.proved, k))
  BY <1>3, KeysOfNat
<1>5. assertions \in [Keys -> Nat]
  BY DEF Typed
<1>6. /\ assertions' \in [Keys -> Nat]
      /\ \A k \in Keys : assertions'[k] + KeysOf(This.proved)[k] = assertions[k]
  BY <1>4, <1>5, MinusNat
<1>7. ASSUME NEW k \in Keys
      PROVE  assertions'[k] + Cardinality(Paid(k)') = Cardinality(KeyArrived(arrivals, k))
  <2>1. Paid(k)' = Paid(k) \cup ({n} \X WithKey(This.proved, k))
    BY <1>2, <1>3 DEF Paid, WithKey
  <2>2. IsFiniteSet(Paid(k)) /\ \A a : <<n, a>> \notin Paid(k)
    BY PaidFinite
  <2> DEFINE W == WithKey(This.proved, k)
  <2>3. Cardinality(Paid(k)') = Cardinality(Paid(k)) + Cardinality(W)
    <3>1. IsFiniteSet(W) /\ \A a \in W : <<n, a>> \notin Paid(k)
      BY <1>4, <2>2
    <3> HIDE DEF W, n
    <3>2. Cardinality(Paid(k) \cup ({n} \X W)) = Cardinality(Paid(k)) + Cardinality(W)
      BY <2>2, <3>1, PairsAdd
    <3>3. Paid(k)' = Paid(k) \cup ({n} \X W)
      BY <2>1 DEF W
    <3> QED
      BY <3>2, <3>3
  <2>4. assertions[k] + Cardinality(Paid(k)) = Cardinality(KeyArrived(arrivals, k))
    BY DEF Balanced
  <2>5. /\ Cardinality(Paid(k)) \in Nat
        /\ assertions'[k] \in Nat /\ assertions[k] \in Nat /\ KeysOf(This.proved)[k] \in Nat
    BY <1>4, <1>5, <1>6, <2>2, FS_CardinalityType
  <2> QED
    BY <1>4, <1>6, <2>3, <2>4, <2>5
<1>8. \A k \in Keys : KeyArrived(arrivals, k)' = KeyArrived(arrivals, k)
  BY <1>2 DEF KeyArrived, WithKey
<1> QED
  BY <1>6, <1>7, <1>8 DEF Balanced

(* A finding judged otherwise leaves the balance alone. *)
LEMMA PaysNothing ==
    ASSUME Typed, Balanced, Judging, NEW sev \in SeverityNames, NEW held \in HeldNames, Mark(sev, held),
           held \notin Moves, assertions' = assertions
    PROVE  Balanced'
<1>1. Excused' = Excused /\ findings' = findings /\ arrivals' = arrivals
  BY Marked DEF diff
<1>2. \A k \in Keys : Paid(k)' = Paid(k) /\ KeyArrived(arrivals, k)' = KeyArrived(arrivals, k)
  BY <1>1 DEF Paid, WithKey, KeyArrived
<1> QED
  BY <1>2 DEF Balanced

(* No credit is spent by an empty need. *)
LEMMA SpendsSome ==
    ASSUME NEW S \in SUBSET Assertions, CanSpend(assertions, KeysOf(S))
    PROVE  S # {}
<1> SUFFICES ASSUME S = {} PROVE FALSE
  OBVIOUS
<1>1. \A k \in Keys : WithKey(S, k) = {}
  BY DEF WithKey
<1>2. \A k \in Keys : KeysOf(S)[k] = 0
  BY <1>1, FS_EmptySet DEF KeysOf
<1>3. DOMAIN KeysOf(S) = Keys
  BY DEF KeysOf
<1> QED
  BY <1>2, <1>3 DEF CanSpend

(* A step that is not a whole-unit move excuses nothing without assertions. *)
LEMMA UnitsUntouched ==
    ASSUME Typed, UnitsBalanced, Judging, NEW sev \in SeverityNames, NEW held \in HeldNames, Mark(sev, held),
           held \notin Moves \/ This.proved # {}, units' = units
    PROVE  UnitsBalanced'
<1> DEFINE n == Len(marks) + 1
<1>1. /\ Excused' \subseteq Excused \cup {n} /\ Excused \subseteq Excused'
      /\ n \in Excused' => held \in Moves
      /\ findings' = findings /\ arrivals' = arrivals
  BY Marked, ExcusedFinite DEF diff
<1>2. This = findings[n]
  BY ThisFinding
<1>3. \A h \in Contexts : PaidWhole(h)' = PaidWhole(h)
  BY <1>1, <1>2 DEF PaidWhole
<1>4. \A h \in Contexts : UnitArrived(arrivals, h)' = UnitArrived(arrivals, h)
  BY <1>1 DEF UnitArrived
<1> QED
  BY <1>3, <1>4 DEF UnitsBalanced

(* A whole-unit move takes one unit of its context. *)
LEMMA UnitTaken ==
    ASSUME Typed, UnitsBalanced, Judging, NEW sev \in SeverityNames, NEW held \in HeldNames, Mark(sev, held),
           held \in Moves, PaysUnit(This),
           units' = [units EXCEPT ![This.context] = @ - 1]
    PROVE  units' \in [Contexts -> Nat] /\ UnitsBalanced'
<1> DEFINE n == Len(marks) + 1
<1>1. /\ Excused' = Excused \cup {n} /\ findings' = findings /\ arrivals' = arrivals
  BY Marked DEF diff
<1>2. This = findings[n] /\ This.context \in Contexts
  BY ThisFinding, LossTypes DEF PaysUnit
<1>3. units \in [Contexts -> Nat] /\ units[This.context] > 0
  BY DEF Typed, PaysUnit
<1>4. units' \in [Contexts -> Nat]
  BY <1>2, <1>3
<1>5. ASSUME NEW h \in Contexts
      PROVE  units'[h] + Cardinality(PaidWhole(h)') <= Cardinality(UnitArrived(arrivals, h))
  <2>1. PaidWhole(h) \subseteq Excused /\ IsFiniteSet(PaidWhole(h))
    BY ExcusedFinite, FS_Subset DEF PaidWhole
  <2>2. Cardinality(PaidWhole(h)) \in Nat
    BY <2>1, FS_CardinalityType
  <2>3. units[h] + Cardinality(PaidWhole(h)) <= Cardinality(UnitArrived(arrivals, h))
    BY DEF UnitsBalanced
  <2>4. Cardinality(UnitArrived(arrivals, h)) \in Nat
    <3>1. UnitArrived(arrivals, h) \subseteq arrivals /\ IsFiniteSet(arrivals)
      BY DEF UnitArrived, Typed
    <3> QED
      BY <3>1, FS_Subset, FS_CardinalityType
  <2>5. CASE h = This.context
    <3>1. PaidWhole(h)' = PaidWhole(h) \/ PaidWhole(h)' = PaidWhole(h) \cup {n}
      BY <1>1, <1>2 DEF PaidWhole
    <3>2. Cardinality(PaidWhole(h)') <= Cardinality(PaidWhole(h)) + 1 /\ Cardinality(PaidWhole(h)') \in Nat
      <4>1. Cardinality(PaidWhole(h) \cup {n})
              = IF n \in PaidWhole(h) THEN Cardinality(PaidWhole(h)) ELSE Cardinality(PaidWhole(h)) + 1
        BY <2>1, FS_AddElement
      <4> HIDE DEF n
      <4> QED
        BY <2>2, <3>1, <4>1
    <3>3. units'[h] = units[h] - 1
      BY <1>3, <2>5
    <3> QED
      BY <1>3, <2>2, <2>3, <2>4, <3>2, <3>3
  <2>6. CASE h # This.context
    <3>1. PaidWhole(h)' = PaidWhole(h) /\ units'[h] = units[h]
      BY <1>1, <1>2, <1>3, <2>6 DEF PaidWhole
    <3> QED
      BY <2>3, <3>1
  <2> QED
    BY <2>5, <2>6
<1>6. \A h \in Contexts : UnitArrived(arrivals, h)' = UnitArrived(arrivals, h)
  BY <1>1 DEF UnitArrived
<1> QED
  BY <1>4, <1>5, <1>6 DEF UnitsBalanced

-----------------------------------------------------------------------------
(* What every action leaves of the types once its credits are settled. *)
LEMMA TypedStep ==
    ASSUME Typed, Judging, NEW sev \in SeverityNames, NEW held \in HeldNames, Mark(sev, held),
           assertions' \in [Keys -> Nat], units' \in [Contexts -> Nat]
    PROVE  Typed'
  BY Marked DEF Typed, diff

(* A judgement that spends nothing. *)
LEMMA FreeStep ==
    ASSUME Inv, Judging, NEW sev \in SeverityNames, NEW held \in HeldNames, Mark(sev, held),
           held \notin Moves, assertions' = assertions, units' = units
    PROVE  Inv'
<1>1. Typed /\ Balanced /\ UnitsBalanced
  BY DEF Inv
<1>2. assertions' \in [Keys -> Nat] /\ units' \in [Contexts -> Nat]
  BY <1>1 DEF Typed
<1> QED
  BY <1>1, <1>2, TypedStep, PaysNothing, UnitsUntouched DEF Inv

(* A judgement that spends assertion credits and no unit. *)
LEMMA AssertionStep ==
    ASSUME Inv, Judging, NEW sev \in SeverityNames, NEW held \in HeldNames, Mark(sev, held),
           held \in Moves, This.proved # {},
           Covers(assertions, KeysOf(This.proved)),
           assertions' = Minus(assertions, KeysOf(This.proved)), units' = units
    PROVE  Inv'
<1>1. Typed /\ Balanced /\ UnitsBalanced
  BY DEF Inv
<1>2. assertions' \in [Keys -> Nat] /\ Balanced'
  BY <1>1, PaysKeys
<1>3. UnitsBalanced' /\ units' \in [Contexts -> Nat]
  BY <1>1, UnitsUntouched DEF Typed
<1> QED
  BY <1>1, <1>2, <1>3, TypedStep DEF Inv

(* The severities and holds the actions name. *)
LEMMA Names ==
    /\ \A s \in {"info", "warn", "high", "critical"} : s \in SeverityNames
    /\ Freeze("info") \in SeverityNames /\ Freeze("warn") \in SeverityNames
    /\ \A h \in {"none", "ALLOWLISTED", "DUPLICATE_REMAINS"} : h \in HeldNames /\ h \notin Moves
    /\ "ASSERTION_MOVED" \in HeldNames /\ "ASSERTION_MOVED" \in Moves
  BY DEF SeverityNames, HeldNames, Freeze, Moves, ByProof

(* The hold chosen is one of the eligible ones. *)
LEMMA FirstEligible ==
    ASSUME NEW f, NEW facts, Eligible(f, facts) # {}
    PROVE  /\ First(Eligible(f, facts)) \in Eligible(f, facts)
           /\ First(Eligible(f, facts)) \in HeldNames
           /\ First(Eligible(f, facts)) # "ASSERTION_MOVED"
<1> DEFINE E == Eligible(f, facts)
<1>1. E \subseteq {Holds[i] : i \in DOMAIN Holds} /\ DOMAIN Holds = 1..9
  BY DEF Eligible, Holds
<1>0. E # {}
  OBVIOUS
<1>2. \E i \in 1..9 : Holds[i] \in E /\ \A j \in 1..(i - 1) : Holds[j] \notin E
  <2> HIDE DEF E
  <2>1. \E i \in {1, 2, 3, 4, 5, 6, 7, 8, 9} : Holds[i] \in E
    BY <1>0, <1>1
  <2>2. \A i \in 1..9 : 1..(i - 1) \subseteq 1..9 /\ \A j \in 1..(i - 1) : j < i
    OBVIOUS
  <2> DEFINE In(i) == Holds[i] \in E
  <2> HIDE DEF In
  <2>3. \E i \in 1..9 : In(i)
    BY <2>1 DEF In
  <2>4. \E i \in 1..9 : In(i) /\ \A j \in 1..9 : j < i => ~In(j)
    BY <2>3
  <2> QED
    BY <2>2, <2>4 DEF In
<1>3. First(E) \in E
  BY <1>1, <1>2 DEF First
<1> QED
  BY <1>1, <1>3 DEF Holds, HeldNames

LEMMA NextInv == Inv /\ [Next]_vars => Inv'
<1> SUFFICES ASSUME Inv, [Next]_vars PROVE Inv'
  OBVIOUS
<1>1. Typed /\ Balanced /\ UnitsBalanced
  BY DEF Inv
<1>2. CASE Exempt
  BY <1>2, FreeStep, Names DEF Exempt, ledger
<1>3. CASE Escalate
  <2>1. PICK severity \in {"warn", "high", "critical"} : Mark(severity, "none")
    BY <1>3 DEF Escalate
  <2> QED
    BY <1>3, <2>1, FreeStep, Names DEF Escalate, ledger
<1>4. CASE InertMark
  BY <1>4, FreeStep, Names DEF InertMark, ledger
<1>5. CASE AssertionMoved
  <2>1. /\ Judging /\ Mark(Freeze("info"), "ASSERTION_MOVED")
        /\ CanSpend(assertions, KeysOf(This.proved))
        /\ assertions' = Minus(assertions, KeysOf(This.proved)) /\ units' = units
    BY <1>5 DEF AssertionMoved, PaysAssertion, SpendTextsAndKeys
  <2>2. This.proved \in SUBSET Assertions
    BY <1>1, <2>1, ThisFinding, LossTypes
  <2>3. Freeze("info") \in SeverityNames /\ "ASSERTION_MOVED" \in Moves /\ "ASSERTION_MOVED" \in HeldNames
    BY Names
  <2>4. This.proved # {} /\ Covers(assertions, KeysOf(This.proved))
    BY <2>1, <2>2, SpendsSome DEF CanSpend
  <2> QED
    BY <2>1, <2>3, <2>4, AssertionStep
<1>6. CASE UnitMoved
  <2>1. /\ Judging /\ Mark("info", "ASSERTION_MOVED") /\ PaysUnit(This)
        /\ units' = [units EXCEPT ![This.context] = @ - 1]
        /\ assertions' = Minus(assertions, KeysOf(This.proved))
    BY <1>6 DEF UnitMoved
  <2>2. "ASSERTION_MOVED" \in Moves /\ "ASSERTION_MOVED" \in HeldNames /\ "info" \in SeverityNames
    BY Names
  <2>3. Covers(assertions, KeysOf(This.proved))
    BY <2>1 DEF PaysUnit
  <2>4. assertions' \in [Keys -> Nat] /\ Balanced'
    BY <1>1, <2>1, <2>2, <2>3, PaysKeys
  <2>5. units' \in [Contexts -> Nat] /\ UnitsBalanced'
    BY <1>1, <2>1, <2>2, UnitTaken
  <2> QED
    BY <1>1, <2>1, <2>2, <2>4, <2>5, TypedStep DEF Inv
<1>7. CASE DuplicateRemains
  BY <1>7, FreeStep, Names DEF DuplicateRemains, ledger
<1>8. CASE TextsMoved
  <2>1. /\ Judging /\ Mark(Freeze("info"), "ASSERTION_MOVED")
        /\ Covers(assertions, KeysOf(This.proved)) /\ This.proved # {}
        /\ assertions' = Minus(assertions, KeysOf(This.proved)) /\ units' = units
    BY <1>8 DEF TextsMoved, PaysTexts, SpendTextsAndKeys, CanSpend, Proven
  <2>2. Freeze("info") \in SeverityNames /\ "ASSERTION_MOVED" \in Moves /\ "ASSERTION_MOVED" \in HeldNames
    BY Names
  <2> QED
    BY <2>1, <2>2, AssertionStep
<1>9. CASE Weigh
  <2>1. Judging
    BY <1>9 DEF Weigh
  <2>2. PICK facts \in SUBSET Possible(This) :
            \/ Eligible(This, facts) = {} /\ Mark("high", "none") /\ UNCHANGED ledger
            \/ Eligible(This, facts) # {} /\ Hold(First(Eligible(This, facts)))
    BY <1>9 DEF Weigh
  <2>3. CASE Eligible(This, facts) = {} /\ Mark("high", "none") /\ UNCHANGED ledger
    BY <2>1, <2>3, FreeStep, Names DEF ledger
  <2>4. CASE Eligible(This, facts) # {} /\ Hold(First(Eligible(This, facts)))
    <3> DEFINE h == First(Eligible(This, facts))
    <3>1. h \in Eligible(This, facts) /\ h \in HeldNames /\ h # "ASSERTION_MOVED"
      BY <2>4, FirstEligible
    <3>2. Mark(Freeze("warn"), h) /\ Freeze("warn") \in SeverityNames /\ units' = units
      BY <2>4, Names DEF Hold
    <3>3. CASE h \in ByProof
      <4>1. ProvenRestructure(This)
        BY <3>1, <3>3 DEF Eligible, ByProof
      <4>2. This.proved # {} /\ Covers(assertions, KeysOf(This.proved)) /\ h \in Moves
        BY <3>3, <4>1 DEF ProvenRestructure, Proven, Moves
      <4>3. assertions' = Minus(assertions, KeysOf(This.proved))
        BY <2>4, <3>3 DEF Hold
      <4> QED
        BY <2>1, <3>1, <3>2, <4>2, <4>3, AssertionStep
    <3>4. CASE h \notin ByProof
      <4>1. assertions' = assertions /\ h \notin Moves
        BY <2>4, <3>1, <3>4 DEF Hold, Moves
      <4> QED
        BY <2>1, <3>1, <3>2, <4>1, FreeStep
    <3> QED
      BY <3>3, <3>4
  <2> QED
    BY <2>2, <2>3, <2>4
<1>10. CASE Conclude
  <2>1. UNCHANGED <<findings, arrivals, marks, assertions, units>>
    BY <1>10 DEF Conclude, diff, ledger
  <2> QED
    BY <1>1, <2>1 DEF Inv, Typed, Balanced, UnitsBalanced, Paid, PaidWhole, Excused
<1>11. CASE UNCHANGED vars
  <2>1. UNCHANGED <<findings, arrivals, marks, assertions, units>>
    BY <1>11 DEF vars, diff, ledger
  <2> QED
    BY <1>1, <2>1 DEF Inv, Typed, Balanced, UnitsBalanced, Paid, PaidWhole, Excused
<1> QED
  BY <1>2, <1>3, <1>4, <1>5, <1>6, <1>7, <1>8, <1>9, <1>10, <1>11 DEF Next

-----------------------------------------------------------------------------
(* However many findings and arrivals a diff has, each arriving assertion   *)
(* excuses at most one deleted one (apply_gates, arrival_credits, spend).   *)
THEOREM PaidByArrivals == Spec => []ArrivalPaysOnce
<1>1. Inv => ArrivalPaysOnce
  <2> SUFFICES ASSUME Inv, NEW k \in Keys
               PROVE  Cardinality(Paid(k)) <= Cardinality(KeyArrived(arrivals, k))
    BY DEF ArrivalPaysOnce
  <2>1. assertions[k] \in Nat /\ assertions[k] + Cardinality(Paid(k)) = Cardinality(KeyArrived(arrivals, k))
    BY DEF Inv, Typed, Balanced
  <2>2. Cardinality(Paid(k)) \in Nat
    BY PaidFinite, FS_CardinalityType DEF Inv
  <2> QED
    BY <2>1, <2>2
<1> QED
  BY <1>1, InitInv, NextInv, PTL DEF Spec

(* Tests that prove no assertion of their own are excused as moved at most  *)
(* as often as an identical unit arrived.                                   *)
THEOREM WholeUnitsPaidOnce == Spec => []WholeUnitPaysOnce
<1>1. Inv => WholeUnitPaysOnce
  <2> SUFFICES ASSUME Inv, NEW h \in Contexts
               PROVE  Cardinality(PaidWhole(h)) <= Cardinality(UnitArrived(arrivals, h))
    BY DEF WholeUnitPaysOnce, PaidWhole
  <2>1. units[h] \in Nat /\ units[h] + Cardinality(PaidWhole(h)) <= Cardinality(UnitArrived(arrivals, h))
    BY DEF Inv, Typed, UnitsBalanced
  <2>2. IsFiniteSet(PaidWhole(h)) /\ IsFiniteSet(UnitArrived(arrivals, h))
    <3>1. PaidWhole(h) \subseteq Excused /\ UnitArrived(arrivals, h) \subseteq arrivals
      BY DEF PaidWhole, UnitArrived
    <3>2. IsFiniteSet(Excused) /\ IsFiniteSet(arrivals)
      BY ExcusedFinite DEF Inv, Typed
    <3> QED
      BY <3>1, <3>2, FS_Subset
  <2>3. Cardinality(PaidWhole(h)) \in Nat /\ Cardinality(UnitArrived(arrivals, h)) \in Nat
    BY <2>2, FS_CardinalityType
  <2> QED
    BY <2>1, <2>3
<1> QED
  BY <1>1, InitInv, NextInv, PTL DEF Spec

-----------------------------------------------------------------------------
(* One judgement, whichever action makes it: what it takes from the moved   *)
(* texts, and why it is what it is.                                         *)
Reason(f, severity, held) ==
    \/ held = "ALLOWLISTED"
    \/ f.rule \notin OracleRules
    \/ f.rule = "TEST_DISABLED" /\ ~f.vanished /\ severity = "info"
    \/ PaysUnit(f) /\ severity = "info"
    \/ Survives(f) /\ severity = "info"
    \/ severity = Freeze("info") /\ held = "ASSERTION_MOVED"
    \/ /\ ~PaysAssertion(f) /\ ~PaysUnit(f) /\ ~Survives(f) /\ ~PaysTexts(f)
       /\ severity \in {"high", Freeze("warn")}

Judges(severity, held) ==
    /\ Judging
    /\ Mark(severity, held)
    /\ \/ moved' = moved
       \/ Covers(moved, TextsOf(This.lost)) /\ moved' = Minus(moved, TextsOf(This.lost))
    /\ Reason(This, severity, held)

LEMMA NextJudges ==
    ASSUME Next, ~Conclude
    PROVE  \E severity \in SeverityNames, held \in HeldNames : Judges(severity, held)
<1>1. CASE Exempt
  BY <1>1, Names DEF Exempt, ledger, Judges, Reason
<1>2. CASE Escalate
  BY <1>2, Names DEF Escalate, ledger, Judges, Reason
<1>3. CASE InertMark
  BY <1>3, Names DEF InertMark, ledger, Judges, Reason
<1>4. CASE AssertionMoved
  BY <1>4, Names DEF AssertionMoved, PaysAssertion, SpendTextsAndKeys, Judges, Reason
<1>5. CASE UnitMoved
  BY <1>5, Names DEF UnitMoved, Judges, Reason
<1>6. CASE DuplicateRemains
  BY <1>6, Names DEF DuplicateRemains, ledger, Judges, Reason
<1>7. CASE TextsMoved
  BY <1>7, Names DEF TextsMoved, PaysTexts, SpendTextsAndKeys, Judges, Reason
<1>8. CASE Weigh
  <2>1. /\ Judging
        /\ ~PaysAssertion(This) /\ ~PaysUnit(This) /\ ~Survives(This) /\ ~PaysTexts(This)
    BY <1>8 DEF Weigh
  <2>2. PICK facts \in SUBSET Possible(This) :
            \/ Eligible(This, facts) = {} /\ Mark("high", "none") /\ UNCHANGED ledger
            \/ Eligible(This, facts) # {} /\ Hold(First(Eligible(This, facts)))
    BY <1>8 DEF Weigh
  <2>3. CASE Eligible(This, facts) = {} /\ Mark("high", "none") /\ UNCHANGED ledger
    BY <2>1, <2>3, Names DEF ledger, Judges, Reason
  <2>4. CASE Eligible(This, facts) # {} /\ Hold(First(Eligible(This, facts)))
    <3>1. First(Eligible(This, facts)) \in HeldNames
      BY <2>4, FirstEligible
    <3>2. Mark(Freeze("warn"), First(Eligible(This, facts))) /\ moved' = moved
      BY <2>4 DEF Hold
    <3>3. QED
      BY <2>1, <3>1, <3>2, Names DEF Judges, Reason
  <2>5. QED
    BY <2>2, <2>3, <2>4
<1>9. QED
  BY <1>1, <1>2, <1>3, <1>4, <1>5, <1>6, <1>7, <1>8 DEF Next

(* A judgement appends one mark. *)
LEMMA MarkAppends ==
    ASSUME Typed, Judging, NEW sev \in SeverityNames, NEW held \in HeldNames, Mark(sev, held)
    PROVE  /\ DOMAIN marks' = (DOMAIN marks) \cup {Len(marks) + 1}
           /\ Len(marks') = Len(marks) + 1
           /\ \A i \in DOMAIN marks : marks'[i] = marks[i]
           /\ marks'[Len(marks) + 1] = [severity |-> sev, held |-> held]
<1>1. marks' = Append(marks, [severity |-> sev, held |-> held]) /\ Len(marks) \in Nat /\ DOMAIN marks = 1..Len(marks)
  BY ThisFinding DEF Mark
<1>2. marks \in Seq([severity : SeverityNames, held : HeldNames])
  BY DEF Typed
<1>3. QED
  BY <1>1, <1>2

LEMMA SeverityOrder ==
    /\ {Severities[i] : i \in DOMAIN Severities} = SeverityNames
    /\ AtLeast("high", "warn") /\ AtLeast("high", "high")
    /\ ~AtLeast("info", "warn") /\ ~AtLeast("info", "high")
<1>1. DOMAIN Severities = 1..4 /\ Severities[1] = "info" /\ Severities[2] = "warn"
      /\ Severities[3] = "high" /\ Severities[4] = "critical"
  BY DEF Severities
<1>2. 1..4 = {1, 2, 3, 4}
  OBVIOUS
<1>3. {Severities[i] : i \in DOMAIN Severities} = SeverityNames
  BY <1>1, <1>2 DEF SeverityNames
<1>4. AtLeast("high", "warn") /\ AtLeast("high", "high")
  <2>1. 3 \in DOMAIN Severities /\ 2 \in DOMAIN Severities /\ 3 >= 3 /\ 3 >= 2
    BY <1>1
  <2>2. QED
    BY <1>1, <2>1 DEF AtLeast
<1>5. \A i, j \in DOMAIN Severities : i >= j /\ Severities[i] = "info" => Severities[j] = "info"
  BY <1>1, <1>2
<1>6. ~AtLeast("info", "warn") /\ ~AtLeast("info", "high")
  BY <1>5 DEF AtLeast
<1>7. QED
  BY <1>3, <1>4, <1>6

-----------------------------------------------------------------------------
(* Types.                                                                   *)

LEMMA HeldTypes == HeldBy = HeldNames
<1>1. DOMAIN Holds = 1..9 /\ 1..9 = {1, 2, 3, 4, 5, 6, 7, 8, 9}
  BY DEF Holds
<1>2. {Holds[i] : i \in DOMAIN Holds} = {"REPAIR_EVIDENCE", "PACKAGE_REPAIR", "DEPENDENCY_DRIFT",
              "SAME_UNIT_REWRITE", "RESTRUCTURED", "SPLIT_OR_RENAMED",
              "COMPAT_GATE", "PROD_SYMBOL_REMOVED", "MILD_WEAKENING"}
  BY <1>1 DEF Holds
<1>3. QED
  BY <1>2 DEF HeldBy, HeldNames

LEMMA TextsOfNat ==
    ASSUME NEW S \in SUBSET Assertions
    PROVE  /\ TextsOf(S) \in [Texts -> Nat]
           /\ \A t \in Texts : /\ IsFiniteSet(WithText(S, t))
                               /\ TextsOf(S)[t] = Cardinality(WithText(S, t))
<1>1. ASSUME NEW t \in Texts
      PROVE  IsFiniteSet(WithText(S, t)) /\ Cardinality(WithText(S, t)) \in Nat
  BY GatesAssumption, FS_Subset, FS_CardinalityType DEF WithText
<1>2. QED
  BY <1>1 DEF TextsOf

LEMMA MinusTexts ==
    ASSUME NEW credits \in [Texts -> Nat], NEW needed \in [Texts -> Nat], Covers(credits, needed)
    PROVE  /\ Minus(credits, needed) \in [Texts -> Nat]
           /\ \A t \in Texts : Minus(credits, needed)[t] + needed[t] = credits[t]
<1>1. \A t \in Texts : credits[t] >= needed[t] /\ credits[t] \in Nat /\ needed[t] \in Nat
  BY DEF Covers
<1>2. QED
  BY <1>1 DEF Minus

(* What left and what arrived with one text can be counted. *)
LEMMA TextsFinite ==
    ASSUME NEW fs \in Seq(Losses), NEW as, IsFiniteSet(as), as \subseteq Arrivals \X Nat, NEW t \in Texts
    PROVE  IsFiniteSet(TextLost(fs, t)) /\ IsFiniteSet(TextArrived(as, t))
<1>1. IsFiniteSet(DOMAIN fs)
  <2>1. DOMAIN fs = 1..Len(fs) /\ Len(fs) \in Nat
    OBVIOUS
  <2>2. QED
    BY <2>1, FS_Interval
<1>2. \A i \in DOMAIN fs : fs[i].lost \subseteq Assertions
  BY LossTypes
<1>3. TextLost(fs, t) \subseteq (DOMAIN fs) \X Assertions
  BY <1>2 DEF TextLost, WithText
<1>4. \A p \in as : p[1] \in Arrivals
  OBVIOUS
<1>5. \A p \in as : p[1].gained \subseteq Assertions
  <2>1. \A r \in Arrival : r.gained \subseteq Assertions
    BY DEF Arrival
  <2>2. QED
    BY <1>4, <2>1, GatesAssumption
<1>6. TextArrived(as, t) \subseteq as \X Assertions
  <2>1. \A p \in as : WithText(p[1].gained, t) \subseteq Assertions
    BY <1>5 DEF WithText
  <2>2. \A p \in as : {p} \X WithText(p[1].gained, t) \subseteq as \X Assertions
    BY <2>1
  <2>3. QED
    BY <2>2, Zenon DEF TextArrived
<1>7. IsFiniteSet(Assertions)
  BY GatesAssumption
<1>8. IsFiniteSet((DOMAIN fs) \X Assertions)
  BY <1>1, <1>7, FS_Product
<1>9. IsFiniteSet(as \X Assertions)
  BY <1>7, FS_Product
<1>10. IsFiniteSet(TextLost(fs, t))
  BY <1>3, <1>8, FS_Subset
<1>11. IsFiniteSet(TextArrived(as, t))
  BY <1>6, <1>9, FS_Subset
<1>12. QED
  BY <1>10, <1>11

LEMMA MovedTextsNat ==
    ASSUME NEW fs \in Seq(Losses), NEW as, IsFiniteSet(as), as \subseteq Arrivals \X Nat
    PROVE  MovedTexts(fs, as) \in [Texts -> Nat]
<1>1. ASSUME NEW t \in Texts
      PROVE  Fewer(Cardinality(TextLost(fs, t)), Cardinality(TextArrived(as, t))) \in Nat
  <2>1. Cardinality(TextLost(fs, t)) \in Nat /\ Cardinality(TextArrived(as, t)) \in Nat
    BY TextsFinite, FS_CardinalityType
  <2>2. QED
    BY <2>1 DEF Fewer
<1>2. QED
  BY <1>1 DEF MovedTexts

(* What TypeOK says beyond Typed. *)
Rest ==
    /\ arrivals \subseteq Arrivals \X (1..MaxArrivals)
    /\ duplicates \subseteq Contexts
    /\ frozen \in BOOLEAN
    /\ failOn \in {"unread", "warn", "high"}
    /\ moved \in [Texts -> Nat]
    /\ verdict \in {"none", "block", "pass"}

LEMMA TypesTogether == Typed /\ Rest => TypeOK
BY HeldTypes, SeverityOrder DEF Typed, Rest, TypeOK

LEMMA InitRest == Init => Rest
<1> SUFFICES ASSUME Init
             PROVE  Rest
  OBVIOUS
<1>1. Typed
  BY InitInv DEF Inv
<1>2. arrivals \subseteq Arrivals \X (1..MaxArrivals)
  BY DEF Init, Bags
<1>3. arrivals \subseteq Arrivals \X Nat
  BY <1>2, GatesAssumption
<1>4. moved \in [Texts -> Nat]
  BY <1>1, <1>3, MovedTextsNat DEF Init, Typed
<1>5. duplicates \subseteq Contexts
  <2>1. duplicates \subseteq {findings[i].context : i \in DOMAIN findings} \ {NoContext}
    BY DEF Init, Wanted
  <2>2. \A i \in DOMAIN findings : findings[i].context \in Contexts \cup {NoContext}
    BY <1>1, LossTypes DEF Typed
  <2>3. QED
    BY <2>1, <2>2
<1>6. QED
  BY <1>2, <1>4, <1>5 DEF Init, Rest

LEMMA StepRest == Inv /\ Rest /\ [Next]_vars => Rest'
<1> SUFFICES ASSUME Inv, Rest, [Next]_vars
             PROVE  Rest'
  OBVIOUS
<1>1. CASE Next /\ ~Conclude
  <2>1. PICK severity \in SeverityNames, held \in HeldNames : Judges(severity, held)
    BY <1>1, NextJudges
  <2>2. UNCHANGED <<arrivals, duplicates, frozen, failOn, verdict>>
    BY <2>1 DEF Judges, Mark, diff
  <2>3. This.lost \subseteq Assertions
    BY <2>1, ThisFinding, LossTypes DEF Judges, Inv
  <2>4. moved' \in [Texts -> Nat]
    BY <2>1, <2>3, TextsOfNat, MinusTexts DEF Judges, Rest
  <2>5. QED
    BY <2>2, <2>4 DEF Rest
<1>2. CASE Conclude
  BY <1>2 DEF Conclude, Rest, diff, ledger
<1>3. CASE UNCHANGED vars
  BY <1>3 DEF vars, diff, ledger, Rest
<1>4. QED
  BY <1>1, <1>2, <1>3

LEMMA Types == Spec => [](Inv /\ Rest)
<1>1. QED
  BY InitInv, NextInv, InitRest, StepRest, PTL DEF Spec

(* The judgement runs over the findings in order, and no credit is overdrawn. *)
THEOREM TypeCorrect == Spec => []TypeOK
<1>1. Inv /\ Rest => TypeOK
  BY TypesTogether DEF Inv
<1>2. QED
  BY <1>1, Types, PTL

-----------------------------------------------------------------------------
(* The freeze.                                                              *)

Answered(f, m) ==
    \/ f.rule \notin OracleRules
    \/ m.held = "ALLOWLISTED"
    \/ f.rule = "TEST_DISABLED" /\ ~f.vanished
    \/ /\ f.vanished
       /\ \/ f.context \in duplicates
          \/ f.context # NoContext /\ UnitArrived(arrivals, f.context) # {}
    \/ m.severity = "high"

(* Under the freeze every mark so far carries its reason or blocks. *)
FrozenMarks == frozen => \A i \in DOMAIN marks : Answered(findings[i], marks[i])

FrozenInv == FrozenMarks /\ FrozenPass

LEMMA UnitCreditIsArrived ==
    ASSUME Inv, NEW f \in Losses, PaysUnit(f)
    PROVE  f.vanished /\ f.context # NoContext /\ UnitArrived(arrivals, f.context) # {}
<1>1. f.context \in Contexts /\ units[f.context] > 0 /\ f.vanished
  BY LossTypes DEF PaysUnit
<1>2. units[f.context] \in Nat /\ IsFiniteSet(PaidWhole(f.context))
  <2>1. IsFiniteSet(Excused) /\ PaidWhole(f.context) \subseteq Excused
    BY ExcusedFinite DEF Inv, PaidWhole
  <2>2. QED
    BY <1>1, <2>1, FS_Subset DEF Inv, Typed
<1>3. Cardinality(PaidWhole(f.context)) \in Nat
  BY <1>2, FS_CardinalityType
<1>4. units[f.context] + Cardinality(PaidWhole(f.context)) <= Cardinality(UnitArrived(arrivals, f.context))
  BY <1>1 DEF Inv, UnitsBalanced
<1>5. ASSUME UnitArrived(arrivals, f.context) = {}
      PROVE  FALSE
  <2>1. Cardinality(UnitArrived(arrivals, f.context)) = 0
    BY <1>5, FS_EmptySet
  <2>2. QED
    BY <1>1, <1>2, <1>3, <1>4, <2>1
<1>6. QED
  BY <1>1, <1>5 DEF PaysUnit

LEMMA StepFrozen == Inv /\ Rest /\ FrozenInv /\ [Next]_vars => FrozenInv'
<1> SUFFICES ASSUME Inv, Rest, FrozenInv, [Next]_vars
             PROVE  FrozenInv'
  OBVIOUS
<1>1. CASE Next /\ ~Conclude
  <2>1. PICK severity \in SeverityNames, held \in HeldNames : Judges(severity, held)
    BY <1>1, NextJudges
  <2>2. UNCHANGED <<findings, arrivals, duplicates, frozen, verdict>> /\ verdict = "none" /\ Typed
    BY <2>1 DEF Judges, Judging, Mark, diff, Inv
  <2> DEFINE n == Len(marks) + 1
  <2>3. /\ DOMAIN marks' = (DOMAIN marks) \cup {n}
        /\ \A i \in DOMAIN marks : marks'[i] = marks[i]
        /\ marks'[n] = [severity |-> severity, held |-> held]
    BY <2>1, <2>2, MarkAppends DEF Judges
  <2>4. findings[n] = This /\ This \in Losses
    BY <2>1, <2>2, ThisFinding DEF Judges
  <2>5. frozen => Answered(This, [severity |-> severity, held |-> held])
    <3>1. Reason(This, severity, held)
      BY <2>1 DEF Judges
    <3>2. PaysUnit(This) => This.vanished /\ This.context # NoContext /\ UnitArrived(arrivals, This.context) # {}
      BY <2>4, UnitCreditIsArrived
    <3>3. QED
      BY <3>1, <3>2 DEF Reason, Answered, Survives, Freeze
  <2> HIDE DEF n
  <2>6. FrozenMarks'
    <3> SUFFICES ASSUME frozen, NEW i \in DOMAIN marks'
                 PROVE  Answered(findings[i], marks[i])'
      BY <2>2 DEF FrozenMarks
    <3>1. CASE i \in DOMAIN marks
      <4>1. Answered(findings[i], marks[i])
        BY <3>1 DEF FrozenInv, FrozenMarks
      <4>2. QED
        BY <2>2, <2>3, <3>1, <4>1 DEF Answered
    <3>2. CASE i = n
      BY <2>2, <2>3, <2>4, <2>5, <3>2 DEF Answered
    <3>3. QED
      BY <2>3, <3>1, <3>2
  <2>7. FrozenPass'
    BY <2>2 DEF FrozenPass
  <2>8. QED
    BY <2>6, <2>7 DEF FrozenInv
<1>2. CASE Conclude
  <2>1. UNCHANGED <<findings, arrivals, duplicates, frozen, marks>>
    BY <1>2 DEF Conclude, diff
  <2>2. FrozenMarks'
    BY <2>1 DEF FrozenInv, FrozenMarks, Answered
  <2>3. ASSUME frozen, verdict' = "pass", NEW i \in DOMAIN findings, marks[i].severity = "high"
        PROVE  marks[i].held = "ALLOWLISTED"
    <3>1. i \in DOMAIN marks
      BY <1>2 DEF Conclude, Inv, Typed
    <3>2. failOn' \in {"warn", "high"} /\ {j \in DOMAIN marks : marks[j].held # "ALLOWLISTED" /\ AtLeast(marks[j].severity, failOn')} = {}
      BY <1>2, <2>3 DEF Conclude, Blocking
    <3>3. AtLeast(marks[i].severity, failOn')
      BY <2>3, <3>2, SeverityOrder
    <3>4. QED
      BY <3>1, <3>2, <3>3
  <2>4. ASSUME frozen, verdict' = "pass", NEW i \in DOMAIN findings
        PROVE  Answered(findings[i], marks[i]) /\ (marks[i].severity = "high" => marks[i].held = "ALLOWLISTED")
    <3>1. i \in DOMAIN marks
      BY <1>2 DEF Conclude, Inv, Typed
    <3>2. QED
      BY <2>3, <2>4, <3>1 DEF FrozenInv, FrozenMarks
  <2>5. FrozenPass'
    BY <2>1, <2>4 DEF FrozenPass, Answered
  <2>6. QED
    BY <2>2, <2>5 DEF FrozenInv
<1>3. CASE UNCHANGED vars
  <2>1. UNCHANGED <<findings, arrivals, duplicates, frozen, marks, verdict>>
    BY <1>3 DEF vars, diff
  <2>2. QED
    BY <2>1 DEF FrozenInv, FrozenMarks, Answered, FrozenPass
<1>4. QED
  BY <1>1, <1>2, <1>3

(* Under oracle_freeze no assertion credit and no hold lets a finding pass. *)
THEOREM FreezeBinds == Spec => []FrozenPass
<1>1. Init => FrozenInv
  BY DEF Init, FrozenInv, FrozenMarks, FrozenPass
<1>2. QED
  BY <1>1, StepFrozen, Types, PTL DEF Spec, FrozenInv

-----------------------------------------------------------------------------
(* A diff that only relocates: the texts left in the ledger always suffice  *)
(* for the findings still to be judged.                                     *)
RestLost(n, t) == UNION {{i} \X WithText(findings[i].lost, t) : i \in (n + 1)..Len(findings)}

TextsSuffice == OnlyRelocated =>
    \A t \in Texts : Cardinality(RestLost(Len(marks), t)) <= moved[t]

Soft == OnlyRelocated /\ ~frozen =>
    \A i \in DOMAIN marks : marks[i].held = "ALLOWLISTED" \/ marks[i].severity = "info"

RelocationInv == TextsSuffice /\ Soft /\ RelocationPasses

(* Judging one finding moves its own texts out of the rest. *)
LEMMA RestSplits ==
    ASSUME Typed, Judging, NEW t \in Texts
    PROVE  /\ Cardinality(RestLost(Len(marks) + 1, t)) \in Nat
           /\ Cardinality(RestLost(Len(marks), t))
                 = Cardinality(RestLost(Len(marks) + 1, t)) + TextsOf(This.lost)[t]
<1> DEFINE n == Len(marks) + 1
<1> DEFINE W == WithText(This.lost, t)
<1>1. n \in DOMAIN findings /\ This = findings[n] /\ This \in Losses
      /\ Len(marks) \in Nat /\ Len(findings) \in Nat /\ DOMAIN findings = 1..Len(findings)
  BY ThisFinding DEF Typed
<1>2. (Len(marks) + 1)..Len(findings) = {n} \cup ((n + 1)..Len(findings))
  BY <1>1
<1>3. RestLost(Len(marks), t) = RestLost(n, t) \cup ({n} \X W)
  BY <1>1, <1>2, Zenon DEF RestLost
<1>4. \A i \in (n + 1)..Len(findings) : findings[i].lost \subseteq Assertions /\ i # n
  <2>1. \A i \in (n + 1)..Len(findings) : findings[i] \in Losses /\ i # n
    BY <1>1 DEF Typed
  <2>2. QED
    BY <2>1, LossTypes
<1>5. RestLost(n, t) \subseteq ((n + 1)..Len(findings)) \X Assertions
  BY <1>4 DEF RestLost, WithText
<1>6. IsFiniteSet(RestLost(n, t))
  <2>1. IsFiniteSet((n + 1)..Len(findings)) /\ IsFiniteSet(Assertions)
    BY <1>1, FS_Interval, GatesAssumption
  <2>2. IsFiniteSet(((n + 1)..Len(findings)) \X Assertions)
    BY <2>1, FS_Product
  <2>3. QED
    BY <1>5, <2>2, FS_Subset
<1>7. \A a : <<n, a>> \notin RestLost(n, t)
  BY <1>1, <1>4, <1>5
<1>8. IsFiniteSet(W) /\ TextsOf(This.lost)[t] = Cardinality(W)
  BY <1>1, LossTypes, TextsOfNat
<1>9. Cardinality(RestLost(n, t) \cup ({n} \X W)) = Cardinality(RestLost(n, t)) + Cardinality(W)
  <2>1. IsFiniteSet(W) /\ \A a \in W : <<n, a>> \notin RestLost(n, t)
    BY <1>7, <1>8
  <2> DEFINE P == RestLost(n, t)
  <2>2. IsFiniteSet(P) /\ \A a \in W : <<n, a>> \notin P
    BY <1>6, <2>1
  <2> HIDE DEF n, W, P
  <2>3. Cardinality(P \cup ({n} \X W)) = Cardinality(P) + Cardinality(W)
    BY <2>1, <2>2, PairsAdd
  <2>4. QED
    BY <2>3 DEF P
<1>10. QED
  BY <1>3, <1>6, <1>8, <1>9, FS_CardinalityType

(* The keys still in the ledger suffice for the finding being judged. *)
LEMMA KeysSuffice ==
    ASSUME Inv, Judging, OnlyRelocated
    PROVE  Covers(assertions, KeysOf(This.proved))
<1> DEFINE n == Len(marks) + 1
<1> SUFFICES ASSUME NEW k \in Keys
             PROVE  assertions[k] >= KeysOf(This.proved)[k]
  BY DEF Covers, KeysOf
<1> DEFINE W == WithKey(This.proved, k)
<1> DEFINE All == UNION {{i} \X WithKey(findings[i].proved, k) : i \in DOMAIN findings}
<1>1. Typed /\ n \in DOMAIN findings /\ This = findings[n] /\ This \in Losses
      /\ Len(marks) \in Nat /\ Len(findings) \in Nat /\ DOMAIN findings = 1..Len(findings)
  BY ThisFinding DEF Inv, Typed
<1>2. IsFiniteSet(W) /\ KeysOf(This.proved)[k] = Cardinality(W)
  BY <1>1, LossTypes, KeysOfNat
<1>3. IsFiniteSet(Paid(k)) /\ \A a : <<n, a>> \notin Paid(k)
  BY <1>1, PaidFinite
<1>4. /\ IsFiniteSet(Paid(k) \cup ({n} \X W))
      /\ Cardinality(Paid(k) \cup ({n} \X W)) = Cardinality(Paid(k)) + Cardinality(W)
  <2>1. IsFiniteSet(W) /\ \A a \in W : <<n, a>> \notin Paid(k)
    BY <1>2, <1>3
  <2> HIDE DEF n, W
  <2>2. QED
    BY <1>3, <2>1, PairsAdd
<1>5. Excused \subseteq DOMAIN findings
  BY <1>1, ExcusedFinite DEF Typed
<1>6. Paid(k) \cup ({n} \X W) \subseteq All
  <2>1. Paid(k) \subseteq All
    BY <1>5 DEF Paid
  <2>2. {n} \X W \subseteq All
    BY <1>1
  <2>3. QED
    BY <2>1, <2>2
<1>7. IsFiniteSet(All)
  <2>1. \A i \in DOMAIN findings : findings[i] \in Losses
    BY <1>1 DEF Typed
  <2>2. \A i \in DOMAIN findings : findings[i].proved \subseteq Assertions
    BY <2>1, LossTypes
  <2>3. All \subseteq (DOMAIN findings) \X Assertions
    BY <2>2 DEF WithKey
  <2>4. IsFiniteSet(DOMAIN findings) /\ IsFiniteSet(Assertions)
    BY <1>1, FS_Interval, GatesAssumption
  <2>5. IsFiniteSet((DOMAIN findings) \X Assertions)
    BY <2>4, FS_Product
  <2>6. QED
    BY <2>3, <2>5, FS_Subset
<1>8. Cardinality(Paid(k) \cup ({n} \X W)) <= Cardinality(All)
  BY <1>6, <1>7, FS_Subset
<1>9. Cardinality(All) <= Cardinality(KeyArrived(arrivals, k))
  BY DEF OnlyRelocated
<1>10. assertions[k] + Cardinality(Paid(k)) = Cardinality(KeyArrived(arrivals, k)) /\ assertions[k] \in Nat
  BY DEF Inv, Balanced, Typed
<1>11. Cardinality(Paid(k)) \in Nat /\ Cardinality(W) \in Nat /\ Cardinality(All) \in Nat
  BY <1>2, <1>3, <1>7, FS_CardinalityType
<1> HIDE DEF n, W, All
<1>12. QED
  BY <1>2, <1>4, <1>8, <1>9, <1>10, <1>11

(* A proved assertion needs at least one credit. *)
LEMMA ProvenNeeds ==
    ASSUME NEW f \in Losses, Proven(f)
    PROVE  \E k \in DOMAIN KeysOf(f.proved) : KeysOf(f.proved)[k] > 0
<1>1. PICK a \in f.lost : a \in f.proved /\ Proof[a] # {}
  BY DEF Proven
<1>2. PICK k \in Proof[a] : TRUE
  BY <1>1
<1>3. f.proved \in SUBSET Assertions /\ k \in Keys
  BY <1>1, <1>2, LossTypes, GatesAssumption
<1>4. IsFiniteSet(WithKey(f.proved, k)) /\ KeysOf(f.proved)[k] = Cardinality(WithKey(f.proved, k))
  BY <1>3, KeysOfNat
<1>5. a \in WithKey(f.proved, k)
  BY <1>1, <1>2 DEF WithKey
<1>6. Cardinality(WithKey(f.proved, k)) \in Nat /\ Cardinality(WithKey(f.proved, k)) # 0
  BY <1>4, <1>5, FS_CardinalityType, FS_EmptySet
<1>7. DOMAIN KeysOf(f.proved) = Keys
  BY DEF KeysOf
<1>8. QED
  BY <1>3, <1>4, <1>6, <1>7

(* So the last resort is never reached. *)
LEMMA RelocationPays ==
    ASSUME Inv, Rest, TextsSuffice, Judging, OnlyRelocated
    PROVE  /\ This.rule \in OracleRules
           /\ PaysAssertion(This) \/ PaysTexts(This)
<1>1. Typed /\ This \in Losses /\ This = findings[Len(marks) + 1] /\ Len(marks) + 1 \in DOMAIN findings
  BY ThisFinding DEF Inv
<1>2. Proven(This) /\ (This.vanished \/ This.rule = "ASSERT_REMOVED")
  BY <1>1 DEF OnlyRelocated
<1>3. CanSpend(assertions, KeysOf(This.proved))
  BY <1>1, <1>2, KeysSuffice, ProvenNeeds DEF CanSpend
<1>4. Covers(moved, TextsOf(This.lost))
  <2> SUFFICES ASSUME NEW t \in Texts
               PROVE  moved[t] >= TextsOf(This.lost)[t]
    BY DEF Covers, TextsOf
  <2>1. Cardinality(RestLost(Len(marks), t)) <= moved[t] /\ moved[t] \in Nat
    BY DEF TextsSuffice, Rest
  <2>2. TextsOf(This.lost)[t] \in Nat
    BY <1>1, LossTypes, TextsOfNat
  <2>3. QED
    BY <1>1, <2>1, <2>2, RestSplits
<1>5. This.vanished => This.rule = "TEST_DISABLED"
  BY <1>1, GatesAssumption
<1>6. This.rule \in OracleRules
  BY <1>2, <1>5 DEF OracleRules
<1>7. QED
  BY <1>2, <1>3, <1>4, <1>6 DEF PaysAssertion, PaysTexts

LEMMA InitRelocation == Init => RelocationInv
<1> SUFFICES ASSUME Init
             PROVE  RelocationInv
  OBVIOUS
<1>1. Typed /\ marks = << >> /\ Len(marks) = 0
  BY InitInv DEF Inv, Init
<1>2. arrivals \subseteq Arrivals \X Nat
  BY InitRest, GatesAssumption DEF Rest
<1>3. ASSUME OnlyRelocated, NEW t \in Texts
      PROVE  Cardinality(RestLost(Len(marks), t)) <= moved[t]
  <2>1. RestLost(Len(marks), t) = TextLost(findings, t)
    BY <1>1 DEF RestLost, TextLost, Typed
  <2>2. Cardinality(TextLost(findings, t)) <= Cardinality(TextArrived(arrivals, t))
    BY <1>3 DEF OnlyRelocated
  <2>3. moved[t] = Cardinality(TextLost(findings, t))
    BY <2>2 DEF Init, MovedTexts, Fewer
  <2>4. Cardinality(TextLost(findings, t)) \in Nat
    BY <1>1, <1>2, TextsFinite, FS_CardinalityType DEF Typed
  <2>5. QED
    BY <2>1, <2>3, <2>4
<1>4. TextsSuffice
  BY <1>3 DEF TextsSuffice
<1>5. Soft
  BY <1>1 DEF Soft
<1>6. RelocationPasses
  BY DEF Init, RelocationPasses
<1>7. QED
  BY <1>4, <1>5, <1>6 DEF RelocationInv

LEMMA StepRelocation == Inv /\ Rest /\ RelocationInv /\ [Next]_vars => RelocationInv'
<1> SUFFICES ASSUME Inv, Rest, RelocationInv, [Next]_vars
             PROVE  RelocationInv'
  OBVIOUS
<1>1. CASE Next /\ ~Conclude
  <2>1. PICK severity \in SeverityNames, held \in HeldNames : Judges(severity, held)
    BY <1>1, NextJudges
  <2>2. /\ UNCHANGED <<findings, arrivals, frozen, verdict>> /\ verdict = "none"
        /\ Typed /\ Judging /\ Mark(severity, held) /\ Reason(This, severity, held)
    BY <2>1 DEF Judges, Judging, Mark, diff, Inv
  <2> DEFINE n == Len(marks) + 1
  <2>3. /\ DOMAIN marks' = (DOMAIN marks) \cup {n}
        /\ Len(marks') = n
        /\ \A i \in DOMAIN marks : marks'[i] = marks[i]
        /\ marks'[n] = [severity |-> severity, held |-> held]
    BY <2>2, MarkAppends
  <2>4. OnlyRelocated' = OnlyRelocated
    BY <2>2 DEF OnlyRelocated, Proven, TextLost, TextArrived, KeyArrived
  <2>5. ASSUME OnlyRelocated, NEW t \in Texts
        PROVE  Cardinality(RestLost(n, t)) <= moved'[t]
    <3>1. Cardinality(RestLost(Len(marks), t)) <= moved[t]
      BY <2>5 DEF RelocationInv, TextsSuffice
    <3>2. This.lost \in SUBSET Assertions
      BY <2>2, ThisFinding, LossTypes
    <3>3. TextsOf(This.lost) \in [Texts -> Nat] /\ moved \in [Texts -> Nat]
      BY <3>2, TextsOfNat DEF Rest
    <3>4. moved'[t] = moved[t] \/ moved'[t] + TextsOf(This.lost)[t] = moved[t]
      BY <2>1, <3>3, MinusTexts DEF Judges
    <3>5. moved'[t] \in Nat
      BY <3>3, <2>1, MinusTexts DEF Judges
    <3>6. /\ Cardinality(RestLost(n, t)) \in Nat
          /\ Cardinality(RestLost(Len(marks), t)) = Cardinality(RestLost(n, t)) + TextsOf(This.lost)[t]
      BY <2>2, RestSplits
    <3>7. TextsOf(This.lost)[t] \in Nat /\ moved[t] \in Nat
      BY <3>3
    <3> HIDE DEF n
    <3>8. QED
      BY <3>1, <3>4, <3>5, <3>6, <3>7
  <2>6. TextsSuffice'
    <3>1. \A t \in Texts : RestLost(Len(marks), t)' = RestLost(n, t)
      BY <2>2, <2>3 DEF RestLost
    <3>2. QED
      BY <2>4, <2>5, <3>1 DEF TextsSuffice
  <2>7. OnlyRelocated /\ ~frozen => held = "ALLOWLISTED" \/ severity = "info"
    <3>1. OnlyRelocated => This.rule \in OracleRules /\ (PaysAssertion(This) \/ PaysTexts(This))
      BY <2>2, RelocationPays DEF RelocationInv
    <3>2. QED
      BY <2>2, <3>1 DEF Reason, Freeze
  <2>8. Soft'
    <3> SUFFICES ASSUME OnlyRelocated, ~frozen, NEW i \in DOMAIN marks'
                 PROVE  marks'[i].held = "ALLOWLISTED" \/ marks'[i].severity = "info"
      BY <2>2, <2>4 DEF Soft
    <3>1. CASE i \in DOMAIN marks
      BY <2>3, <3>1 DEF RelocationInv, Soft
    <3>2. CASE i = n
      BY <2>3, <2>7, <3>2
    <3>3. QED
      BY <2>3, <3>1, <3>2
  <2>9. RelocationPasses'
    BY <2>2 DEF RelocationPasses
  <2>10. QED
    BY <2>6, <2>8, <2>9 DEF RelocationInv
<1>2. CASE Conclude
  <2>1. UNCHANGED <<findings, arrivals, frozen, marks, moved>>
    BY <1>2 DEF Conclude, diff, ledger
  <2>2. OnlyRelocated' = OnlyRelocated
    BY <2>1 DEF OnlyRelocated, Proven, TextLost, TextArrived, KeyArrived
  <2>3. TextsSuffice' /\ Soft'
    BY <2>1, <2>2 DEF RelocationInv, TextsSuffice, Soft, RestLost
  <2>4. ASSUME verdict' = "block", OnlyRelocated, ~frozen
        PROVE  FALSE
    <3>1. Blocking(failOn') # {} /\ failOn' \in {"warn", "high"}
      BY <1>2, <2>4 DEF Conclude
    <3>2. PICK i \in DOMAIN marks : marks[i].held # "ALLOWLISTED" /\ AtLeast(marks[i].severity, failOn')
      BY <3>1 DEF Blocking
    <3>3. marks[i].severity = "info"
      BY <2>4, <3>2 DEF RelocationInv, Soft
    <3>4. QED
      BY <3>1, <3>2, <3>3, SeverityOrder
  <2>5. RelocationPasses'
    BY <2>1, <2>2, <2>4 DEF RelocationPasses
  <2>6. QED
    BY <2>3, <2>5 DEF RelocationInv
<1>3. CASE UNCHANGED vars
  <2>1. UNCHANGED <<findings, arrivals, frozen, marks, moved, verdict>>
    BY <1>3 DEF vars, diff, ledger
  <2>2. OnlyRelocated' = OnlyRelocated
    BY <2>1 DEF OnlyRelocated, Proven, TextLost, TextArrived, KeyArrived
  <2>3. QED
    BY <2>1, <2>2 DEF RelocationInv, TextsSuffice, Soft, RestLost, RelocationPasses
<1>4. QED
  BY <1>1, <1>2, <1>3

(* A diff that only moves proved assertions passes, whatever its size and   *)
(* order: no finding uses up a credit that a later one needs.               *)
THEOREM RelocationIsFree == Spec => []RelocationPasses
<1>1. QED
  BY InitRelocation, StepRelocation, Types, PTL DEF Spec, RelocationInv
=============================================================================
