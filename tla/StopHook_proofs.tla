--------------------------- MODULE StopHook_proofs ---------------------------
(***************************************************************************)
(* For any findings and any handlers: a released set was told, and the     *)
(* handlers' processes implement StopContract, as long as no handler is    *)
(* lost between writing its record and writing its answer.  That proviso   *)
(* is needed: the run stop_lost violates ReleasedWasTold without it.       *)
(* And stops come to an end: every handler answers, and with the handlers  *)
(* of one version no turn is held back for ever.                           *)
(***************************************************************************)
EXTENDS StopHook, TLAPS

\* A handler that will block has a set, and so has what it says.
Counted ==
    \A h \in Handlers :
        /\ pc[h] \in {"decide", "record", "emit"} => got[h] # {}
        /\ say[h].kind \in {"block", "release"} => say[h].set # {}

TypeInv == TypeOK /\ Counted

LEMMA TypeInit == Init => TypeInv
<1> SUFFICES ASSUME Init PROVE TypeInv
  OBVIOUS
<1> USE DEF Init
<1>1. edits \in 0 .. MaxEdits /\ tree \in [set : SUBSET Findings, big : BOOLEAN]
  BY StopAssumption
<1>2. say \in [Handlers -> Says] /\ \A h \in Handlers : say[h] = Nothing
  BY DEF Says, Nothing
<1>3. Counted
  BY <1>2 DEF Counted, Nothing
<1> QED
  BY <1>1, <1>2, <1>3 DEF TypeInv, TypeOK, Steps, Inputs, BlockingSets

LEMMA TypeStep == TypeInv /\ [Next]_vars => TypeInv'
<1> SUFFICES ASSUME TypeInv, [Next]_vars PROVE TypeInv'
  OBVIOUS
<1> USE DEF TypeInv, TypeOK, Counted, Steps, Inputs, Says, Nothing
<1>1. CASE Edit
  <2>1. edits' \in 0 .. MaxEdits
    BY <1>1, StopAssumption DEF Edit
  <2>2. tree' \in [set : SUBSET Findings, big : BOOLEAN]
    BY <1>1 DEF Edit
  <2> QED
    BY <1>1, <2>1, <2>2 DEF Edit, claude, disk
<1>2. CASE TryToStop
  BY <1>2 DEF TryToStop, disk
<1>3. CASE Settle
  <2>1. SetsSaid("block") \in SUBSET BlockingSets /\ SetsSaid("release") \in SUBSET BlockingSets
    BY DEF SetsSaid, BlockingSets
  <2>2. turn' \in {"working", "stopping", "stopped"} /\ active' \in BOOLEAN /\ ours' \in BOOLEAN
    BY <1>3 DEF Settle
  <2> QED
    BY <1>3, <2>1, <2>2 DEF Settle, disk
<1>4. CASE Prompt
  BY <1>4 DEF Prompt, disk
<1>5. CASE Age \/ PruneStat \/ PruneUnlink
  BY <1>5 DEF Age, PruneStat, PruneUnlink, claude
<1>6. ASSUME NEW h \in Handlers, HandlerStep(h) PROVE TypeInv'
  <2>1. CASE ReadInput(h)
    BY <2>1 DEF ReadInput, At, Goto, claude, disk
  <2>2. CASE Analyse(h)
    <3>1. \/ /\ got' = got
             /\ pc' = [pc EXCEPT ![h] = "done"]
             /\ \E kind \in {"oversize", "nothing"} :
                  say' = [say EXCEPT ![h] = [kind |-> kind, set |-> {}]]
          \/ /\ say' = say
             /\ \/ tree.set \cap Sees[h] = {} /\ pc' = [pc EXCEPT ![h] = "clear"]
                \/ tree.set \cap Sees[h] # {} /\ pc' = [pc EXCEPT ![h] = "decide"]
             /\ got' = [got EXCEPT ![h] = tree.set \cap Sees[h]]
      BY <2>2 DEF Analyse, AfterVerdict, Goto, Answer
    <3>2. got' \in [Handlers -> SUBSET Findings]
      BY <3>1
    <3>3. pc' \in [Handlers -> Steps \cup {"idle", "done"}]
      BY <3>1
    <3>4. say' \in [Handlers -> Says]
      <4>1. CASE say' = say
        BY <4>1
      <4>2. ASSUME NEW kind \in {"oversize", "nothing"},
                   say' = [say EXCEPT ![h] = [kind |-> kind, set |-> {}]]
            PROVE  say' \in [Handlers -> Says]
        BY <4>2
      <4> QED
        BY <3>1, <4>1, <4>2
    <3>5. Counted'
      BY <3>1
    <3> QED
      BY <2>2, <3>2, <3>3, <3>4, <3>5 DEF Analyse, AfterVerdict, claude, disk
  <2>3. CASE Decide(h)
    <3>1. /\ pc[h] = "decide"
          /\ got' = got
          /\ \/ /\ pc' = [pc EXCEPT ![h] = "done"]
                /\ say' = [say EXCEPT ![h] = [kind |-> "release", set |-> got[h]]]
             \/ pc' = [pc EXCEPT ![h] = "record"] /\ say' = say
      BY <2>3 DEF Decide, At, Goto, Answer
    <3>2. got[h] # {}
      BY <3>1
    <3>3. say' \in [Handlers -> Says] /\ pc' \in [Handlers -> Steps \cup {"idle", "done"}]
      <4>1. [kind |-> "release", set |-> got[h]] \in Says
        OBVIOUS
      <4>2. pc' \in [Handlers -> Steps \cup {"idle", "done"}]
        BY <3>1
      <4>3. say' \in [Handlers -> Says]
        BY <3>1, <4>1
      <4> QED
        BY <4>2, <4>3
    <3>4. Counted'
      BY <3>1, <3>2
    <3> QED
      BY <2>3, <3>3, <3>4 DEF Decide, claude, disk
  <2>4. CASE RecordBlock(h)
    BY <2>4 DEF RecordBlock, At, Goto, claude
  <2>5. CASE EmitBlock(h)
    BY <2>5 DEF EmitBlock, At, Goto, Answer, claude, disk
  <2>6. CASE ClearOnPass(h)
    BY <2>6 DEF ClearOnPass, At, Goto, Answer, claude
  <2> QED
    BY <1>6, <2>1, <2>2, <2>3, <2>4, <2>5, <2>6 DEF HandlerStep
<1>7. ASSUME NEW h \in Handlers, Kill(h) PROVE TypeInv'
  BY <1>7 DEF Kill, Goto, Answer, claude, disk
<1>8. CASE UNCHANGED vars
  BY <1>8 DEF vars, claude, disk
<1> QED
  BY <1>1, <1>2, <1>3, <1>4, <1>5, <1>6, <1>7, <1>8 DEF Next

\* Every reachable state is well typed: no handler, kill or prune leaves a
\* record, an answer or a told set outside its range.
THEOREM TypeCorrect == Spec => []TypeOK
<1>1. TypeInv => TypeOK
  BY DEF TypeInv
<1> QED
  BY TypeInit, TypeStep, <1>1, PTL DEF Spec

-----------------------------------------------------------------------------
(* A released set was told.  RecordBacked alone is not inductive: a release *)
(* decided on the record must still be backed when another handler of the  *)
(* same stop has replaced the record, so each answer carries its backing.  *)

\* A set Claude was told of, or will be when this stop settles.
Backed(set) ==
    \/ set \in told
    \/ \E g \in Handlers : pc[g] = "emit" /\ got[g] = set
    \/ \E g \in Handlers : say[g].kind = "block" /\ say[g].set = set

RecordBacked  == rec # {} => Backed(rec)
ReleaseBacked == \A h \in Handlers : say[h].kind = "release" => active /\ Backed(say[h].set)

\* Between stops nothing is left of a handler; an answer ends its handler.
InTurn ==
    /\ \A h \in Handlers : turn # "stopping" => pc[h] = "idle" /\ input[h] = "none"
    /\ \A h \in Handlers : say[h].kind # "nothing" => pc[h] = "done"
    /\ \A h \in Handlers : input[h] = "active" => active

IInv == TypeInv /\ InTurn /\ RecordBacked /\ ReleaseBacked /\ ReleasedWasTold

LEMMA IInvInit == Init => IInv
BY TypeInit DEF Init, IInv, InTurn, RecordBacked, ReleaseBacked, ReleasedWasTold, Nothing

LEMMA IInvStep ==
    ASSUME "emit" \notin KillPoints
    PROVE  IInv /\ [Next]_vars => IInv'
<1> SUFFICES ASSUME IInv, [Next]_vars PROVE IInv'
  OBVIOUS
<1>t. TypeInv /\ TypeInv'
  BY TypeStep DEF IInv
<1> USE DEF IInv, InTurn, RecordBacked, ReleaseBacked, ReleasedWasTold, Backed
<1>1. CASE Edit
  BY <1>1, <1>t DEF Edit, claude, disk
<1>2. CASE TryToStop
  <2>1. \A h \in Handlers : pc[h] # "emit"
    BY <1>2 DEF TryToStop
  <2> QED
    BY <1>2, <1>t, <2>1 DEF TryToStop, disk, TypeInv, TypeOK
<1>3. CASE Settle
  <2>1. \A set : Backed(set) => set \in told'
    BY <1>3 DEF Settle, SetsSaid
  <2>2. RecordBacked'
    BY <1>3, <2>1 DEF Settle, disk
  <2>3. ReleasedWasTold'
    BY <1>3, <2>1 DEF Settle, SetsSaid
  <2>4. \A h \in Handlers : pc'[h] = "idle" /\ input'[h] = "none" /\ say'[h].kind = "nothing"
    BY <1>3 DEF Settle, Nothing
  <2> QED
    BY <1>t, <2>2, <2>3, <2>4
<1>4. CASE Prompt
  BY <1>4, <1>t DEF Prompt, disk, TypeInv, TypeOK
<1>5. CASE Age \/ PruneStat \/ PruneUnlink
  BY <1>5, <1>t DEF Age, PruneStat, PruneUnlink, claude
<1>6. ASSUME NEW h \in Handlers, HandlerStep(h) PROVE IInv'
  <2>1. CASE ReadInput(h)
    BY <2>1, <1>t DEF ReadInput, At, Goto, claude, disk, TypeInv, TypeOK
  <2>2. CASE Analyse(h)
    BY <2>2, <1>t DEF Analyse, AfterVerdict, At, Goto, Answer, claude, disk, TypeInv, TypeOK
  <2>3. CASE Decide(h)
    BY <2>3, <1>t DEF Decide, Releases, At, Goto, Answer, claude, disk, TypeInv, TypeOK, Counted
  <2>4. CASE RecordBlock(h)
    BY <2>4, <1>t DEF RecordBlock, At, Goto, claude, TypeInv, TypeOK
  <2>5. CASE EmitBlock(h)
    BY <2>5, <1>t DEF EmitBlock, At, Goto, Answer, claude, disk, TypeInv, TypeOK
  <2>6. CASE ClearOnPass(h)
    BY <2>6, <1>t DEF ClearOnPass, At, Goto, Answer, claude, TypeInv, TypeOK
  <2> QED
    BY <1>6, <2>1, <2>2, <2>3, <2>4, <2>5, <2>6 DEF HandlerStep
<1>7. ASSUME NEW h \in Handlers, Kill(h) PROVE IInv'
  BY <1>7, <1>t, StopAssumption DEF Kill, Goto, Answer, claude, disk, TypeInv, TypeOK, Steps
<1>8. CASE UNCHANGED vars
  BY <1>8, <1>t DEF vars, claude, disk
<1> QED
  BY <1>1, <1>2, <1>3, <1>4, <1>5, <1>6, <1>7, <1>8 DEF Next

\* Claude was told of every released set, for any findings, handlers and
\* handler versions, other hooks, edits, errors and prunes: the promise of
\* _released_message, where no handler is lost between record and answer.
THEOREM ToldBeforeReleased ==
    ASSUME "emit" \notin KillPoints
    PROVE  Spec => []ReleasedWasTold
<1>1. Init => IInv
  BY IInvInit
<1>2. IInv /\ [Next]_vars => IInv'
  BY IInvStep
<1>3. IInv => ReleasedWasTold
  BY DEF IInv
<1> QED
  BY <1>1, <1>2, <1>3, PTL DEF Spec

-----------------------------------------------------------------------------
(* The handlers implement the contract: a stop that settles is a HeldBack  *)
(* or a LetGo, every step of a single handler a stutter.                   *)

LEMMA SettleKeepsContract ==
    ASSUME IInv, IInv', Settle
    PROVE  Contract!ContractNext
<1> DEFINE held == \E h \in Handlers : say[h].kind \in {"block", "oversize"}
<1>1. SetsSaid("block") \in SUBSET Contract!BlockingSets
  BY DEF SetsSaid, IInv, TypeInv, TypeOK, Counted, Says, Contract!BlockingSets
<1>2. told' = told \cup SetsSaid("block") /\ released' = SetsSaid("release")
  BY DEF Settle
<1>3. released' # {} => active
  BY <1>2 DEF SetsSaid, IInv, ReleaseBacked
<1>4. released' \subseteq told'
  BY DEF IInv, ReleasedWasTold
<1>5. turn = "stopping"
  BY DEF Settle
<1>6. PICK other \in {FALSE, Others} :
          /\ turn' = IF held \/ other THEN "working" ELSE "stopped"
          /\ active' = (active \/ held \/ other)
  BY DEF Settle
<1>7. CASE held \/ other
  <2>1. turn' = "working" /\ active' = TRUE
    BY <1>6, <1>7
  <2> QED
    BY <1>1, <1>2, <1>3, <1>4, <1>5, <2>1 DEF Contract!ContractNext, Contract!HeldBack, Contract!Releases
<1>8. CASE ~(held \/ other)
  <2>1. turn' = "stopped"
    BY <1>6, <1>8
  <2>2. active' = active
    BY <1>6, <1>8 DEF IInv, TypeInv, TypeOK
  <2>3. SetsSaid("block") = {}
    BY <1>8 DEF SetsSaid
  <2>4. told' = told
    BY <1>2, <2>3
  <2> QED
    BY <1>3, <1>4, <1>5, <2>1, <2>2, <2>4 DEF Contract!ContractNext, Contract!LetGo, Contract!Releases
<1> QED
  BY <1>7, <1>8

LEMMA StepKeepsContract ==
    IInv /\ IInv' /\ [Next]_vars => [Contract!ContractNext]_Contract!contractVars
<1> SUFFICES ASSUME IInv, IInv', [Next]_vars
             PROVE  [Contract!ContractNext]_Contract!contractVars
  OBVIOUS
<1>1. CASE Settle
  BY <1>1, SettleKeepsContract
<1>2. CASE TryToStop
  BY <1>2 DEF TryToStop, Contract!ContractNext, Contract!Ends
<1>3. CASE Prompt
  BY <1>3 DEF Prompt, Contract!ContractNext, Contract!UserPrompts
<1>4. CASE UNCHANGED claude
  BY <1>4 DEF claude, Contract!contractVars
<1>5. CASE UNCHANGED vars
  BY <1>5, <1>4 DEF vars
<1>6. CASE Edit \/ Age \/ PruneStat \/ PruneUnlink
  BY <1>6, <1>4 DEF Edit, Age, PruneStat, PruneUnlink
<1>7. ASSUME NEW h \in Handlers, HandlerStep(h) \/ Kill(h)
      PROVE  UNCHANGED claude
  BY <1>7 DEF HandlerStep, ReadInput, Analyse, AfterVerdict, Decide, RecordBlock, EmitBlock, ClearOnPass, Kill
<1> QED
  BY <1>1, <1>2, <1>3, <1>4, <1>5, <1>6, <1>7 DEF Next

\* The handlers, their record and their races implement StopContract: seen
\* from Claude, a stop is held back or let go, and a set is released only in
\* a continuation and only after Claude was told of it.
THEOREM ImplementsContract ==
    ASSUME "emit" \notin KillPoints
    PROVE  Spec => KeepsContract
<1>1. Init => Contract!ContractInit
  BY DEF Init, Contract!ContractInit
<1>2. Init => IInv
  BY IInvInit
<1>3. IInv /\ [Next]_vars => IInv'
  BY IInvStep
<1>4. IInv /\ IInv' /\ [Next]_vars => [Contract!ContractNext]_Contract!contractVars
  BY StepKeepsContract
<1> QED
  BY <1>1, <1>2, <1>3, <1>4, PTL DEF Spec, KeepsContract, Contract!ContractSpec

-----------------------------------------------------------------------------
(* Every handler answers.  Its stages are its steps in the order of the    *)
(* code; only a step of its own, or a kill, leaves one.                    *)

Busy(h) == turn = "stopping" => pc[h] # "idle"
TurnInv == TypeInv /\ InTurn /\ \A h \in Handlers : Busy(h)

LEMMA TurnStarts == Init => TurnInv
BY TypeInit DEF Init, TurnInv, InTurn, Busy, Nothing

LEMMA TurnKeeps == TurnInv /\ [Next]_vars => TurnInv'
<1> SUFFICES ASSUME TurnInv, [Next]_vars PROVE TurnInv'
  OBVIOUS
<1>t. TypeInv /\ TypeInv'
  BY TypeStep DEF TurnInv
<1> USE DEF TurnInv, InTurn, Busy
<1>1. CASE Edit \/ Age \/ PruneStat \/ PruneUnlink \/ UNCHANGED vars
  BY <1>1, <1>t DEF Edit, Age, PruneStat, PruneUnlink, vars, claude, disk
<1>2. CASE TryToStop
  BY <1>2, <1>t DEF TryToStop, disk, TypeInv, TypeOK
<1>3. CASE Settle
  BY <1>3, <1>t DEF Settle, Nothing
<1>4. CASE Prompt
  BY <1>4, <1>t DEF Prompt, disk
<1>5. ASSUME NEW h \in Handlers, HandlerStep(h) \/ Kill(h) PROVE TurnInv'
  <2>1. CASE ReadInput(h)
    BY <2>1, <1>t DEF ReadInput, At, Goto, claude, disk, TypeInv, TypeOK
  <2>2. CASE Analyse(h)
    BY <2>2, <1>t DEF Analyse, AfterVerdict, At, Goto, Answer, claude, disk, TypeInv, TypeOK
  <2>3. CASE Decide(h)
    BY <2>3, <1>t DEF Decide, At, Goto, Answer, claude, disk, TypeInv, TypeOK
  <2>4. CASE RecordBlock(h)
    BY <2>4, <1>t DEF RecordBlock, At, Goto, claude, TypeInv, TypeOK
  <2>5. CASE EmitBlock(h)
    BY <2>5, <1>t DEF EmitBlock, At, Goto, Answer, claude, disk, TypeInv, TypeOK
  <2>6. CASE ClearOnPass(h)
    BY <2>6, <1>t DEF ClearOnPass, At, Goto, Answer, claude, TypeInv, TypeOK
  <2>7. CASE Kill(h)
    BY <2>7, <1>t, StopAssumption DEF Kill, Goto, Answer, claude, disk, TypeInv, TypeOK, Steps
  <2> QED
    BY <1>5, <2>1, <2>2, <2>3, <2>4, <2>5, <2>6, <2>7 DEF HandlerStep
<1> QED
  BY <1>1, <1>2, <1>3, <1>4, <1>5 DEF Next

Running(h) == pc[h] \in Steps
Ended(h)   == pc[h] = "done"
Stage(h, step) == pc[h] = step

\* Whatever anybody else does, a handler that runs stays where it is, unless
\* it is killed.
LEMMA StageStays ==
    ASSUME NEW h \in Handlers, TurnInv, [Next]_vars, Running(h), ~HandlerStep(h)
    PROVE  pc'[h] = pc[h] \/ Ended(h)'
<1> USE DEF Running, Ended, TurnInv, TypeInv, TypeOK
<1>1. CASE Edit \/ Age \/ PruneStat \/ PruneUnlink \/ UNCHANGED vars
  BY <1>1 DEF Edit, Age, PruneStat, PruneUnlink, vars
<1>2. CASE TryToStop
  BY <1>2 DEF TryToStop, InTurn, Steps
<1>3. CASE Settle
  BY <1>3 DEF Settle, Steps
<1>4. CASE Prompt
  BY <1>4 DEF Prompt
<1>5. ASSUME NEW g \in Handlers, HandlerStep(g) \/ Kill(g) PROVE pc'[h] = pc[h] \/ Ended(h)'
  <2>1. \E step : pc' = [pc EXCEPT ![g] = step]
    BY <1>5 DEF HandlerStep, ReadInput, Analyse, Decide, RecordBlock, EmitBlock, ClearOnPass,
       Kill, Goto, Answer
  <2>2. CASE g # h
    BY <2>1, <2>2
  <2>3. CASE g = h
    BY <1>5, <2>3 DEF Kill, Goto, Answer
  <2> QED
    BY <2>2, <2>3
<1> QED
  BY <1>1, <1>2, <1>3, <1>4, <1>5 DEF Next

\* Its own step goes to a later stage.
GoesOn(h) ==
    /\ Stage(h, "input") => Stage(h, "analyse")'
    /\ Stage(h, "analyse") => Stage(h, "decide")' \/ Stage(h, "clear")' \/ Ended(h)'
    /\ Stage(h, "decide") => Stage(h, "record")' \/ Ended(h)'
    /\ Stage(h, "record") => Stage(h, "emit")'
    /\ Stage(h, "emit") \/ Stage(h, "clear") => Ended(h)'

LEMMA StageEnds ==
    ASSUME NEW h \in Handlers, TurnInv, HandlerStep(h)
    PROVE  GoesOn(h)
<1> USE DEF GoesOn, Stage, Ended, TurnInv, TypeInv, TypeOK, At, Goto, Answer
<1>1. CASE ReadInput(h)
  BY <1>1 DEF ReadInput
<1>2. CASE Analyse(h)
  BY <1>2 DEF Analyse, AfterVerdict
<1>3. CASE Decide(h)
  BY <1>3 DEF Decide
<1>4. CASE RecordBlock(h)
  BY <1>4 DEF RecordBlock
<1>5. CASE EmitBlock(h) \/ ClearOnPass(h)
  BY <1>5 DEF EmitBlock, ClearOnPass
<1> QED
  BY <1>1, <1>2, <1>3, <1>4, <1>5 DEF HandlerStep

\* A stage is left by the handler's own step or by its end.
StaysOrGoesOn(h) ==
    /\ Stage(h, "input") => Stage(h, "input")' \/ GoesOn(h) \/ Ended(h)'
    /\ Stage(h, "analyse") => Stage(h, "analyse")' \/ GoesOn(h) \/ Ended(h)'
    /\ Stage(h, "decide") => Stage(h, "decide")' \/ GoesOn(h) \/ Ended(h)'
    /\ Stage(h, "record") => Stage(h, "record")' \/ GoesOn(h) \/ Ended(h)'
    /\ Stage(h, "emit") => Stage(h, "emit")' \/ GoesOn(h) \/ Ended(h)'
    /\ Stage(h, "clear") => Stage(h, "clear")' \/ GoesOn(h) \/ Ended(h)'

LEMMA HandlerStages ==
    ASSUME NEW h \in Handlers
    PROVE  /\ TurnInv /\ [Next]_vars => StaysOrGoesOn(h)
           /\ TurnInv /\ <<HandlerStep(h)>>_vars => GoesOn(h)
           /\ Running(h) <=> \/ Stage(h, "input") \/ Stage(h, "analyse") \/ Stage(h, "decide")
                             \/ Stage(h, "record") \/ Stage(h, "emit") \/ Stage(h, "clear")
<1>1. TurnInv /\ <<HandlerStep(h)>>_vars => GoesOn(h)
  BY StageEnds
<1>2. ASSUME TurnInv, [Next]_vars, NEW step \in Steps, Stage(h, step)
      PROVE  Stage(h, step)' \/ GoesOn(h) \/ Ended(h)'
  <2>1. CASE HandlerStep(h)
    BY <1>2, <2>1, StageEnds
  <2>2. CASE ~HandlerStep(h)
    BY <1>2, <2>2, StageStays DEF Stage, Running
  <2> QED
    BY <2>1, <2>2
<1>3. TurnInv /\ [Next]_vars => StaysOrGoesOn(h)
  BY <1>2, Zenon DEF StaysOrGoesOn, Steps
<1>4. Running(h) <=> \/ Stage(h, "input") \/ Stage(h, "analyse") \/ Stage(h, "decide")
                     \/ Stage(h, "record") \/ Stage(h, "emit") \/ Stage(h, "clear")
  BY DEF Running, Stage, Steps
<1> QED
  BY <1>1, <1>3, <1>4

\* A handler that runs ends, whatever the others, Claude Code, the user and a
\* prune do meanwhile: no handler waits for anybody (_cmd_check takes no lock
\* and the record's writers never retry).
THEOREM HandlerAnswers ==
    ASSUME NEW h \in Handlers
    PROVE  Spec /\ WF_vars(HandlerStep(h)) /\ [](Running(h) => ENABLED <<HandlerStep(h)>>_vars)
             => (Running(h) ~> Ended(h))
BY TurnStarts, TurnKeeps, HandlerStages, PTL DEF Spec, StaysOrGoesOn, GoesOn

-----------------------------------------------------------------------------
(* Stops come to an end.  From the moment nothing is lost and the tree is   *)
(* left alone, a stop that is held back leaves the record with the set it   *)
(* was held back for; a prune can spoil that once, and then no more.  With  *)
(* the record there every handler of the next stop releases.                *)

Working  == turn = "working"
Stopping == turn = "stopping"
Stopped  == turn = "stopped"
Loss     == InputLost \/ RecordLost \/ OthersBlock

\* Handlers of one version report alike.
OneVersion == \A g, h \in Handlers : Sees[g] = Sees[h]

Found(h) == tree.set \cap Sees[h]

\* A stop that is a continuation, and whose handlers know it.
Continuing ==
    /\ active
    /\ \A h \in Handlers :
         /\ pc[h] \in {"analyse", "decide", "record", "emit", "clear"} => input[h] = "active"
         /\ pc[h] \in {"decide", "record", "emit", "clear"} => got[h] = Found(h)
         /\ pc[h] = "clear" => got[h] = {}
         /\ say[h].kind # "oversize"

Recorded == \A h \in Handlers : rec = Found(h)

\* Whoever blocks at this stop has recorded it.
BlocksRecorded == \A h \in Handlers : pc[h] = "emit" \/ say[h].kind = "block" => Recorded

\* Nobody blocks at this stop, nor at the next.
Releasing ==
    /\ Recorded
    /\ \A h \in Handlers : pc[h] \notin {"record", "emit"} /\ say[h].kind # "block"

\* There is nothing for a prune.
Young == ~aged /\ ~doomed

Undisturbed == [Next]_vars /\ [~Loss]_vars /\ [UNCHANGED tree]_vars

LEMMA OnlySettleEnds ==
    ASSUME TurnInv, Stopping, [Next]_vars, ~Stopping'
    PROVE  Settle
<1>1. ASSUME NEW h \in Handlers, HandlerStep(h) \/ Kill(h) PROVE Stopping'
  BY <1>1 DEF HandlerStep, ReadInput, Analyse, AfterVerdict, Decide, RecordBlock, EmitBlock,
     ClearOnPass, Kill, claude, Stopping
<1>2. CASE Edit \/ Age \/ PruneStat \/ PruneUnlink \/ UNCHANGED vars
  BY <1>2 DEF Edit, Age, PruneStat, PruneUnlink, vars, claude, Stopping
<1>3. CASE TryToStop \/ Prompt
  BY <1>3 DEF TryToStop, Prompt, Stopping
<1> QED
  BY <1>1, <1>2, <1>3 DEF Next

\* A stop that is held back was held back by a block of ours.
LEMMA HeldBackByBlock ==
    ASSUME TurnInv, Stopping, Undisturbed, Settle, ~Stopped'
    PROVE  /\ Working' /\ active' /\ rec' = rec
           /\ \E h \in Handlers : say[h].kind \in {"block", "oversize"}
           /\ \A h \in Handlers : pc'[h] = "idle" /\ say'[h] = Nothing
<1> DEFINE held == \E h \in Handlers : say[h].kind \in {"block", "oversize"}
<1>1. PICK other \in {FALSE, Others} :
        /\ turn' = IF held \/ other THEN "working" ELSE "stopped"
        /\ active' = (active \/ held \/ other)
        /\ ours' = held
  BY DEF Settle
<1>2. turn' = "working" /\ (held \/ other)
  BY <1>1 DEF Stopped
<1>3. active'
  BY <1>1, <1>2
<1>4. ~OthersBlock
  BY <1>2 DEF Undisturbed, Stopping, vars, claude, Loss
<1>5. held
  BY <1>1, <1>2, <1>4 DEF OthersBlock, Stopping
<1> QED
  BY <1>2, <1>3, <1>5 DEF Settle, Working, disk

\* What a step of a handler, or a kill, may do in a continuation.
LEMMA HandlerContinues ==
    ASSUME OneVersion, TurnInv, Continuing, Undisturbed, ~tree.big,
           NEW h \in Handlers, HandlerStep(h) \/ Kill(h)
    PROVE  /\ Continuing'
           /\ BlocksRecorded => BlocksRecorded'
           /\ Releasing => Releasing'
<1>t. TypeInv /\ TypeInv'
  BY TurnKeeps DEF TurnInv, Undisturbed
<1>v. vars' # vars
  BY <1>t, StopAssumption DEF HandlerStep, ReadInput, Analyse, AfterVerdict, Decide, RecordBlock, EmitBlock,
     ClearOnPass, Kill, At, Goto, Answer, vars, TypeInv, TypeOK, Steps
<1>n. UNCHANGED tree /\ ~InputLost /\ ~RecordLost
  BY <1>v DEF Undisturbed, Loss
<1>f. \A g \in Handlers : Found(g) = Found(h) /\ Found(g)' = Found(g)
  BY <1>n DEF Found, OneVersion
<1> USE DEF TypeInv, TypeOK, At, Goto, Answer, claude, disk
<1>1. CASE ReadInput(h)
  <2>1. input'[h] = "active"
    BY <1>1, <1>n, <1>t DEF ReadInput, InputLost, Continuing
  <2> QED
    BY <1>1, <2>1, <1>t, <1>f DEF ReadInput, Continuing, BlocksRecorded, Releasing, Recorded
<1>2. CASE Analyse(h)
  <2>1. UNCHANGED <<active, rec, input>>
    BY <1>2 DEF Analyse
  <2>2. \/ /\ got' = [got EXCEPT ![h] = Found(h)] /\ say' = say
           /\ \/ Found(h) = {} /\ pc' = [pc EXCEPT ![h] = "clear"]
              \/ Found(h) # {} /\ pc' = [pc EXCEPT ![h] = "decide"]
        \/ /\ got' = got /\ pc' = [pc EXCEPT ![h] = "done"]
           /\ say' = [say EXCEPT ![h] = [kind |-> "nothing", set |-> {}]]
    BY <1>2 DEF Analyse, AfterVerdict, Found
  <2>3. pc[h] = "analyse"
    BY <1>2 DEF Analyse
  <2> QED
    BY <2>1, <2>2, <2>3, <1>t, <1>f DEF Continuing, BlocksRecorded, Releasing, Recorded
<1>3. CASE Decide(h)
  <2>1. got[h] = Found(h) /\ input[h] = "active"
    BY <1>3 DEF Decide, Continuing
  <2>2. Recorded => Releases(h)
    BY <2>1 DEF Recorded, Releases
  <2> QED
    BY <1>3, <2>1, <2>2, <1>t, <1>f DEF Decide, Continuing, BlocksRecorded, Releasing, Recorded
<1>4. CASE RecordBlock(h)
  <2>1. rec' = got[h] /\ got[h] = Found(h) /\ got' = got
    BY <1>4, <1>n, <1>t DEF RecordBlock, RecordLost, Continuing
  <2>2. Recorded'
    BY <2>1, <1>f DEF Recorded
  <2>3. Continuing'
    BY <1>4, <1>t, <1>f DEF RecordBlock, Continuing
  <2> QED
    BY <1>4, <2>2, <2>3 DEF RecordBlock, BlocksRecorded, Releasing
<1>5. CASE EmitBlock(h)
  <2>1. Recorded = Recorded'
    BY <1>5, <1>f DEF EmitBlock, Recorded
  <2>2. Continuing'
    BY <1>5, <1>t, <1>f DEF EmitBlock, Continuing
  <2> QED
    BY <1>5, <2>1, <2>2, <1>t DEF EmitBlock, BlocksRecorded, Releasing
<1>6. CASE ClearOnPass(h)
  <2>1. Found(h) = {} /\ (rec' = {} \/ rec' = rec)
    BY <1>6 DEF ClearOnPass, Continuing
  <2>2. Recorded => Recorded'
    BY <2>1, <1>f DEF Recorded
  <2> QED
    BY <1>6, <2>2, <1>t, <1>f DEF ClearOnPass, Continuing, BlocksRecorded, Releasing
<1>7. CASE Kill(h)
  <2>1. Recorded = Recorded'
    BY <1>7, <1>f DEF Kill, Recorded
  <2> QED
    BY <1>7, <2>1, <1>t, <1>f DEF Kill, Continuing, BlocksRecorded, Releasing
<1> QED
  BY <1>1, <1>2, <1>3, <1>4, <1>5, <1>6, <1>7 DEF HandlerStep

\* One step of a continuation that is not let go.
LEMMA ContinuationStep ==
    ASSUME OneVersion, TurnInv, Continuing, Undisturbed, ~tree.big, ~Stopped, ~Stopped'
    PROVE  /\ Continuing'
           /\ ~PruneUnlink /\ BlocksRecorded => BlocksRecorded'
           /\ ~PruneUnlink /\ Releasing => Releasing'
<1> USE DEF Continuing, BlocksRecorded, Releasing, Recorded, Found
<1>1. ASSUME NEW h \in Handlers, HandlerStep(h) \/ Kill(h)
      PROVE  /\ Continuing'
             /\ BlocksRecorded => BlocksRecorded'
             /\ Releasing => Releasing'
  BY <1>1, HandlerContinues
<1>2. CASE Edit \/ Age \/ PruneStat \/ UNCHANGED vars
  <2>1. UNCHANGED <<active, pc, input, got, say, rec, tree>>
    BY <1>2 DEF Edit, Age, PruneStat, vars, claude, disk, Undisturbed
  <2> QED
    BY <2>1
<1>3. CASE PruneUnlink
  BY <1>3 DEF PruneUnlink, claude
<1>4. CASE TryToStop
  BY <1>4 DEF TryToStop, disk, TurnInv, InTurn
<1>5. CASE Settle
  <2>1. Stopping
    BY <1>5 DEF Settle, Stopping
  <2>2. /\ active' /\ rec' = rec /\ tree' = tree
        /\ \A h \in Handlers : pc'[h] = "idle" /\ say'[h] = Nothing
    BY <1>5, <2>1, HeldBackByBlock DEF Settle
  <2> QED
    BY <2>2 DEF Nothing
<1>6. CASE Prompt
  BY <1>6 DEF Prompt, Stopped
<1> QED
  BY <1>1, <1>2, <1>3, <1>4, <1>5, <1>6 DEF Next, Undisturbed

\* How a stop ends that is not let go.
LEMMA StopHeldBack ==
    ASSUME OneVersion, TurnInv, Stopping, Undisturbed, ~Stopped', ~Stopping'
    PROVE  /\ Working' /\ Continuing' /\ BlocksRecorded'
           /\ Continuing /\ BlocksRecorded => Releasing'
           /\ ~(Continuing /\ Releasing)
<1>1. Settle
  BY OnlySettleEnds DEF Undisturbed
<1>2. /\ Working' /\ active' /\ rec' = rec
      /\ \E h \in Handlers : say[h].kind \in {"block", "oversize"}
      /\ \A h \in Handlers : pc'[h] = "idle" /\ say'[h] = Nothing
  BY <1>1, HeldBackByBlock
<1>3. tree' = tree
  BY <1>1 DEF Settle
<1>4. Continuing' /\ BlocksRecorded'
  BY <1>2 DEF Continuing, BlocksRecorded, Nothing
<1>5. Continuing => \E h \in Handlers : say[h].kind = "block"
  BY <1>2 DEF Continuing
<1>6. Recorded => Recorded'
  BY <1>2, <1>3 DEF Recorded, Found
<1>7. Continuing /\ BlocksRecorded => Releasing'
  BY <1>2, <1>5, <1>6 DEF BlocksRecorded, Releasing, Nothing
<1>8. ~(Continuing /\ Releasing)
  BY <1>5 DEF Releasing
<1> QED
  BY <1>2, <1>4, <1>7, <1>8

\* A record ages only between turns, so a prune under way is the last.
LEMMA LastPrune ==
    ASSUME TurnInv, [Next]_vars, ~Stopped
    PROVE  /\ Young => Young' /\ [~PruneUnlink]_vars
           /\ ~[~PruneUnlink]_vars => Young'
<1> USE DEF Young, Stopped
<1>1. ASSUME NEW h \in Handlers, HandlerStep(h) \/ Kill(h)
      PROVE  doomed' = doomed /\ (aged' = aged \/ aged' = FALSE)
  BY <1>1 DEF HandlerStep, ReadInput, Analyse, Decide, RecordBlock, EmitBlock, ClearOnPass, Kill, disk
<1>2. ASSUME Edit \/ TryToStop \/ Settle \/ Prompt \/ UNCHANGED vars
      PROVE  UNCHANGED <<aged, doomed>>
  BY <1>2 DEF Edit, TryToStop, Settle, Prompt, vars, disk
<1>3. CASE Age \/ PruneStat \/ PruneUnlink
  BY <1>3 DEF Age, PruneStat, PruneUnlink
<1>4. PruneUnlink => doomed /\ Young'
  BY DEF PruneUnlink
<1>5. Young => Young'
  BY <1>1, <1>2, <1>3 DEF Next
<1> QED
  BY <1>4, <1>5

\* What a temporal step uses of them, for a turn that is never let go.
Going == TurnInv /\ ~Stopped /\ ~tree.big

LEMMA HeldBack ==
    ASSUME OneVersion
    PROVE  /\ Going /\ Going' /\ [Next]_vars /\ [~Loss]_vars /\ [UNCHANGED tree]_vars
                => /\ Stopping => Stopping' \/ (Working' /\ Continuing' /\ BlocksRecorded')
                   /\ Continuing => Continuing'
                   /\ Continuing /\ BlocksRecorded /\ Stopping => Stopping' \/ Releasing'
                   /\ Continuing /\ Releasing /\ Stopping => Stopping'
           /\ Going /\ Going' /\ [Next]_vars /\ [~Loss]_vars /\ [UNCHANGED tree]_vars /\ [~PruneUnlink]_vars
                => /\ Continuing /\ BlocksRecorded => BlocksRecorded'
                   /\ Continuing /\ Releasing => Releasing'
<1> SUFFICES ASSUME Going, Going', Undisturbed
             PROVE  /\ Stopping => Stopping' \/ (Working' /\ Continuing' /\ BlocksRecorded')
                    /\ Continuing => Continuing'
                    /\ Continuing /\ BlocksRecorded /\ Stopping => Stopping' \/ Releasing'
                    /\ Continuing /\ Releasing /\ Stopping => Stopping'
                    /\ [~PruneUnlink]_vars =>
                         /\ Continuing /\ BlocksRecorded => BlocksRecorded'
                         /\ Continuing /\ Releasing => Releasing'
  BY DEF Undisturbed
<1>1. CASE UNCHANGED vars
  <2>1. UNCHANGED <<turn, active, tree, rec, pc, input, got, say>>
    BY <1>1 DEF vars, claude, disk
  <2> QED
    BY <2>1 DEF Stopping, Continuing, BlocksRecorded, Releasing, Recorded, Found
<1>2. CASE vars' # vars
  BY <1>2, ContinuationStep, StopHeldBack DEF Going
<1> QED
  BY <1>1, <1>2

-----------------------------------------------------------------------------
(* With the two handlers the code knows, of the local and of the shared    *)
(* settings, every stop ends: no fairness but that of the handlers, of     *)
(* Claude Code collecting their answers, and of Claude ending its turns.   *)

AllEnded == \A h \in Handlers : Ended(h)

\* FairSpec, for handlers a and b.
FairWith(a, b) ==
    /\ Spec
    /\ WF_vars(HandlerStep(a)) /\ WF_vars(HandlerStep(b))
    /\ WF_vars(Settle)
    /\ WF_vars(TryToStop)

\* Where fairness asks for a step, there is one.
StepsArePossible(a, b) ==
    /\ [](Running(a) => ENABLED <<HandlerStep(a)>>_vars)
    /\ [](Running(b) => ENABLED <<HandlerStep(b)>>_vars)
    /\ [](Stopping /\ AllEnded => ENABLED <<Settle>>_vars)
    /\ [](Working => ENABLED <<TryToStop>>_vars)

LEMMA EndedStays ==
    ASSUME NEW h \in Handlers
    PROVE  TurnInv /\ [Next]_vars /\ Stopping /\ Ended(h) => Ended(h)' \/ ~Stopping'
<1> SUFFICES ASSUME TurnInv, [Next]_vars, Stopping, Ended(h), Stopping' PROVE Ended(h)'
  OBVIOUS
<1> USE DEF Ended, Stopping, TurnInv, TypeInv, TypeOK
<1>1. CASE Edit \/ Age \/ PruneStat \/ PruneUnlink \/ UNCHANGED vars
  BY <1>1 DEF Edit, Age, PruneStat, PruneUnlink, vars
<1>2. CASE TryToStop \/ Settle \/ Prompt
  BY <1>2 DEF TryToStop, Settle, Prompt
<1>3. ASSUME NEW g \in Handlers, HandlerStep(g) \/ Kill(g) PROVE Ended(h)'
  <2>1. pc[g] # "done" /\ \E step : pc' = [pc EXCEPT ![g] = step]
    BY <1>3, StopAssumption DEF HandlerStep, ReadInput, Analyse, Decide, RecordBlock, EmitBlock,
       ClearOnPass, Kill, At, Goto, Answer, Steps
  <2> QED
    BY <2>1
<1> QED
  BY <1>1, <1>2, <1>3 DEF Next

\* Every stop attempt is settled.
LEMMA StopsSettle ==
    ASSUME NEW a, NEW b, Handlers = {a, b}
    PROVE  FairWith(a, b) /\ StepsArePossible(a, b) => (Stopping ~> Working \/ Stopped)
<1>1. a \in Handlers /\ b \in Handlers
  OBVIOUS
<1>2. TurnInv /\ [Next]_vars /\ Stopping /\ Ended(a) => Ended(a)' \/ ~Stopping'
  BY <1>1, EndedStays
<1>3. TurnInv /\ [Next]_vars /\ Stopping /\ Ended(b) => Ended(b)' \/ ~Stopping'
  BY <1>1, EndedStays
<1>4. TurnInv => /\ Stopping => (Running(a) \/ Ended(a)) /\ (Running(b) \/ Ended(b))
                 /\ Stopping \/ Working \/ Stopped
  BY <1>1 DEF TurnInv, TypeInv, TypeOK, Busy, Running, Ended, Stopping, Working, Stopped
<1>5. AllEnded <=> Ended(a) /\ Ended(b)
  BY DEF AllEnded
<1>6. TurnInv' /\ <<Settle>>_vars => Working' \/ Stopped'
  BY DEF Settle, Working, Stopped
<1>7. Spec /\ WF_vars(HandlerStep(a)) /\ [](Running(a) => ENABLED <<HandlerStep(a)>>_vars)
        => (Running(a) ~> Ended(a))
  <2>1. /\ TurnInv /\ [Next]_vars => StaysOrGoesOn(a)
        /\ TurnInv /\ <<HandlerStep(a)>>_vars => GoesOn(a)
        /\ Running(a) <=> \/ Stage(a, "input") \/ Stage(a, "analyse") \/ Stage(a, "decide")
                          \/ Stage(a, "record") \/ Stage(a, "emit") \/ Stage(a, "clear")
    BY <1>1, HandlerStages
  <2> QED
    BY TurnStarts, TurnKeeps, <2>1, PTL DEF Spec, StaysOrGoesOn, GoesOn
<1>8. Spec /\ WF_vars(HandlerStep(b)) /\ [](Running(b) => ENABLED <<HandlerStep(b)>>_vars)
        => (Running(b) ~> Ended(b))
  <2>1. /\ TurnInv /\ [Next]_vars => StaysOrGoesOn(b)
        /\ TurnInv /\ <<HandlerStep(b)>>_vars => GoesOn(b)
        /\ Running(b) <=> \/ Stage(b, "input") \/ Stage(b, "analyse") \/ Stage(b, "decide")
                          \/ Stage(b, "record") \/ Stage(b, "emit") \/ Stage(b, "clear")
    BY <1>1, HandlerStages
  <2> QED
    BY TurnStarts, TurnKeeps, <2>1, PTL DEF Spec, StaysOrGoesOn, GoesOn
<1> QED
  BY TurnStarts, TurnKeeps, <1>2, <1>3, <1>4, <1>5, <1>6, <1>7, <1>8, PTL
     DEF FairWith, StepsArePossible, Spec

\* And if it is not let go, another follows.
LEMMA TurnsEnd ==
    ASSUME NEW a, NEW b
    PROVE  FairWith(a, b) /\ StepsArePossible(a, b) => (Working ~> Stopping)
<1>1. Working /\ [Next]_vars => Working' \/ Stopping'
  <2>1. ASSUME NEW h \in Handlers, HandlerStep(h) \/ Kill(h) PROVE UNCHANGED turn
    BY <2>1 DEF HandlerStep, ReadInput, Analyse, AfterVerdict, Decide, RecordBlock, EmitBlock,
       ClearOnPass, Kill, claude
  <2> QED
    BY <2>1 DEF Next, Edit, TryToStop, Settle, Prompt, Age, PruneStat, PruneUnlink, vars, claude,
       Working, Stopping
<1>2. <<TryToStop>>_vars => Stopping'
  BY DEF TryToStop, Stopping
<1> QED
  BY <1>1, <1>2, PTL DEF FairWith, StepsArePossible, Spec

\* Blocking never presses Claude for ever (StopsInTheEnd): with the handlers
\* of one version in both settings files or in one (a = b), for any findings,
\* and provided the tree is some day left alone.
THEOREM EveryStopEnds ==
    ASSUME NEW a, NEW b, Handlers = {a, b}, OneVersion
    PROVE  FairWith(a, b) /\ StepsArePossible(a, b) /\ <>[][UNCHANGED tree]_vars => StopsInTheEnd
<1> DEFINE Over == Stopped \/ tree.big
<1>1. Going => TurnInv /\ ~Stopped
  BY DEF Going
<1>o. TurnInv /\ ~Over => Going
  BY DEF Going
<1>2. TurnInv /\ [Next]_vars /\ Going =>
        /\ Young => Young' /\ [~PruneUnlink]_vars
        /\ ~[~PruneUnlink]_vars => Young'
  BY LastPrune DEF Going
<1>3. /\ Going /\ Going' /\ [Next]_vars /\ [~Loss]_vars /\ [UNCHANGED tree]_vars
           => /\ Stopping => Stopping' \/ (Working' /\ Continuing' /\ BlocksRecorded')
              /\ Continuing => Continuing'
              /\ Continuing /\ BlocksRecorded /\ Stopping => Stopping' \/ Releasing'
              /\ Continuing /\ Releasing /\ Stopping => Stopping'
      /\ Going /\ Going' /\ [Next]_vars /\ [~Loss]_vars /\ [UNCHANGED tree]_vars /\ [~PruneUnlink]_vars
           => /\ Continuing /\ BlocksRecorded => BlocksRecorded'
              /\ Continuing /\ Releasing => Releasing'
  BY HeldBack
<1>4. FairWith(a, b) /\ StepsArePossible(a, b) =>
         (Stopping ~> Working \/ Stopped) /\ (Working ~> Stopping)
  BY StopsSettle, TurnsEnd, PTL
<1>5. Stopped => ~Stopping
  BY DEF Stopped, Stopping
<1>6. Working => ~Stopping
  BY DEF Working, Stopping
<1>7. FairWith(a, b) => []TurnInv /\ [][Next]_vars
  BY TurnStarts, TurnKeeps, PTL DEF FairWith, Spec
<1>8. FairWith(a, b) /\ StepsArePossible(a, b) /\ <>[][UNCHANGED tree]_vars /\ <>[][~Loss]_vars
        => (Stopping ~> Over)
  <2> HIDE DEF Over
  <2>1. Stopped => Over
    BY DEF Over
  <2>2. /\ [][Next]_vars /\ <>[][~Loss]_vars /\ <>[][UNCHANGED tree]_vars
        /\ (Stopping ~> Working \/ Stopped) /\ (Working ~> Stopping)
        => ~<>(Stopping /\ []Going)
    BY <1>1, <1>2, <1>3, <1>6, PTL
  <2>3. []TurnInv /\ ~<>(Stopping /\ []Going) => (Stopping ~> Over)
    BY <1>o, PTL
  <2> QED
    BY <1>4, <1>7, <2>2, <2>3, PTL
<1> QED
  BY <1>8, PTL DEF StopsInTheEnd, Over, Stopping, Stopped, Loss

=============================================================================
