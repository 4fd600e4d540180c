------------------------ MODULE SessionWindow_proofs ------------------------
(***************************************************************************)
(* For any sessions, start hooks, commits, clock and failures of Git: the  *)
(* policy of a session's Stop is never one the session committed, a bare   *)
(* pass leaves none of its commits out, and no record is ever replaced.    *)
(* Where Git answers and hooks end within the day, no prune takes a file   *)
(* from the start hook that is writing it, nor a record that is in force.  *)
(***************************************************************************)
EXTENDS SessionWindow, TLAPS

LEMMA TypeInit == Init => TypeOK
<1> SUFFICES ASSUME Init PROVE TypeOK
  OBVIOUS
<1> USE SessionAssumption DEF Init
<1>1. 1 \in Commits /\ hist \in [Commits -> SUBSET Commits]
  BY DEF Commits
<1>2. file \in [Sessions -> FileState]
  BY DEF FileState, Absent
<1>3. starter \in [Starters -> StarterState]
  BY DEF StarterState, Resting, Sources
<1>4. stop \in [Sessions -> StopState]
  BY DEF StopState, NoStop, Inputs
<1>5. out \in [Sessions -> Outcome]
  BY DEF Outcome, Nothing, Inputs
<1> QED
  BY <1>1, <1>2, <1>3, <1>4, <1>5 DEF TypeOK, Authors

LEMMA RestingTyped == Resting \in StarterState /\ Absent \in FileState
BY SessionAssumption DEF Resting, Absent, StarterState, FileState, Sources

LEMMA GotoTyped ==
    ASSUME TypeOK, NEW p \in Starters,
           Finish(p) \/ \E step \in {"head", "create", "write", "list", "scan"} : Goto(p, step)
    PROVE  starter' \in [Starters -> StarterState]
<1>1. ASSUME NEW step \in {"head", "create", "write", "list", "scan"}, Goto(p, step)
      PROVE  starter' \in [Starters -> StarterState]
  <2>1. starter \in [Starters -> StarterState]
    BY DEF TypeOK
  <2> QED
    BY <1>1, <2>1 DEF Goto, StarterState
<1>2. CASE Finish(p)
  BY <1>2, RestingTyped DEF Finish, TypeOK
<1> QED
  BY <1>1, <1>2

LEMMA StarterSteps ==
    ASSUME TypeOK, NEW p \in Starters, StarterStep(p)
    PROVE  starter' \in [Starters -> StarterState]
<1> USE DEF TypeOK
<1>1. ASSUME NEW s \in Sessions, NEW source \in Sources, Fire(p, s, source)
      PROVE  starter' \in [Starters -> StarterState]
  <2>1. [Resting EXCEPT !.pc = "input", !.session = s, !.source = source] \in StarterState
    BY RestingTyped DEF StarterState
  <2> QED
    BY <1>1, <2>1 DEF Fire
<1>2. CASE ReadStartInput(p) \/ CreateRecord(p) \/ WriteRecord(p) \/ StarterDies(p)
  BY <1>2, GotoTyped DEF ReadStartInput, CreateRecord, WriteRecord, StarterDies
<1>3. CASE ResolveStartHead(p)
  <2>1. [starter[p] EXCEPT !.pc = "create", !.head = head, !.now = now] \in StarterState
    BY DEF StarterState
  <2>2. CASE starter' = [starter EXCEPT ![p].pc = "create", ![p].head = head, ![p].now = now]
    BY <2>1, <2>2
  <2> QED
    BY <1>3, <2>2, GotoTyped DEF ResolveStartHead
<1>4. CASE ListRecords(p)
  <2> DEFINE listed == {s \in Sessions \ {starter[p].session} : file[s].kind # "absent"}
  <2>1. [starter[p] EXCEPT !.pc = "scan", !.entries = listed] \in StarterState
    BY DEF StarterState
  <2> QED
    BY <1>4, <2>1 DEF ListRecords
<1>5. CASE ScanRecord(p)
  <2>1. ASSUME NEW s \in starter[p].entries, NEW rest, rest = starter[p].entries \ {s}
        PROVE  /\ [starter[p] EXCEPT !.pc = "unlink", !.victim = s, !.entries = rest] \in StarterState
               /\ [starter[p] EXCEPT !.entries = rest] \in StarterState
    BY <2>1 DEF StarterState
  <2>2. CASE Finish(p)
    BY <2>2, GotoTyped
  <2>3. ASSUME NEW s \in starter[p].entries, NEW rest, rest = starter[p].entries \ {s},
               \/ starter' = [starter EXCEPT ![p].pc = "unlink", ![p].victim = s, ![p].entries = rest]
               \/ starter' = [starter EXCEPT ![p].entries = rest]
        PROVE  starter' \in [Starters -> StarterState]
    <3>1. \/ starter' = [starter EXCEPT ![p] = [starter[p] EXCEPT !.pc = "unlink", !.victim = s,
                                                                   !.entries = rest]]
          \/ starter' = [starter EXCEPT ![p] = [starter[p] EXCEPT !.entries = rest]]
      BY <2>3
    <3>2. starter \in [Starters -> StarterState]
      OBVIOUS
    <3>3. /\ [starter[p] EXCEPT !.pc = "unlink", !.victim = s, !.entries = rest] \in StarterState
          /\ [starter[p] EXCEPT !.entries = rest] \in StarterState
      BY <2>1, <2>3
    <3> HIDE DEF TypeOK
    <3> QED
      BY <3>1, <3>2, <3>3
  <2> QED
    BY <1>5, <2>2, <2>3 DEF ScanRecord
<1>6. CASE UnlinkRecord(p)
  <2>1. [starter[p] EXCEPT !.pc = "scan", !.victim = NoOne] \in StarterState
    BY DEF StarterState
  <2> QED
    BY <1>6, <2>1 DEF UnlinkRecord
<1> QED
  BY <1>1, <1>2, <1>3, <1>4, <1>5, <1>6 DEF StarterStep

LEMMA FileSteps ==
    ASSUME TypeOK, NEW p \in Starters, StarterStep(p)
    PROVE  file' \in [Sessions -> FileState]
<1> USE DEF TypeOK
<1>1. CASE CreateRecord(p)
  <2>1. Torn(p) \in FileState
    BY SessionAssumption DEF Torn, FileState
  <2> QED
    BY <1>1, <2>1 DEF CreateRecord
<1>2. CASE WriteRecord(p)
  <2>1. Record(starter[p].head, starter[p].now) \in FileState
    BY DEF Record, FileState, StarterState
  <2> QED
    BY <1>2, <2>1 DEF WriteRecord
<1>3. CASE UnlinkRecord(p)
  BY <1>3, RestingTyped DEF UnlinkRecord
<1>4. CASE UNCHANGED file
  BY <1>4
<1> QED
  BY <1>1, <1>2, <1>3, <1>4 DEF StarterStep, Fire, ReadStartInput, ResolveStartHead, ListRecords,
                               ScanRecord, StarterDies

LEMMA TypeStarter ==
    ASSUME TypeOK, NEW p \in Starters, StarterStep(p)
    PROVE  TypeOK'
<1>1. UNCHANGED <<repository, now, stop, out>>
  BY DEF StarterStep, Fire, ReadStartInput, ResolveStartHead, CreateRecord, WriteRecord,
         ListRecords, ScanRecord, UnlinkRecord, StarterDies
<1>2. phase' \in [Sessions -> {"new", "starting", "live"}]
  BY DEF TypeOK, StarterStep, Fire, ReadStartInput, ResolveStartHead, CreateRecord, WriteRecord,
         ListRecords, ScanRecord, UnlinkRecord, StarterDies
<1> QED
  BY <1>1, <1>2, StarterSteps, FileSteps DEF TypeOK, repository

LEMMA TypeSay ==
    ASSUME TypeOK, NEW s \in Sessions, NEW kind \in {"nothing", "silent", "note", "block", "error"},
           NEW read \in SUBSET Commits, NEW at \in Commits \cup {NoCommit}, Say(s, kind, read, at)
    PROVE  stop' \in [Sessions -> StopState] /\ out' \in [Sessions -> Outcome]
<1> USE DEF TypeOK, Say
<1>1. NoStop \in StopState
  BY DEF NoStop, StopState, Inputs
<1>2. PolicySide(stop[s].base, at) \in Commits \cup {NoCommit}
  BY DEF PolicySide, StopState
<1>3. [kind |-> kind, input |-> stop[s].input, based |-> stop[s].base # NoCommit,
       policy |-> PolicySide(stop[s].base, at), at |-> at, read |-> read] \in Outcome
  BY <1>2 DEF Outcome, StopState
<1> QED
  BY <1>1, <1>3

LEMMA TypeStop ==
    ASSUME TypeOK, NEW s \in Sessions, StopStep(s)
    PROVE  TypeOK'
<1> DEFINE Typed == stop' \in [Sessions -> StopState] /\ out' \in [Sessions -> Outcome]
<1>0. /\ stop \in [Sessions -> StopState] /\ out \in [Sessions -> Outcome]
      /\ head \in Commits
      /\ hist \in [Commits -> SUBSET Commits]
      /\ file \in [Sessions -> FileState]
      /\ made \subseteq Commits
  BY DEF TypeOK
<1>1. UNCHANGED <<repository, now, file, phase, starter>>
  BY DEF StopStep, StopFires, ResolveWindowHead, ReadRecord, CompareWithHead, Verdict,
         AnalyseSessionCommits, StopDies
<1> SUFFICES Typed
  BY <1>1 DEF repository, TypeOK
<1>2. NoStop \in StopState /\ Nothing \in Outcome
  BY DEF NoStop, Nothing, StopState, Outcome, Inputs
<1>3. ASSUME NEW r \in StopState, stop' = [stop EXCEPT ![s] = r], UNCHANGED out PROVE Typed
  BY <1>0, <1>3
<1>4. ASSUME NEW kind \in {"silent", "note", "block", "error"}, NEW read \in SUBSET Commits,
             NEW at \in Commits \cup {NoCommit}, Say(s, kind, read, at)
      PROVE  Typed
  BY <1>4, TypeSay
<1>5. \A step \in {"record", "merge", "verdict", "session"}, c \in Commits \cup {NoCommit} :
          /\ [stop[s] EXCEPT !.pc = step] \in StopState
          /\ [stop[s] EXCEPT !.head = c, !.pc = step] \in StopState
          /\ [stop[s] EXCEPT !.pc = step, !.recorded = c] \in StopState
          /\ [stop[s] EXCEPT !.pc = step, !.base = c] \in StopState
  BY <1>0 DEF StopState
<1>6. ASSUME NEW input \in Inputs, StopFires(s, input) PROVE Typed
  <2>1. [NoStop EXCEPT !.input = input, !.pc = IF input = "none" THEN "verdict" ELSE "head"] \in StopState
    BY <1>2 DEF StopState
  <2> QED
    BY <1>0, <1>2, <1>6, <2>1 DEF StopFires
<1>7. CASE ResolveWindowHead(s)
  <2>1. CASE Say(s, "error", {}, head)
    BY <1>0, <1>4, <2>1
  <2>2. CASE stop' = [stop EXCEPT ![s].head = head,
                                  ![s].pc = IF stop[s].input = "ok" THEN "record" ELSE "verdict"]
             /\ UNCHANGED out
    <3>1. PICK step \in {"record", "verdict"} :
              stop' = [stop EXCEPT ![s] = [stop[s] EXCEPT !.head = head, !.pc = step]]
      BY <2>2
    <3> QED
      BY <1>0, <1>3, <1>5, <2>2, <3>1
  <2> QED
    BY <1>7, <2>1, <2>2 DEF ResolveWindowHead
<1>8. CASE ReadRecord(s)
  <2>1. \/ stop' = [stop EXCEPT ![s] = [stop[s] EXCEPT !.pc = "merge", !.recorded = file[s].head]]
        \/ stop' = [stop EXCEPT ![s] = [stop[s] EXCEPT !.pc = "verdict"]]
    BY <1>8 DEF ReadRecord
  <2>2. file[s].head \in Commits \cup {NoCommit} /\ UNCHANGED out
    BY <1>0, <1>8 DEF FileState, ReadRecord
  <2> QED
    BY <1>3, <1>5, <2>1, <2>2
<1>9. CASE CompareWithHead(s)
  <2>1. MergeBases(stop[s].recorded, stop[s].head) \subseteq Commits
    BY <1>0 DEF MergeBases
  <2>2. \/ \E b \in MergeBases(stop[s].recorded, stop[s].head) :
              stop' = [stop EXCEPT ![s] = [stop[s] EXCEPT !.pc = "verdict", !.base = b]]
        \/ stop' = [stop EXCEPT ![s] = [stop[s] EXCEPT !.pc = "verdict"]]
    BY <1>9 DEF CompareWithHead, StopGoto
  <2>3. UNCHANGED out
    BY <1>9 DEF CompareWithHead
  <2> QED
    BY <1>3, <1>5, <2>1, <2>2, <2>3
<1>10. CASE Verdict(s)
  <2> DEFINE at == IF stop[s].input = "none" THEN head ELSE stop[s].head
  <2>1. at \in Commits \cup {NoCommit}
    BY <1>0 DEF StopState
  <2>2. AfterPass(stop[s]) # "session" => AfterPass(stop[s]) \in {"silent", "note"}
    BY DEF AfterPass
  <2>3. \/ Say(s, "error", {}, at)
        \/ Say(s, "block", {}, at)
        \/ AfterPass(stop[s]) # "session" /\ Say(s, AfterPass(stop[s]), {}, at)
        \/ stop' = [stop EXCEPT ![s] = [stop[s] EXCEPT !.pc = "session"]] /\ UNCHANGED out
    BY <1>10 DEF Verdict, StopGoto
  <2> HIDE DEF at
  <2>4. CASE \E kind \in {"silent", "note", "block", "error"} : Say(s, kind, {}, at)
    BY <1>4, <2>1, <2>4
  <2>5. CASE stop' = [stop EXCEPT ![s] = [stop[s] EXCEPT !.pc = "session"]] /\ UNCHANGED out
    BY <1>3, <1>5, <2>5
  <2> QED
    BY <2>2, <2>3, <2>4, <2>5
<1>11. CASE AnalyseSessionCommits(s)
  <2>1. hist[head] \ hist[stop[s].base] \in SUBSET Commits
    BY <1>0
  <2>2. CASE Say(s, "note", {}, head)
    BY <1>0, <1>4, <2>2
  <2>3. CASE Say(s, "silent", hist[head] \ hist[stop[s].base], head)
    BY <1>0, <1>4, <2>1, <2>3
  <2> QED
    BY <1>11, <2>2, <2>3 DEF AnalyseSessionCommits
<1>12. CASE StopDies(s)
  BY <1>2, <1>3, <1>12 DEF StopDies
<1> QED
  BY <1>6, <1>7, <1>8, <1>9, <1>10, <1>11, <1>12 DEF StopStep

LEMMA TypeWorld ==
    ASSUME TypeOK, WorldStep
    PROVE  TypeOK'
<1> USE DEF TypeOK
<1>1. ASSUME NEW a \in Authors, Commit(a) PROVE TypeOK'
  <2>1. PICK n \in Commits \ made, parents \in {{head}, {}} \cup {{head, m} : m \in made \ gone} :
          /\ made' = made \cup {n}
          /\ hist' = [hist EXCEPT ![n] = {n} \cup UNION {hist[m] : m \in parents}]
          /\ author' = [author EXCEPT ![n] = a]
          /\ head' = n
    BY <1>1 DEF Commit
  <2>2. parents \subseteq Commits
    BY <2>1
  <2>3. UNION {hist[m] : m \in parents} \subseteq Commits
    BY <2>2
  <2> QED
    BY <1>1, <2>1, <2>3 DEF Commit
<1>2. ASSUME NEW c \in Commits, Checkout(c) \/ Collect(c) PROVE TypeOK'
  BY <1>2 DEF Checkout, Collect
<1>3. CASE Tick
  BY <1>3, SessionAssumption DEF Tick, repository
<1>4. ASSUME NEW s \in Sessions, Ready(s) PROVE TypeOK'
  BY <1>4 DEF Ready, repository
<1> QED
  BY <1>1, <1>2, <1>3, <1>4 DEF WorldStep

LEMMA TypeStep == TypeOK /\ [Next]_vars => TypeOK'
<1> SUFFICES ASSUME TypeOK, [Next]_vars PROVE TypeOK'
  OBVIOUS
<1>1. CASE UNCHANGED vars
  BY <1>1 DEF vars, TypeOK
<1> QED
  BY <1>1, TypeWorld, TypeStarter, TypeStop DEF Next

\* Every reachable state is well typed, whatever the processes' interleaving,
\* kills and failures of Git.
THEOREM TypeCorrect == Spec => []TypeOK
  BY TypeInit, TypeStep, PTL DEF Spec

-----------------------------------------------------------------------------
(* No session governs itself.  The three invariants rest on one idea: what  *)
(* a hook holds (a record, a merge base, a policy) is a commit of the       *)
(* history from before the session's own commits, and commits made later    *)
(* never enter an older commit's history.                                   *)

\* A commit whose history holds none of the session's commits.
Clean(s, c) == c \in made /\ hist[c] \cap Own(s) = {}

HistoryInv ==
    /\ head \in made
    /\ \A c \in made : c \in hist[c] /\ hist[c] \subseteq made
    /\ \A c \in made : \A d \in hist[c] : hist[d] \subseteq hist[c]

StarterInv ==
    /\ \A s \in Sessions : phase[s] # "live" => Own(s) = {}
    /\ \A p \in Starters :
          starter[p].pc \notin {"idle", "input"}
              \/ (starter[p].pc = "input" /\ starter[p].source = "startup")
          => starter[p].session \in Sessions /\ phase[starter[p].session] = "starting"
    /\ \A p \in Starters :
          starter[p].pc \in {"create", "write"} => starter[p].head \in made

RecordInv == \A s \in Sessions : file[s].kind = "record" => Clean(s, file[s].head)

StopInv == \A s \in Sessions :
    /\ stop[s].pc = "merge" => Clean(s, stop[s].recorded)
    /\ stop[s].base # NoCommit => Clean(s, stop[s].base)
    /\ stop[s].pc = "session" => stop[s].base # NoCommit
    /\ stop[s].pc \in {"record", "merge"} => stop[s].head \in made

OutInv == \A s \in Sessions :
    /\ out[s].based => Clean(s, out[s].policy)
    /\ out[s].kind = "silent" /\ out[s].input # "none"
          => /\ out[s].based
             /\ out[s].at \in made
             /\ (Own(s) \cap hist[out[s].at]) \subseteq out[s].read

Inv == TypeOK /\ HistoryInv /\ StarterInv /\ RecordInv /\ StopInv /\ OutInv

LEMMA InvInit == Init => Inv
<1> SUFFICES ASSUME Init PROVE Inv
  OBVIOUS
<1>1. TypeOK
  BY TypeInit
<1>2. \A s \in Sessions : Own(s) = {}
  BY SessionAssumption DEF Init, Own, Commits
<1>3. HistoryInv
  BY SessionAssumption DEF Init, HistoryInv, Commits
<1> QED
  BY <1>1, <1>2, <1>3 DEF Init, Inv, StarterInv, RecordInv, StopInv, OutInv, Absent, Resting,
                          NoStop, Nothing

\* A new commit is in no older history, so clean commits stay clean.
LEMMA CommitKeepsHistory ==
    ASSUME TypeOK, HistoryInv, NEW a \in Authors, Commit(a)
    PROVE  /\ HistoryInv'
           /\ \A c \in made : c \in made' /\ hist'[c] = hist[c]
           /\ \A s \in Sessions, c \in made : (Own(s) \cap hist[c])' = Own(s) \cap hist[c]
           /\ \A s \in Sessions : s # a => Own(s)' = Own(s)
<1> USE DEF TypeOK, HistoryInv
<1>1. PICK n \in Commits \ made, parents \in {{head}, {}} \cup {{head, m} : m \in made \ gone} :
        /\ made' = made \cup {n}
        /\ hist' = [hist EXCEPT ![n] = {n} \cup UNION {hist[m] : m \in parents}]
        /\ author' = [author EXCEPT ![n] = a]
        /\ head' = n
  BY DEF Commit
<1>2. parents \subseteq made /\ made \subseteq Commits
  BY <1>1
<1>3. \A c \in made : c \in made' /\ hist'[c] = hist[c]
  BY <1>1, <1>2
<1>4. hist'[n] = {n} \cup UNION {hist[m] : m \in parents}
  BY <1>1
<1>5. UNION {hist[m] : m \in parents} \subseteq made
  BY <1>2
<1>6. \A c \in made' : c \in hist'[c] /\ hist'[c] \subseteq made'
  BY <1>1, <1>3, <1>4, <1>5
<1>7. \A c \in made' : \A d \in hist'[c] : hist'[d] \subseteq hist'[c]
  <2>1. \A c \in made : \A d \in hist'[c] : hist'[d] \subseteq hist'[c]
    BY <1>3
  <2>2. \A d \in UNION {hist[m] : m \in parents} : hist[d] \subseteq UNION {hist[m] : m \in parents}
    BY <1>2
  <2>3. \A d \in hist'[n] : hist'[d] \subseteq hist'[n]
    BY <1>3, <1>4, <1>5, <2>2
  <2> QED
    BY <1>1, <2>1, <2>3
<1>8. \A s \in Sessions, c \in made : Own(s)' \cap hist'[c] = Own(s) \cap hist[c]
  BY <1>1, <1>3 DEF Own
<1>9. \A s \in Sessions : s # a => Own(s)' = Own(s)
  BY <1>1 DEF Own
<1>10. head' \in made'
  BY <1>1
<1> QED
  BY <1>3, <1>6, <1>7, <1>8, <1>9, <1>10

LEMMA InvWorld == Inv /\ WorldStep => Inv'
<1> SUFFICES ASSUME Inv, WorldStep PROVE Inv'
  OBVIOUS
<1>t. TypeOK /\ TypeOK'
  BY TypeWorld DEF Inv
<1>1. ASSUME NEW a \in Authors, Commit(a) PROVE Inv'
  <2>1. /\ HistoryInv'
        /\ \A c \in made : c \in made' /\ hist'[c] = hist[c]
        /\ \A s \in Sessions, c \in made : Own(s)' \cap hist'[c] = Own(s) \cap hist[c]
        /\ \A s \in Sessions : s # a => Own(s)' = Own(s)
    BY <1>1, CommitKeepsHistory DEF Inv
  <2>2. \A s \in Sessions, c \in made : Clean(s, c) => Clean(s, c)'
    BY <2>1 DEF Clean
  <2>3. UNCHANGED <<file, phase, starter, stop, out>> /\ (a \in Sessions => phase[a] = "live")
    BY <1>1 DEF Commit
  <2>4. StarterInv'
    BY <2>1, <2>3 DEF Inv, StarterInv
  <2>5. RecordInv'
    BY <2>2, <2>3 DEF Inv, RecordInv, Clean
  <2>6. StopInv'
    BY <2>1, <2>2, <2>3 DEF Inv, StopInv, Clean
  <2>7. OutInv'
    <3> SUFFICES ASSUME NEW s \in Sessions
                 PROVE  /\ out[s].based => Clean(s, out[s].policy)'
                        /\ out[s].kind = "silent" /\ out[s].input # "none"
                              => /\ out[s].based
                                 /\ out[s].at \in made'
                                 /\ (Own(s)' \cap hist'[out[s].at]) \subseteq out[s].read
      BY <2>3 DEF OutInv, Clean
    <3>1. out[s].based => Clean(s, out[s].policy)'
      BY <2>2, <2>3 DEF Inv, OutInv, Clean
    <3>2. ASSUME out[s].kind = "silent", out[s].input # "none"
          PROVE  /\ out[s].based
                 /\ out[s].at \in made'
                 /\ (Own(s)' \cap hist'[out[s].at]) \subseteq out[s].read
      <4>1. /\ out[s].based
            /\ out[s].at \in made
            /\ (Own(s) \cap hist[out[s].at]) \subseteq out[s].read
        BY <3>2 DEF Inv, OutInv
      <4>2. Own(s)' \cap hist'[out[s].at] = Own(s) \cap hist[out[s].at]
        BY <2>1, <4>1
      <4>3. out[s].at \in made'
        BY <2>1, <4>1
      <4> QED
        BY <4>1, <4>2, <4>3
    <3> QED
      BY <3>1, <3>2
  <2> QED
    BY <1>t, <2>1, <2>4, <2>5, <2>6, <2>7 DEF Inv
<1>2. ASSUME UNCHANGED <<made, hist, author, starter, file, stop, out>>, head' \in made,
             \/ UNCHANGED phase
             \/ \E s \in Sessions : /\ phase' = [phase EXCEPT ![s] = "live"]
                                   /\ \A p \in Starters : starter[p].session # s
      PROVE  Inv'
  <2>1. \A s, c : Clean(s, c)' = Clean(s, c) /\ Own(s)' = Own(s)
    BY <1>2 DEF Clean, Own
  <2>2. HistoryInv' /\ RecordInv' /\ StopInv' /\ OutInv'
    BY <1>2, <2>1 DEF Inv, HistoryInv, RecordInv, StopInv, OutInv
  <2>3. StarterInv'
    BY <1>2, <1>t, <2>1 DEF Inv, StarterInv, TypeOK
  <2> QED
    BY <1>t, <2>2, <2>3 DEF Inv
<1>3. ASSUME NEW c \in Commits, Checkout(c) \/ Collect(c) PROVE Inv'
  BY <1>2, <1>3 DEF Checkout, Collect, Inv, HistoryInv
<1>4. CASE Tick
  BY <1>2, <1>4 DEF Tick, repository, Inv, HistoryInv
<1>5. ASSUME NEW s \in Sessions, Ready(s) PROVE Inv'
  BY <1>2, <1>5 DEF Ready, repository, Inv, HistoryInv
<1> QED
  BY <1>1, <1>3, <1>4, <1>5 DEF WorldStep

\* A start hook leaves the other hooks alone and makes no session that has
\* worked a starting one.
LEMMA StarterKeeps ==
    ASSUME TypeOK, NEW p \in Starters, StarterStep(p)
    PROVE  /\ \A q \in Starters \ {p} : starter'[q] = starter[q]
           /\ \A s \in Sessions : phase'[s] = phase[s]
                                  \/ (phase[s] # "live" /\ phase'[s] = "starting")
<1>1. starter \in [Starters -> StarterState] /\ phase \in [Sessions -> {"new", "starting", "live"}]
  BY DEF TypeOK
<1>2. ASSUME NEW s \in Sessions, NEW source \in Sources, Fire(p, s, source)
      PROVE  /\ \A q \in Starters \ {p} : starter'[q] = starter[q]
             /\ \A t \in Sessions : phase'[t] = phase[t]
                                    \/ (phase[t] # "live" /\ phase'[t] = "starting")
  BY <1>1, <1>2 DEF Fire
<1>3. CASE UNCHANGED phase /\ StarterStep(p) /\ ~\E s \in Sessions, source \in Sources : Fire(p, s, source)
  BY <1>1, <1>3 DEF StarterStep, ReadStartInput, ResolveStartHead, CreateRecord, WriteRecord,
     ListRecords, ScanRecord, UnlinkRecord, StarterDies, Finish, Goto
<1> QED
  BY <1>2, <1>3 DEF StarterStep, ReadStartInput, ResolveStartHead, CreateRecord, WriteRecord,
     ListRecords, ScanRecord, UnlinkRecord, StarterDies

\* What the start hook that moves comes to know.
LEMMA StarterLearns ==
    ASSUME TypeOK, HistoryInv, StarterInv, NEW p \in Starters, StarterStep(p)
    PROVE  /\ starter'[p].pc \notin {"idle", "input"}
                  \/ (starter'[p].pc = "input" /\ starter'[p].source = "startup")
              => starter'[p].session \in Sessions /\ phase'[starter'[p].session] = "starting"
           /\ starter'[p].pc \in {"create", "write"} => starter'[p].head \in made
<1>1. /\ starter \in [Starters -> StarterState]
      /\ phase \in [Sessions -> {"new", "starting", "live"}]
  BY DEF TypeOK
<1> USE DEF StarterState
<1>2. \/ starter[p].pc \notin {"idle", "input"}
      \/ starter[p].pc = "input" /\ starter[p].source = "startup"
      => starter[p].session \in Sessions /\ phase[starter[p].session] = "starting"
  BY DEF StarterInv
<1>3. starter[p].pc \in {"create", "write"} => starter[p].head \in made
  BY DEF StarterInv
<1>4. ASSUME NEW s \in Sessions, NEW source \in Sources, Fire(p, s, source)
      PROVE  /\ starter'[p].pc = "input" /\ starter'[p].session = s /\ starter'[p].source = source
             /\ source = "startup" => phase'[s] = "starting"
  BY <1>1, <1>4 DEF Fire, Resting
<1>5. CASE ReadStartInput(p)
  <2>1. RecordsOn(starter[p].source) => starter[p].source = "startup"
    BY <1>1 DEF RecordsOn, StarterState, Sources
  <2> QED
    BY <1>1, <1>2, <1>5, <2>1 DEF ReadStartInput, Goto, Finish, Resting
<1>6. CASE ResolveStartHead(p)
  BY <1>1, <1>2, <1>6 DEF ResolveStartHead, Finish, Resting, HistoryInv
<1>7. CASE CreateRecord(p) \/ WriteRecord(p)
  BY <1>1, <1>2, <1>3, <1>7 DEF CreateRecord, WriteRecord, Goto
<1>8. CASE ListRecords(p) \/ UnlinkRecord(p)
  BY <1>1, <1>2, <1>8 DEF ListRecords, UnlinkRecord
<1>9. CASE ScanRecord(p)
  <2>1. CASE Finish(p)
    BY <1>1, <2>1 DEF Finish, Resting
  <2>2. ASSUME NEW s \in starter[p].entries, NEW rest,
               \/ starter' = [starter EXCEPT ![p].pc = "unlink", ![p].victim = s, ![p].entries = rest]
               \/ starter' = [starter EXCEPT ![p].entries = rest]
        PROVE  starter'[p].pc \in {"unlink", starter[p].pc}
               /\ starter'[p].session = starter[p].session
    <3>1. \/ starter' = [starter EXCEPT ![p] = [starter[p] EXCEPT !.pc = "unlink", !.victim = s,
                                                                   !.entries = rest]]
          \/ starter' = [starter EXCEPT ![p] = [starter[p] EXCEPT !.entries = rest]]
      BY <2>2
    <3> QED
      BY <1>1, <3>1
  <2>3. \/ Finish(p)
        \/ /\ starter'[p].pc \in {"unlink", starter[p].pc}
           /\ starter'[p].session = starter[p].session
    BY <1>9, <2>2 DEF ScanRecord
  <2>4. UNCHANGED phase /\ starter[p].pc = "scan"
    BY <1>9 DEF ScanRecord
  <2> QED
    BY <1>1, <1>2, <2>1, <2>3, <2>4
<1>10. CASE StarterDies(p)
  BY <1>1, <1>10 DEF StarterDies, Finish, Resting
<1> QED
  BY <1>4, <1>5, <1>6, <1>7, <1>8, <1>9, <1>10 DEF StarterStep

\* Only a start hook that is writing makes a record, of the HEAD it resolved.
LEMMA RecordMade ==
    ASSUME TypeOK, NEW p \in Starters, StarterStep(p), NEW s \in Sessions,
           file'[s].kind = "record", file'[s] # file[s]
    PROVE  /\ file[s] = Torn(p)
           /\ starter[p].pc = "write" /\ starter[p].session = s
           /\ file'[s].head = starter[p].head
<1>1. file \in [Sessions -> FileState] /\ starter \in [Starters -> StarterState]
  BY DEF TypeOK
<1>2. CreateRecord(p) \/ WriteRecord(p) \/ UnlinkRecord(p)
  BY DEF StarterStep, Fire, ReadStartInput, ResolveStartHead, ListRecords, ScanRecord, StarterDies
<1>3. ~CreateRecord(p)
  BY <1>1 DEF CreateRecord, Torn
<1>4. ~UnlinkRecord(p)
  BY <1>1 DEF UnlinkRecord, Absent
<1> QED
  BY <1>1, <1>2, <1>3, <1>4 DEF WriteRecord, Record, Torn

\* A start hook writes only while its session has committed nothing.
LEMMA InvStarter ==
    ASSUME Inv, NEW p \in Starters, StarterStep(p)
    PROVE  Inv'
<1>1. TypeOK /\ TypeOK'
  BY TypeStarter DEF Inv
<1>2. UNCHANGED <<repository, now, stop, out>>
  BY DEF StarterStep, Fire, ReadStartInput, ResolveStartHead, CreateRecord, WriteRecord,
         ListRecords, ScanRecord, UnlinkRecord, StarterDies
<1>3. \A s, c : Clean(s, c)' = Clean(s, c) /\ Own(s)' = Own(s)
  BY <1>2 DEF Clean, Own, repository
<1>4. HistoryInv' /\ StopInv' /\ OutInv'
  BY <1>2, <1>3 DEF Inv, HistoryInv, StopInv, OutInv, repository
<1>5. StarterInv'
  <2>1. \A s \in Sessions : phase'[s] # "live" => Own(s)' = {}
    BY <1>1, <1>3, StarterKeeps DEF Inv, StarterInv
  <2>2. ASSUME NEW q \in Starters
        PROVE  /\ starter'[q].pc \notin {"idle", "input"}
                     \/ (starter'[q].pc = "input" /\ starter'[q].source = "startup")
                  => starter'[q].session \in Sessions /\ phase'[starter'[q].session] = "starting"
               /\ starter'[q].pc \in {"create", "write"} => starter'[q].head \in made'
    <3>1. CASE q = p
      BY <1>1, <1>2, <3>1, StarterLearns DEF Inv, repository
    <3>2. CASE q # p
      BY <1>1, <1>2, <3>2, StarterKeeps DEF Inv, StarterInv, repository
    <3> QED
      BY <3>1, <3>2
  <2> QED
    BY <2>1, <2>2 DEF StarterInv
<1>6. RecordInv'
  <2> SUFFICES ASSUME NEW s \in Sessions, file'[s].kind = "record"
               PROVE  Clean(s, file'[s].head)
    BY <1>2 DEF RecordInv, Clean, Own, repository
  <2>1. CASE file'[s] = file[s]
    BY <2>1 DEF Inv, RecordInv
  <2>2. CASE file'[s] # file[s]
    <3>1. /\ starter[p].pc = "write" /\ starter[p].session = s
          /\ file'[s].head = starter[p].head
      BY <1>1, <2>2, RecordMade
    <3>2. Own(s) = {} /\ starter[p].head \in made
      BY <3>1 DEF Inv, StarterInv
    <3> QED
      BY <3>1, <3>2 DEF Clean
  <2> QED
    BY <2>1, <2>2
<1> QED
  BY <1>1, <1>4, <1>5, <1>6 DEF Inv

\* A best common ancestor of a clean commit is clean.
LEMMA MergeBaseClean ==
    ASSUME HistoryInv, NEW s \in Sessions, NEW a, NEW b, Clean(s, a),
           NEW c \in MergeBases(a, b)
    PROVE  Clean(s, c)
<1>1. c \in made /\ c \in hist[a] /\ a \in made
  BY DEF MergeBases, Clean
<1>2. hist[c] \subseteq hist[a]
  BY <1>1 DEF HistoryInv
<1> QED
  BY <1>1, <1>2 DEF Clean

\* What a Stop hook holds of one session, and what it said, as conjuncts.
WindowOK(s, w) ==
    /\ w.pc = "merge" => Clean(s, w.recorded)
    /\ w.base # NoCommit => Clean(s, w.base)
    /\ w.pc = "session" => w.base # NoCommit
    /\ w.pc \in {"record", "merge"} => w.head \in made
SaidOK(s, o) ==
    /\ o.based => Clean(s, o.policy)
    /\ o.kind = "silent" /\ o.input # "none"
          => /\ o.based
             /\ o.at \in made
             /\ (Own(s) \cap hist[o.at]) \subseteq o.read

\* A Stop that is over leaves a fresh window; what it says is in order when a
\* silent answer read every commit of the session's that HEAD holds.
LEMMA SayKeeps ==
    ASSUME TypeOK, NEW s \in Sessions, WindowOK(s, stop[s]),
           NEW kind, NEW read, NEW at, Say(s, kind, read, at),
           kind = "silent" /\ stop[s].input # "none"
              => /\ stop[s].base # NoCommit /\ at \in made
                 /\ (Own(s) \cap hist[at]) \subseteq read
    PROVE  WindowOK(s, stop'[s]) /\ SaidOK(s, out'[s])
<1>1. stop'[s] = NoStop
  BY DEF Say, TypeOK
<1>2. out'[s] = [kind |-> kind, input |-> stop[s].input, based |-> stop[s].base # NoCommit,
                 policy |-> PolicySide(stop[s].base, at), at |-> at, read |-> read]
  BY DEF Say, TypeOK
<1>3. WindowOK(s, stop'[s])
  BY <1>1 DEF WindowOK, NoStop
<1>4. stop[s].base # NoCommit => Clean(s, PolicySide(stop[s].base, at))
  BY DEF WindowOK, PolicySide
<1>5. /\ out'[s].based = (stop[s].base # NoCommit) /\ out'[s].policy = PolicySide(stop[s].base, at)
      /\ out'[s].kind = kind /\ out'[s].input = stop[s].input
      /\ out'[s].at = at /\ out'[s].read = read
  BY <1>2
<1> HIDE <1>2
<1>6. SaidOK(s, out'[s])
  BY <1>4, <1>5 DEF SaidOK
<1> QED
  BY <1>3, <1>6

LEMMA StopLearns ==
    ASSUME Inv, NEW s \in Sessions, StopStep(s)
    PROVE  /\ UNCHANGED <<repository, now, file, phase, starter>>
           /\ \A t \in Sessions \ {s} : stop'[t] = stop[t] /\ out'[t] = out[t]
           /\ WindowOK(s, stop'[s])
           /\ SaidOK(s, out'[s])
<1>1. /\ stop \in [Sessions -> StopState] /\ out \in [Sessions -> Outcome]
      /\ stop[s] \in StopState
  BY DEF Inv, TypeOK
<1>2. WindowOK(s, stop[s]) /\ SaidOK(s, out[s]) /\ HistoryInv /\ TypeOK
  BY DEF Inv, StopInv, OutInv, WindowOK, SaidOK
<1>3. UNCHANGED <<repository, now, file, phase, starter>>
  BY DEF StopStep, StopFires, ResolveWindowHead, ReadRecord, CompareWithHead, Verdict,
         AnalyseSessionCommits, StopDies
<1>4. \A t \in Sessions \ {s} : stop'[t] = stop[t] /\ out'[t] = out[t]
  BY <1>1 DEF StopStep, StopFires, ResolveWindowHead, ReadRecord, CompareWithHead, Verdict,
         AnalyseSessionCommits, StopDies, Say, StopGoto
<1> DEFINE Goal == WindowOK(s, stop'[s]) /\ SaidOK(s, out'[s])
<1> SUFFICES Goal
  BY <1>3, <1>4
<1>5. ASSUME NEW input \in Inputs, StopFires(s, input) PROVE Goal
  BY <1>1, <1>5 DEF StopFires, NoStop, Nothing, WindowOK, SaidOK
<1>6. CASE ResolveWindowHead(s)
  <2>1. CASE Say(s, "error", {}, head)
    BY <1>2, <2>1, SayKeeps
  <2>2. CASE /\ stop' = [stop EXCEPT ![s].head = head,
                           ![s].pc = IF stop[s].input = "ok" THEN "record" ELSE "verdict"]
             /\ UNCHANGED out
    <3>1. stop'[s] = [stop[s] EXCEPT !.head = head,
                           !.pc = IF stop[s].input = "ok" THEN "record" ELSE "verdict"]
      BY <1>1, <2>2
    <3> QED
      BY <1>1, <1>2, <2>2, <3>1 DEF WindowOK, HistoryInv, StopState
  <2> QED
    BY <1>6, <2>1, <2>2 DEF ResolveWindowHead
<1>7. CASE ReadRecord(s)
  <2>1. UNCHANGED out
    BY <1>7 DEF ReadRecord
  <2>2. CASE stop' = [stop EXCEPT ![s].pc = "verdict"]
    BY <1>1, <1>2, <2>1, <2>2 DEF WindowOK, StopState
  <2>3. CASE /\ file[s].kind = "record" /\ stop[s].pc = "record"
             /\ stop' = [stop EXCEPT ![s].pc = "merge", ![s].recorded = file[s].head]
    <3>1. stop'[s] = [stop[s] EXCEPT !.pc = "merge", !.recorded = file[s].head]
      BY <1>1, <2>3
    <3>2. Clean(s, file[s].head)
      BY <2>3 DEF Inv, RecordInv
    <3> QED
      BY <1>1, <1>2, <2>1, <2>3, <3>1, <3>2 DEF WindowOK, StopState
  <2>4. file[s].kind # "record" =>
           \A exists \in IF file[s].kind = "record" THEN CommitExists(file[s].head) ELSE {FALSE} :
              exists = FALSE
    OBVIOUS
  <2> QED
    BY <1>7, <2>2, <2>3, <2>4 DEF ReadRecord
<1>8. CASE CompareWithHead(s)
  <2>1. UNCHANGED out /\ stop[s].pc = "merge"
    BY <1>8 DEF CompareWithHead
  <2>2. CASE StopGoto(s, "verdict")
    BY <1>1, <1>2, <2>1, <2>2 DEF StopGoto, WindowOK, StopState
  <2>3. ASSUME NEW b \in MergeBases(stop[s].recorded, stop[s].head),
               stop' = [stop EXCEPT ![s].pc = "verdict", ![s].base = b]
        PROVE  Goal
    <3>1. stop'[s] = [stop[s] EXCEPT !.pc = "verdict", !.base = b]
      BY <1>1, <2>3
    <3>2. Clean(s, b)
      BY <1>2, <2>1, MergeBaseClean DEF WindowOK
    <3> QED
      BY <1>1, <1>2, <2>1, <3>1, <3>2 DEF WindowOK, StopState
  <2> QED
    BY <1>8, <2>2, <2>3 DEF CompareWithHead
<1>9. CASE Verdict(s)
  <2> DEFINE at == IF stop[s].input = "none" THEN head ELSE stop[s].head
  <2>1. CASE Say(s, "error", {}, at) \/ Say(s, "block", {}, at)
    BY <1>2, <2>1, SayKeeps
  <2>2. CASE AfterPass(stop[s]) # "session" /\ at = head /\ Say(s, AfterPass(stop[s]), {}, at)
    <3>1. AfterPass(stop[s]) = "silent" /\ stop[s].input # "none"
             => stop[s].base # NoCommit /\ at = stop[s].base
      BY <2>2 DEF AfterPass
    <3>2. stop[s].base # NoCommit => Clean(s, stop[s].base)
      BY <1>2 DEF WindowOK
    <3>3. AfterPass(stop[s]) = "silent" /\ stop[s].input # "none"
             => /\ stop[s].base # NoCommit /\ at \in made
                /\ (Own(s) \cap hist[at]) \subseteq {}
      BY <3>1, <3>2 DEF Clean
    <3> QED
      BY <1>2, <2>2, <3>3, SayKeeps
  <2>3. CASE AfterPass(stop[s]) = "session" /\ StopGoto(s, "session") /\ UNCHANGED out
    <3>1. stop'[s] = [stop[s] EXCEPT !.pc = "session"]
      BY <1>1, <2>3 DEF StopGoto
    <3>2. stop[s].base # NoCommit
      BY <2>3 DEF AfterPass
    <3> QED
      BY <1>1, <1>2, <2>3, <3>1, <3>2 DEF WindowOK, StopState
  <2> QED
    BY <1>9, <2>1, <2>2, <2>3 DEF Verdict
<1>10. CASE AnalyseSessionCommits(s)
  <2>1. stop[s].base # NoCommit /\ Clean(s, stop[s].base) /\ head \in made
    BY <1>2, <1>10 DEF AnalyseSessionCommits, WindowOK, HistoryInv
  <2>2. (Own(s) \cap hist[head]) \subseteq (hist[head] \ hist[stop[s].base])
    BY <2>1 DEF Clean
  <2>3. CASE Say(s, "note", {}, head)
    BY <1>2, <2>3, SayKeeps
  <2>4. CASE Say(s, "silent", hist[head] \ hist[stop[s].base], head)
    BY <1>2, <2>1, <2>2, <2>4, SayKeeps
  <2> QED
    BY <1>10, <2>3, <2>4 DEF AnalyseSessionCommits
<1>11. CASE StopDies(s)
  BY <1>1, <1>2, <1>11 DEF StopDies, NoStop, WindowOK
<1> QED
  BY <1>3, <1>4, <1>5, <1>6, <1>7, <1>8, <1>9, <1>10, <1>11 DEF StopStep

LEMMA InvStop ==
    ASSUME Inv, NEW s \in Sessions, StopStep(s)
    PROVE  Inv'
<1>1. /\ UNCHANGED <<repository, now, file, phase, starter>>
      /\ \A t \in Sessions \ {s} : stop'[t] = stop[t] /\ out'[t] = out[t]
      /\ WindowOK(s, stop'[s])
      /\ SaidOK(s, out'[s])
  BY StopLearns
<1>2. TypeOK'
  BY TypeStop DEF Inv
<1>3. \A t, c : Clean(t, c)' = Clean(t, c) /\ Own(t)' = Own(t)
  BY <1>1 DEF Clean, Own, repository
<1>4. HistoryInv' /\ StarterInv' /\ RecordInv'
  BY <1>1, <1>3 DEF Inv, HistoryInv, StarterInv, RecordInv, repository
<1>5. \A t \in Sessions : WindowOK(t, stop'[t]) /\ SaidOK(t, out'[t])
  BY <1>1 DEF Inv, StopInv, OutInv, WindowOK, SaidOK
<1>6. StopInv' /\ OutInv'
  BY <1>1, <1>5 DEF StopInv, OutInv, WindowOK, SaidOK, Clean, Own, repository
<1> QED
  BY <1>2, <1>4, <1>6 DEF Inv

LEMMA InvStep == Inv /\ [Next]_vars => Inv'
<1> SUFFICES ASSUME Inv, [Next]_vars PROVE Inv'
  OBVIOUS
<1>1. CASE UNCHANGED vars
  BY <1>1 DEF vars, Inv, TypeOK, HistoryInv, StarterInv, RecordInv, StopInv, OutInv, Clean, Own
<1> QED
  BY <1>1, InvWorld, InvStarter, InvStop DEF Next

LEMMA InvAlways == Spec => []Inv
  BY InvInit, InvStep, PTL DEF Spec

\* The policy a Stop judges by is never one its session committed.
THEOREM PolicyIsOlder == Spec => []PolicyPredatesSession
<1>1. Inv => PolicyPredatesSession
  BY DEF Inv, OutInv, PolicyPredatesSession, Clean
<1> QED
  BY <1>1, InvAlways, PTL

\* A bare pass has analysed every commit of its session's that HEAD holds.
THEOREM SilenceAnalysed == Spec => []SilenceMeansAnalysed
<1>1. Inv => SilenceMeansAnalysed
  BY DEF Inv, OutInv, SilenceMeansAnalysed
<1> QED
  BY <1>1, InvAlways, PTL

\* A bare pass never rests on policy the session wrote itself.
THEOREM SilenceNotSelfGoverned == Spec => []SilenceIsNotSelfGoverned
<1>1. Inv => SilenceIsNotSelfGoverned
  BY DEF Inv, OutInv, SilenceIsNotSelfGoverned, Clean
<1> QED
  BY <1>1, InvAlways, PTL

-----------------------------------------------------------------------------
\* A record stays as it was written until it is unlinked, whatever start hooks
\* run at the same time for the same session.
THEOREM RecordKept == Spec => RecordNeverReplaced
<1> DEFINE Kept == \A s \in Sessions :
                      file[s].kind = "record" => file'[s] \in {file[s], Absent}
<1>1. TypeOK /\ [Next]_vars => Kept
  <2> SUFFICES ASSUME TypeOK, [Next]_vars, NEW s \in Sessions, file[s].kind = "record",
                      file'[s] # file[s]
               PROVE  file'[s] = Absent
    OBVIOUS
  <2>1. file \in [Sessions -> FileState]
    BY DEF TypeOK
  <2>2. PICK p \in Starters : StarterStep(p)
    BY DEF Next, vars, WorldStep, Commit, Checkout, Collect, Tick, Ready, StopStep, StopFires,
       ResolveWindowHead, ReadRecord, CompareWithHead, Verdict, AnalyseSessionCommits, StopDies
  <2>3. CreateRecord(p) \/ WriteRecord(p) \/ UnlinkRecord(p)
    BY <2>2 DEF StarterStep, Fire, ReadStartInput, ResolveStartHead, ListRecords, ScanRecord,
       StarterDies
  <2>4. ~CreateRecord(p)
    BY <2>1 DEF CreateRecord, Creates
  <2>5. ~WriteRecord(p)
    BY <2>1 DEF WriteRecord, Torn
  <2> QED
    BY <2>1, <2>3, <2>4, <2>5 DEF UnlinkRecord
<1> QED
  BY <1>1, TypeCorrect, PTL DEF Spec, RecordNeverReplaced

-----------------------------------------------------------------------------
(* Pruning.  While the start hooks of a session run, no day passes and no   *)
(* commit expires, so whatever record they find or make is of today: a      *)
(* prune can only have chosen the record of a session that is already live, *)
(* and such a session never starts up, and so never writes, again.          *)

OfToday(f) == f.created = now /\ f.head \notin gone
Outlived(f) == now > f.created + AgeLimit \/ f.head \in gone

HeadStays == head \notin gone /\ gone \subseteq made

TodaysRecords == \A s \in Sessions :
    /\ phase[s] = "new" => file[s].kind # "record"
    /\ phase[s] = "starting" /\ file[s].kind = "record" => OfToday(file[s])

Writing(p) ==
    /\ starter[p].pc \notin {"idle", "input", "head"} => starter[p].now = now
    /\ starter[p].pc \in {"create", "write"} => starter[p].head \notin gone
    /\ starter[p].pc = "write" => file[starter[p].session] = Torn(p)

Pruning(p) ==
    starter[p].pc = "unlink" =>
        /\ starter[p].victim \in Sessions
        /\ phase[starter[p].victim] = "live"
        /\ file[starter[p].victim].kind = "record" => Outlived(file[starter[p].victim])

PruneInv == HeadStays /\ TodaysRecords /\ \A p \in Starters : Writing(p) /\ Pruning(p)

LEMMA PruneInit == Init => PruneInv
<1> SUFFICES ASSUME Init PROVE PruneInv
  OBVIOUS
<1>1. \A p \in Starters : starter[p].pc = "idle"
  BY DEF Init, Resting
<1>2. \A s \in Sessions : file[s].kind = "absent"
  BY DEF Init, Absent
<1> QED
  BY <1>1, <1>2 DEF Init, PruneInv, HeadStays, TodaysRecords, Writing, Pruning

\* Only while nothing starts does the clock move or a commit disappear.
LEMMA PruneWorld ==
    ASSUME SlowWorld, Inv, PruneInv, WorldStep
    PROVE  PruneInv'
<1>1. UNCHANGED <<file, starter>>
  BY DEF WorldStep, Commit, Checkout, Collect, Tick, Ready
<1>2. HeadStays'
  <2>1. ASSUME NEW a \in Authors, Commit(a) PROVE HeadStays'
    BY <2>1 DEF Commit, HeadStays, PruneInv
  <2>2. ASSUME NEW c \in Commits, Checkout(c) PROVE HeadStays'
    BY <2>2 DEF Checkout, HeadStays, PruneInv
  <2>3. ASSUME NEW c \in Commits, Collect(c) PROVE HeadStays'
    BY <2>3 DEF Collect, HeadStays, PruneInv
  <2>4. ASSUME Tick \/ \E s \in Sessions : Ready(s) PROVE HeadStays'
    BY <2>4 DEF Tick, Ready, repository, HeadStays, PruneInv
  <2> QED
    BY <2>1, <2>2, <2>3, <2>4 DEF WorldStep
<1>3. CASE UNCHANGED <<now, gone, phase>>
  BY <1>1, <1>2, <1>3 DEF PruneInv, TodaysRecords, OfToday, Writing, Pruning, Outlived
<1>4. CASE Quiet /\ UNCHANGED phase
  BY <1>1, <1>2, <1>4 DEF PruneInv, Quiet, TodaysRecords, Writing, Pruning
<1>5. ASSUME NEW s \in Sessions, Ready(s) PROVE PruneInv'
  <2>1. UNCHANGED <<now, gone>>
    BY <1>5 DEF Ready, repository
  <2>2. \A t \in Sessions : phase'[t] \in {phase[t], "live"}
    BY <1>5 DEF Ready, Inv, TypeOK
  <2>3. TodaysRecords'
    BY <1>1, <2>1, <2>2 DEF PruneInv, TodaysRecords, OfToday
  <2> QED
    BY <1>1, <1>2, <2>1, <2>2, <2>3 DEF PruneInv, Writing, Pruning, Outlived
<1>6. \/ UNCHANGED <<now, gone, phase>>
      \/ Quiet /\ UNCHANGED phase
      \/ \E s \in Sessions : Ready(s)
  BY DEF WorldStep, Commit, Checkout, Collect, Tick, repository
<1> QED
  BY <1>3, <1>4, <1>5, <1>6

\* What a start hook's step does to the record files: only its own session's
\* appears, and it goes only as the victim of a prune.
LEMMA FilesChange ==
    ASSUME TypeOK, NEW p \in Starters, StarterStep(p), NEW s \in Sessions, file'[s] # file[s]
    PROVE  \/ /\ starter[p].pc \in {"create", "write"}
              /\ starter[p].session = s
              /\ file[s].kind = "absent" \/ file[s] = Torn(p)
           \/ /\ starter[p].pc = "unlink"
              /\ starter[p].victim = s
              /\ file'[s] = Absent
<1>1. file \in [Sessions -> FileState]
  BY DEF TypeOK
<1>2. CreateRecord(p) \/ WriteRecord(p) \/ UnlinkRecord(p)
  BY DEF StarterStep, Fire, ReadStartInput, ResolveStartHead, ListRecords, ScanRecord, StarterDies
<1>3. CASE CreateRecord(p)
  BY <1>1, <1>3 DEF CreateRecord, Creates
<1>4. CASE WriteRecord(p)
  BY <1>1, <1>4 DEF WriteRecord
<1>5. CASE UnlinkRecord(p)
  BY <1>1, <1>5 DEF UnlinkRecord
<1> QED
  BY <1>2, <1>3, <1>4, <1>5

\* The record file of a session whose start hook writes is in nobody's way.
LEMMA WriterUndisturbed ==
    ASSUME Inv, PruneInv, NEW p \in Starters, StarterStep(p), NEW q \in Starters \ {p},
           starter[q].pc = "write"
    PROVE  file'[starter[q].session] = Torn(q)
<1> DEFINE s == starter[q].session
<1>1. s \in Sessions /\ phase[s] = "starting" /\ file[s] = Torn(q)
  BY DEF Inv, StarterInv, PruneInv, Writing
<1>2. ~(starter[p].pc = "unlink" /\ starter[p].victim = s)
  BY <1>1 DEF PruneInv, Pruning
<1>3. file[s].kind # "absent" /\ file[s] # Torn(p)
  <2>1. Torn(q).kind = "torn" /\ Torn(q).by = q /\ Torn(p).by = p /\ Absent.kind = "absent"
    BY DEF Torn, Absent
  <2> QED
    BY <1>1, <2>1
<1> HIDE DEF s
<1>4. file'[s] = file[s]
  BY <1>1, <1>2, <1>3, FilesChange DEF Inv
<1> QED
  BY <1>1, <1>4 DEF s

\* What the start hook that moves knows of today and of its own file.
LEMMA WriterKeeps ==
    ASSUME Inv, PruneInv, NEW p \in Starters, StarterStep(p)
    PROVE  Writing(p)'
<1>1. /\ starter \in [Starters -> StarterState] /\ file \in [Sessions -> FileState]
  BY DEF Inv, TypeOK
<1>2. now' = now /\ gone' = gone
  BY DEF StarterStep, Fire, ReadStartInput, ResolveStartHead, CreateRecord, WriteRecord,
         ListRecords, ScanRecord, UnlinkRecord, StarterDies, repository
<1>3. Writing(p) /\ head \notin gone
  BY DEF PruneInv, HeadStays
<1>4. CASE starter'[p].pc \in {"idle", "input", "head"}
  BY <1>4 DEF Writing
<1>5. ASSUME NEW s \in Sessions, NEW source \in Sources, Fire(p, s, source)
      PROVE  Writing(p)'
  BY <1>1, <1>4, <1>5 DEF Fire, Resting
<1>6. CASE Finish(p)
  BY <1>1, <1>4, <1>6 DEF Finish, Resting
<1>7. CASE ReadStartInput(p) \/ StarterDies(p)
  BY <1>1, <1>4, <1>6, <1>7 DEF ReadStartInput, StarterDies, Goto, StarterState
<1>8. CASE ResolveStartHead(p)
  <2>1. CASE starter' = [starter EXCEPT ![p].pc = "create", ![p].head = head, ![p].now = now]
    <3>1. starter'[p].pc = "create" /\ starter'[p].head = head /\ starter'[p].now = now
      BY <1>1, <2>1 DEF StarterState
    <3> QED
      BY <1>2, <1>3, <3>1 DEF Writing
  <2> QED
    BY <1>6, <1>8, <2>1 DEF ResolveStartHead
<1>9. CASE CreateRecord(p)
  <2>1. starter[p].session \in Sessions
    BY <1>9 DEF Inv, StarterInv, CreateRecord
  <2>2. /\ starter'[p].pc \in {"write", "list"} /\ starter'[p].now = starter[p].now
        /\ starter'[p].head = starter[p].head /\ starter'[p].session = starter[p].session
        /\ starter'[p].pc = "write" => file'[starter[p].session] = Torn(p)
    BY <1>1, <1>9, <2>1 DEF CreateRecord, Goto, StarterState
  <2> QED
    BY <1>2, <1>3, <1>9, <2>2 DEF Writing, CreateRecord
<1>10. CASE WriteRecord(p)
  <2>1. starter'[p].pc = "list" /\ starter'[p].now = starter[p].now
    BY <1>1, <1>10 DEF WriteRecord, Goto, StarterState
  <2> QED
    BY <1>2, <1>3, <1>10, <2>1 DEF Writing, WriteRecord
<1>11. CASE ListRecords(p) \/ UnlinkRecord(p)
  <2>1. starter'[p].pc = "scan" /\ starter'[p].now = starter[p].now
    BY <1>1, <1>11 DEF ListRecords, UnlinkRecord, StarterState
  <2> QED
    BY <1>2, <1>3, <1>11, <2>1 DEF Writing, ListRecords, UnlinkRecord
<1>12. CASE ScanRecord(p)
  <2>1. ASSUME NEW s \in starter[p].entries, NEW rest,
               \/ starter' = [starter EXCEPT ![p].pc = "unlink", ![p].victim = s, ![p].entries = rest]
               \/ starter' = [starter EXCEPT ![p].entries = rest]
        PROVE  starter'[p].pc \in {"unlink", starter[p].pc} /\ starter'[p].now = starter[p].now
    <3>1. \/ starter' = [starter EXCEPT ![p] = [starter[p] EXCEPT !.pc = "unlink", !.victim = s,
                                                                   !.entries = rest]]
          \/ starter' = [starter EXCEPT ![p] = [starter[p] EXCEPT !.entries = rest]]
      BY <2>1
    <3> QED
      BY <1>1, <3>1 DEF StarterState
  <2>2. \/ Finish(p)
        \/ starter'[p].pc \in {"unlink", starter[p].pc} /\ starter'[p].now = starter[p].now
    BY <1>12, <2>1 DEF ScanRecord
  <2> QED
    BY <1>2, <1>3, <1>6, <1>12, <2>2 DEF ScanRecord, Writing
<1> QED
  BY <1>5, <1>7, <1>8, <1>9, <1>10, <1>11, <1>12 DEF StarterStep

\* A record that is stale today was not made today, so its session is live.
LEMMA StaleIsLive ==
    ASSUME Inv, PruneInv, NEW s \in Sessions,
           Stale(file[s], now, file[s].head \notin gone)
    PROVE  phase[s] = "live" /\ Outlived(file[s])
<1>1. file[s].kind = "record" /\ Outlived(file[s])
  BY DEF Stale, Aged, Outlived
<1>2. now \in Nat /\ AgeLimit \in Nat
  BY SessionAssumption DEF Inv, TypeOK
<1>3. ~OfToday(file[s])
  BY <1>1, <1>2 DEF OfToday, Outlived
<1>4. phase[s] \in {"new", "starting", "live"}
  BY DEF Inv, TypeOK
<1> QED
  BY <1>1, <1>3, <1>4 DEF PruneInv, TodaysRecords

LEMMA PrunerKeeps ==
    ASSUME ~Flaky, Inv, PruneInv, NEW p \in Starters, StarterStep(p), starter'[p].pc = "unlink"
    PROVE  Pruning(p)'
<1>1. /\ starter \in [Starters -> StarterState]
  BY DEF Inv, TypeOK
<1>2. ScanRecord(p)
  <2>1. starter[p].pc # "unlink" \/ ~UnlinkRecord(p)
    BY <1>1 DEF UnlinkRecord, StarterState
  <2>2. ~\E s \in Sessions, source \in Sources : Fire(p, s, source)
    BY <1>1 DEF Fire, Resting
  <2>3. ~Finish(p) /\ \A step \in {"head", "create", "write", "list", "scan"} : ~Goto(p, step)
    BY <1>1 DEF Finish, Goto, Resting, StarterState
  <2>4. ~ResolveStartHead(p) /\ ~ListRecords(p)
    BY <1>1, <2>3 DEF ResolveStartHead, ListRecords, StarterState
  <2> QED
    BY <2>1, <2>2, <2>3, <2>4 DEF StarterStep, ReadStartInput, CreateRecord, WriteRecord,
       UnlinkRecord, StarterDies
<1>3. starter[p].pc = "scan" /\ UNCHANGED <<repository, now, file, phase>>
  BY <1>2 DEF ScanRecord
<1>4. ~Finish(p)
  BY <1>1 DEF Finish, Resting
<1>5. PICK s \in starter[p].entries : \E exists \in CommitExists(file[s].head) :
         LET rest == starter[p].entries \ {s} IN
         \/ /\ Stale(file[s], starter[p].now, exists)
            /\ starter' = [starter EXCEPT ![p].pc = "unlink", ![p].victim = s,
                                          ![p].entries = rest]
         \/ starter' = [starter EXCEPT ![p].entries = rest]
  BY <1>2, <1>4 DEF ScanRecord
<1>6. starter[p].now = now
  BY <1>3 DEF PruneInv, Writing
<1>7. Stale(file[s], now, file[s].head \notin gone)
      /\ starter' = [starter EXCEPT ![p].pc = "unlink", ![p].victim = s,
                                    ![p].entries = starter[p].entries \ {s}]
  <2>1. starter' # [starter EXCEPT ![p].entries = starter[p].entries \ {s}]
    BY <1>1, <1>3 DEF StarterState
  <2> QED
    BY <1>5, <1>6, <2>1 DEF CommitExists
<1>8. starter'[p].victim = s /\ s \in Sessions
  BY <1>1, <1>7 DEF StarterState
<1>9. phase[s] = "live" /\ Outlived(file[s])
  BY <1>7, <1>8, StaleIsLive
<1> QED
  BY <1>3, <1>8, <1>9 DEF Pruning, Outlived, repository

LEMMA PruneStarter ==
    ASSUME ~Flaky, Inv, PruneInv, NEW p \in Starters, StarterStep(p)
    PROVE  PruneInv'
<1>1. UNCHANGED <<repository, now>>
  BY DEF StarterStep, Fire, ReadStartInput, ResolveStartHead, CreateRecord, WriteRecord,
         ListRecords, ScanRecord, UnlinkRecord, StarterDies
<1>2. HeadStays'
  BY <1>1 DEF HeadStays, PruneInv, repository
<1>3. \A s \in Sessions : phase'[s] = phase[s] \/ (phase[s] # "live" /\ phase'[s] = "starting")
  BY StarterKeeps DEF Inv
<1>4. ASSUME NEW s \in Sessions, file'[s].kind = "record", file'[s] # file[s]
      PROVE  phase[s] = "starting" /\ OfToday(file'[s])
  <2>1. /\ file[s] = Torn(p)
        /\ starter[p].pc = "write" /\ starter[p].session = s
    BY <1>4, RecordMade DEF Inv
  <2>2. phase[s] = "starting"
    BY <2>1 DEF Inv, StarterInv
  <2>3. WriteRecord(p)
    BY <1>4, <2>1, FilesChange DEF StarterStep, Fire, ReadStartInput, ResolveStartHead,
       CreateRecord, ListRecords, ScanRecord, UnlinkRecord, StarterDies
  <2>4. file'[s] = Record(starter[p].head, starter[p].now)
    BY <2>1, <2>3 DEF WriteRecord, Inv, TypeOK
  <2> QED
    BY <2>1, <2>2, <2>4 DEF Record, OfToday, PruneInv, Writing
<1>5. TodaysRecords'
  <2> SUFFICES ASSUME NEW s \in Sessions, file'[s].kind = "record"
               PROVE  /\ phase'[s] # "new"
                      /\ phase'[s] = "starting" => OfToday(file'[s])
    BY <1>1 DEF TodaysRecords, OfToday, repository
  <2>1. CASE file'[s] # file[s]
    BY <1>3, <1>4, <2>1
  <2>2. CASE file'[s] = file[s]
    BY <1>3, <2>2 DEF PruneInv, TodaysRecords, Inv, TypeOK
  <2> QED
    BY <2>1, <2>2
<1>6. ASSUME NEW q \in Starters PROVE Writing(q)'
  <2>1. CASE q = p
    BY <2>1, WriterKeeps
  <2>2. CASE q # p
    <3>1. starter'[q] = starter[q]
      BY <2>2, StarterKeeps DEF Inv
    <3>2. starter[q].pc = "write" => file'[starter[q].session] = Torn(q)
      BY <2>2, WriterUndisturbed
    <3> QED
      BY <1>1, <3>1, <3>2 DEF PruneInv, Writing, repository
  <2> QED
    BY <2>1, <2>2
<1>7. ASSUME NEW q \in Starters, starter'[q].pc = "unlink" PROVE Pruning(q)'
  <2>1. CASE q = p
    BY <1>7, <2>1, PrunerKeeps
  <2>2. CASE q # p
    <3> DEFINE s == starter[q].victim
    <3>1. starter'[q] = starter[q]
      BY <2>2, StarterKeeps DEF Inv
    <3>2. s \in Sessions /\ phase[s] = "live"
          /\ (file[s].kind = "record" => Outlived(file[s]))
      BY <1>7, <3>1 DEF PruneInv, Pruning
    <3> HIDE DEF s
    <3>3. file'[s].kind = "record" => file'[s] = file[s]
      BY <1>4, <3>2
    <3>4. phase'[s] = "live"
      BY <1>3, <3>2
    <3> QED
      BY <1>1, <3>1, <3>2, <3>3, <3>4 DEF Pruning, Outlived, repository, s
  <2> QED
    BY <2>1, <2>2
<1>8. \A q \in Starters : Writing(q)' /\ Pruning(q)'
  BY <1>6, <1>7 DEF Pruning
<1> QED
  BY <1>2, <1>5, <1>8 DEF PruneInv

LEMMA PruneStep == SlowWorld /\ ~Flaky /\ Inv /\ PruneInv /\ [Next]_vars => PruneInv'
<1> SUFFICES ASSUME SlowWorld, ~Flaky, Inv, PruneInv, [Next]_vars PROVE PruneInv'
  OBVIOUS
<1>1. CASE UNCHANGED <<repository, now, file, phase, starter>>
  BY <1>1 DEF PruneInv, HeadStays, TodaysRecords, OfToday, Writing, Pruning, Outlived, repository
<1>2. ASSUME NEW s \in Sessions, StopStep(s)
      PROVE  UNCHANGED <<repository, now, file, phase, starter>>
  BY <1>2 DEF StopStep, StopFires, ResolveWindowHead, ReadRecord, CompareWithHead, Verdict,
         AnalyseSessionCommits, StopDies
<1>3. UNCHANGED vars => UNCHANGED <<repository, now, file, phase, starter>>
  BY DEF vars, repository
<1> QED
  BY <1>1, <1>2, <1>3, PruneWorld, PruneStarter DEF Next

LEMMA PruneAlways ==
    ASSUME SlowWorld, ~Flaky
    PROVE  Spec => []PruneInv
<1>1. Inv /\ PruneInv /\ [Next]_vars => PruneInv'
  BY PruneStep
<1> QED
  BY <1>1, PruneInit, InvAlways, PTL DEF Spec

\* Where Git answers and start hooks end within the day, no start hook loses
\* the file it is writing to another's prune, however many run, however they
\* interleave and wherever one is killed.
THEOREM WriterIsSafe ==
    ASSUME SlowWorld, ~Flaky
    PROVE  Spec => []WriterKeepsItsFile
<1>1. PruneInv => WriterKeepsItsFile
  BY DEF PruneInv, Writing, WriterKeepsItsFile
<1> QED
  BY <1>1, PruneAlways, PTL

\* Under the same hypotheses a prune removes only what is stale at that very
\* moment, although it judged the record before, and another time unlinks it.
THEOREM PrunedWereStale ==
    ASSUME SlowWorld, ~Flaky
    PROVE  Spec => OnlyStaleRecordsPruned
<1> DEFINE Due == \A s \in Sessions :
                     file[s].kind = "record" /\ file'[s] = Absent
                         => now > file[s].created + AgeLimit \/ file[s].head \in gone
<1>1. Inv /\ PruneInv /\ [Next]_vars => Due
  <2> SUFFICES ASSUME Inv, PruneInv, [Next]_vars, NEW s \in Sessions,
                      file[s].kind = "record", file'[s] = Absent
               PROVE  now > file[s].created + AgeLimit \/ file[s].head \in gone
    OBVIOUS
  <2>1. file'[s] # file[s]
    BY DEF Absent
  <2>2. PICK p \in Starters : StarterStep(p)
    BY <2>1 DEF Next, vars, WorldStep, Commit, Checkout, Collect, Tick, Ready, StopStep, StopFires,
       ResolveWindowHead, ReadRecord, CompareWithHead, Verdict, AnalyseSessionCommits, StopDies
  <2>3. file[s].kind # "absent" /\ file[s] # Torn(p)
    BY DEF Torn
  <2>4. starter[p].pc = "unlink" /\ starter[p].victim = s
    <3>1. TypeOK
      BY DEF Inv
    <3> QED
      BY <2>1, <2>2, <2>3, <3>1, FilesChange
  <2> QED
    BY <2>4 DEF PruneInv, Pruning, Outlived
<1> QED
  BY <1>1, InvAlways, PruneAlways, PTL DEF Spec, OnlyStaleRecordsPruned

=============================================================================
