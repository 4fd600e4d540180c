-------------------------- MODULE PreToolCall_proofs --------------------------
(***************************************************************************)
(* What is proved about whole PreToolUse processes, for every cap, chunk,  *)
(* input, number of strengths and either policy: only a whole input within *)
(* the cap is acted on, no route of calls that are judged and pass ends    *)
(* with a test file that checks less, and under a blocking policy nothing  *)
(* is waved through unanalysed; and every call is answered.                *)
(***************************************************************************)
EXTENDS PreToolCall, TLAPS

-----------------------------------------------------------------------------
(* The input.                                                              *)

\* Why the reader is done, and why the main thread has what it has.  The
\* reader ends past the cap, at the end of the stream or on an error, and
\* none of the three is ever undone.
Cause == ~object \/ size > Cap \/ (~open /\ sent < size) \/ failed \/ expired \/ stream = "tty"

InputInv ==
    /\ InputTypeOK
    /\ object => size > 0
    /\ done => total > Cap \/ (~open /\ total = sent) \/ failed
    /\ finished => done
    /\ pc = "join" /\ ~finished => expired
    /\ result = "object" => total = size /\ size <= Cap
    /\ result \in {"none", "unreadable"} => Cause

LEMMA InputStarts == InputInit => InputInv
<1> SUFFICES ASSUME InputInit PROVE InputInv
  OBVIOUS
<1>1. sent \in 0 .. size /\ total \in 0 .. sent /\ total <= Cap + 1
  BY InputAssumption DEF InputInit
<1> QED
  BY <1>1 DEF InputInit, InputInv, InputTypeOK, Cause

LEMMA InputSender == ASSUME InputInv, (\E n \in 1 .. MaxSize : Send(n)) \/ Close
                   PROVE  InputInv'
<1> USE InputAssumption DEF InputInv, InputTypeOK, Cause
<1>1. ASSUME NEW n \in 1 .. MaxSize, Send(n) PROVE InputInv'
  <2>1. done => ~open \/ total > Cap \/ failed
    OBVIOUS
  <2> QED
    BY <1>1, <2>1 DEF Send, reader, waiter
<1>2. CASE Close
  BY <1>2 DEF Close, reader, waiter
<1> QED
  BY <1>1, <1>2

LEMMA InputReader == ASSUME InputInv, (\E n \in 1 .. MaxSize : Read(n)) \/ ReaderEnds
                   PROVE  InputInv'
<1> USE InputAssumption DEF InputInv, InputTypeOK, Cause
<1>1. ASSUME NEW n \in 1 .. MaxSize, Read(n) PROVE InputInv'
  <2>1. total + n <= Cap + 1 /\ total + n <= sent
    BY <1>1 DEF Read, More, Request
  <2> QED
    BY <1>1, <2>1 DEF Read, Reading, sender, waiter
<1>2. CASE ReaderEnds
  <2>1. /\ UNCHANGED <<size, object, sent, open, stream, total>>
        /\ UNCHANGED <<pc, finished, expired, result>>
        /\ done' = TRUE
    BY <1>2 DEF ReaderEnds, sender, waiter
  <2>2. failed' = failed \/ failed' = TRUE
    BY <1>2 DEF ReaderEnds
  <2>3. InputTypeOK'
    BY <2>1, <2>2
  <2>4. total > Cap \/ (~open /\ total = sent) \/ failed'
    BY <1>2 DEF ReaderEnds, More
  <2>5. Cause => Cause'
    BY <2>1, <2>2
  <2> HIDE DEF InputTypeOK, Cause
  <2> QED
    BY <2>1, <2>3, <2>4, <2>5
<1> QED
  BY <1>1, <1>2

LEMMA InputMain == ASSUME InputInv, Start \/ Wake \/ Join
                 PROVE  InputInv'
<1> USE InputAssumption DEF InputInv, InputTypeOK, Cause
<1>1. CASE Start
  BY <1>1 DEF Start, sender, reader
<1>2. CASE Wake
  <2>1. /\ UNCHANGED <<size, object, sent, open, stream, total, done, failed, result>>
        /\ pc' = "join"
    BY <1>2 DEF Wake, sender, reader
  <2>2. \/ done /\ finished' = TRUE /\ expired' = expired
        \/ expired' = TRUE /\ finished' = finished
    BY <1>2 DEF Wake
  <2>3. InputTypeOK'
    BY <2>1, <2>2
  <2>4. Cause => Cause'
    BY <2>1, <2>2
  <2> HIDE DEF InputTypeOK, Cause
  <2> QED
    BY <2>1, <2>2, <2>3, <2>4
<1>3. CASE Join
  <2>1. UNCHANGED <<sender, stream, reader, finished, expired>> /\ pc' = "end" /\ pc = "join"
    BY <1>3 DEF Join
  <2>2. \/ result' = "none" /\ total = 0
        \/ result' = "unreadable" /\ total > 0
           /\ (~finished \/ total > Cap \/ ~object \/ total # size)
        \/ result' = "object" /\ total <= Cap /\ total = size
    BY <1>3 DEF Join, TooLong
  <2> QED
    BY <2>1, <2>2 DEF sender, reader
<1> QED
  BY <1>1, <1>2, <1>3

LEMMA InputStep == InputInv /\ [InputNext]_inputVars => InputInv'
<1> SUFFICES ASSUME InputInv, [InputNext]_inputVars PROVE InputInv'
  OBVIOUS
<1>1. CASE UNCHANGED inputVars
  BY <1>1 DEF inputVars, sender, reader, waiter, InputInv, InputTypeOK, Cause
<1> QED
  BY <1>1, InputSender, InputReader, InputMain DEF InputNext

-----------------------------------------------------------------------------
(* The judgement.                                                          *)

\* What the worker holds never checks less than the floor: the working copy
\* it will read, the side it compares with, and the call it has passed.
FloorInv  == floor <= Floor(disk, headCopy)
WindowInv == worker \in {"policy", "rel", "read"} => floor <= Floor(disk, window)
BeforeInv == worker = "compare" => before.form # "big" /\ floor <= Floor(before, window)
SideInv   == worker = "analyse" =>
                /\ floor <= before.checks
                /\ before.form # "text" => floor = 0
CallInv   == after # Absent /\ (worker \in {"compare", "analyse"} => after \notin {Fails, Big})
PassInv   == payload = "silent" /\ Judged /\ after # Fails => floor <= Floor(after, headCopy)

\* Who knows what when: a worker that has read the file knows the policy and
\* the path, a call at rest has no worker, and an answer that lets a known
\* file pass is the worker's own.
KnownInv  == /\ seen # "nothing" => config /\ rel
             /\ worker = "rel" => config
             /\ worker \in {"read", "compare", "analyse"} => config /\ rel
             /\ worker \in {"route", "policy", "rel"} => ~rel
             /\ worker \in {"route", "policy", "rel", "read"} => seen = "nothing"
RestInv   == /\ main \in {"idle", "input"} => payload = "none" /\ ~rel /\ seen = "nothing"
             /\ main # "join" => worker = "off"
PendingInv == worker \in {"route", "policy", "rel", "read", "compare", "analyse"} => payload = "none"
AnswerInv == /\ payload = "note" => OnError # "block"
             /\ main = "answered" /\ answer = "silent" /\ config /\ rel => payload = "silent"
             /\ answer = "note" => OnError # "block"

\* A worker that has read the file had a cause to let the call pass in silence.
MayPass    == \/ seen = "refused"
              \/ seen = "copy" /\ ~Predicted(before, after)
              \/ seen = "compared" /\ ~Weakens(before, after)
SilenceInv == payload = "silent" /\ config /\ rel => MayPass

-----------------------------------------------------------------------------
\* A copy checks something only if it parses, and its form tells which it is.
LEMMA CopyForms ==
    ASSUME NEW c \in Copies \cup {Fails}
    PROVE  /\ c.checks \in Nat
           /\ c.form # "text" => c.checks = 0
           /\ c.form = "big" <=> c = Big
           /\ c.form = "absent" <=> c = Absent
           /\ c.form = "fails" <=> c = Fails
           /\ c.form \in {"text", "broken", "big", "absent", "fails"}
    BY PreToolAssumption DEF Copies, Absent, Broken, Big, Text, Fails

\* The floor of a file is the strength of its working copy or of HEAD's.
LEMMA FloorIs ==
    ASSUME NEW c \in Copies, NEW h \in Copies
    PROVE  /\ Floor(c, h) \in Strengths
           /\ Floor(c, h) \in Nat
           /\ c.form = "text" => Floor(c, h) = c.checks
           /\ c.form = "broken" => Floor(c, h) = h.checks
           /\ c.form \notin {"text", "broken"} => Floor(c, h) = 0
<1>1. /\ c \in Copies \cup {Fails}
      /\ h \in Copies \cup {Fails}
  OBVIOUS
<1>2. c.checks \in Strengths /\ h.checks \in Strengths
  BY PreToolAssumption DEF Copies, Absent, Broken, Big, Text
<1>3. Strengths \subseteq Nat /\ 0 \in Strengths
  BY PreToolAssumption
<1> QED
  BY <1>2, <1>3 DEF Floor

-----------------------------------------------------------------------------
\* The control of a call: types, and who knows what when.
Control == TypeOK /\ CallInv /\ KnownInv /\ RestInv /\ PendingInv /\ AnswerInv /\ SilenceInv

LEMMA ControlInit == Init => Control
<1> SUFFICES ASSUME Init PROVE Control
  OBVIOUS
<1>1. floor \in Strengths
  BY FloorIs DEF Init
<1>2. Absent \in Copies /\ Fails # Absent
  BY DEF Copies, Absent, Fails
<1> QED
  BY <1>1, <1>2 DEF Init, Control, TypeOK, CallInv, KnownInv, RestInv, PendingInv, AnswerInv, SilenceInv, MayPass, Answers

LEMMA ControlStep == ASSUME Control, Next PROVE Control'
<1> USE PreToolAssumption DEF Control, CallInv, KnownInv, RestInv, PendingInv, AnswerInv, SilenceInv, MayPass, Answers
<1>1. CASE EditElsewhere \/ Commit \/ Switch
  <2>1. PICK c \in Copies, h \in Copies : Unseen(c, h)
    BY <1>1 DEF EditElsewhere, Commit, Switch, TypeOK
  <2>2. floor' \in Strengths
    <3>1. Floor(c, h) \in Strengths /\ Floor(c, Held(h)) \in Strengths
      BY FloorIs DEF Held, TypeOK
    <3> QED
      BY <2>1, <3>1 DEF Unseen, Lower, TypeOK
  <2>3. /\ disk' \in Copies /\ headCopy' \in Copies
        /\ UNCHANGED <<after, main, answer, event, worker, state, window, before, seen>>
    BY <2>1 DEF Unseen
  <2> QED
    BY <2>2, <2>3 DEF state, TypeOK
<1>2. CASE CallTool
  <2>1. after' \in Copies \cup {Fails} /\ after' # Absent
    BY <1>2 DEF CallTool, Fails, Absent
  <2> QED
    BY <1>2, <2>1 DEF CallTool, file, state, TypeOK
<1>3. CASE Settle
  <2>1. floor' \in Strengths /\ disk' \in Copies
    BY <1>3, FloorIs DEF Settle, TypeOK
  <2>2. Absent \in Copies /\ Fails # Absent
    BY DEF Copies, Absent, Fails
  <2> QED
    BY <1>3, <2>1, <2>2 DEF Settle, TypeOK
<1>4. CASE ReadEvent
  BY <1>4 DEF ReadEvent, file, state, TypeOK
<1>5. CASE Answer
  BY <1>5 DEF Answer, Unanalysed, file, state, TypeOK
<1>6. CASE Vanish
  BY <1>6 DEF Vanish, file, state, TypeOK
<1>7. CASE Route
  BY <1>7 DEF Route, Return, file, TypeOK
<1>8. CASE ReadPolicy
  BY <1>8 DEF ReadPolicy, file, TypeOK
<1>9. CASE KnowPath
  BY <1>9 DEF KnowPath, file, TypeOK
<1>10. CASE ReadDisk
  <2>1. after.form = "big" <=> after = Big
    BY CopyForms DEF TypeOK
  <2> QED
    BY <1>10, <2>1 DEF ReadDisk, Return, AsksOversize, Predicted, file, TypeOK
<1>11. CASE Compare
  BY <1>11 DEF Compare, Return, BeforeSide, Unanalysed, file, TypeOK
<1>12. CASE Analyse
  BY <1>12 DEF Analyse, Return, file, TypeOK
<1>13. CASE Raise
  BY <1>13 DEF Raise, Failing, Return, Unanalysed, file, TypeOK
<1> QED
  BY <1>1, <1>2, <1>3, <1>4, <1>5, <1>6, <1>7, <1>8, <1>9, <1>10, <1>11, <1>12, <1>13
  DEF Next, MainStep, WorkerStep

-----------------------------------------------------------------------------
\* The strength of what a call holds.
Strength == FloorInv /\ WindowInv /\ BeforeInv /\ SideInv /\ PassInv

LEMMA StrengthInit == Init => Strength
<1> SUFFICES ASSUME Init PROVE Strength
  OBVIOUS
<1>1. floor = Floor(disk, headCopy) /\ floor \in Nat
  BY FloorIs DEF Init
<1> QED
  BY <1>1 DEF Init, Strength, FloorInv, WindowInv, BeforeInv, SideInv, PassInv

\* What others do to the file lowers the floor to what it leaves.
LEMMA StrengthWorld ==
    ASSUME Control, Strength, EditElsewhere \/ Commit \/ Switch
    PROVE  Strength'
<1>1. PICK c \in Copies, h \in Copies : Unseen(c, h) /\ (h = headCopy \/ h = c)
  BY DEF EditElsewhere, Commit, Switch, Control, TypeOK
<1>2. /\ disk' = c /\ headCopy' = h
      /\ UNCHANGED <<after, main, worker, payload, window, before, seen>>
  BY <1>1 DEF Unseen, state
<1>3. /\ disk \in Copies /\ headCopy \in Copies /\ window \in Copies /\ before \in Copies
      /\ after \in Copies \cup {Fails}
      /\ floor \in Nat
  BY PreToolAssumption DEF Control, TypeOK
<1>4. Floor(c, h) \in Nat /\ Floor(c, Held(h)) \in Nat
  BY <1>3, FloorIs DEF Held
<1>5. floor' <= Floor(c, h) /\ floor' \in Nat
  BY <1>1, <1>3, <1>4 DEF Unseen, Lower
<1>6. CASE main = "idle"
  <2>1. worker = "off" /\ payload = "none"
    BY <1>6 DEF Control, RestInv
  <2> QED
    BY <2>1, <1>2, <1>5 DEF Strength, FloorInv, WindowInv, BeforeInv, SideInv, PassInv, Judged
<1>7. CASE main # "idle"
  <2>1. floor' <= floor /\ floor' <= Floor(c, Held(h))
    BY <1>1, <1>3, <1>4, <1>7 DEF Unseen, Lower
  <2>2. FloorInv'
    BY <1>2, <1>5 DEF FloorInv, Floor
  <2>3. WindowInv'
    BY <1>2, <2>1 DEF WindowInv, Floor, Held
  <2>4. Floor(before, window) \in Nat /\ before.checks \in Nat
    BY <1>3, FloorIs, CopyForms
  <2>5. BeforeInv'
    <3> SUFFICES ASSUME worker = "compare"
                 PROVE  before.form # "big" /\ floor' <= Floor(before, window)
      BY <1>2 DEF BeforeInv, Floor
    <3>1. before.form # "big" /\ floor <= Floor(before, window)
      BY DEF Strength, BeforeInv
    <3> QED
      BY <3>1, <2>1, <2>4, <1>3, <1>5
  <2>6. SideInv'
    BY <1>2, <1>3, <1>5, <2>1, <2>4 DEF Strength, SideInv
  <2>7. PassInv'
    <3> SUFFICES ASSUME payload = "silent", Judged, after # Fails
                 PROVE  floor' <= Floor(after, h)
      BY <1>2 DEF PassInv, Judged, Floor
    <3>1. floor <= Floor(after, headCopy)
      BY DEF Strength, PassInv
    <3>2. after \in Copies
      BY <1>3
    <3>3. CASE h = headCopy
      BY <3>1, <3>3, <3>2, <2>1, <1>3, <1>5, FloorIs
    <3>4. CASE h = c
      <4>1. floor' <= h.checks
        <5>1. Floor(h, h) = h.checks
          BY <1>1, <3>4, FloorIs, CopyForms
        <5> QED
          BY <5>1, <1>5, <3>4
      <4> QED
        BY <3>1, <3>2, <2>1, <4>1, <1>3, <1>5, FloorIs
    <3> QED
      BY <1>1, <3>3, <3>4
  <2> QED
    BY <2>2, <2>3, <2>5, <2>6, <2>7 DEF Strength
<1> QED
  BY <1>6, <1>7

\* No step of the call or of the hook that judges it puts less into the file
\* than the floor, nor holds less.
LEMMA StrengthCall ==
    ASSUME Control, Strength, Control', CallTool \/ Settle \/ MainStep \/ Vanish \/ WorkerStep
    PROVE  Strength'
<1>1. /\ disk \in Copies /\ headCopy \in Copies /\ window \in Copies /\ before \in Copies
      /\ after \in Copies \cup {Fails}
      /\ floor \in Nat
  BY PreToolAssumption DEF Control, TypeOK
<1> USE DEF Strength, Judged
<1>2. CASE CallTool
  <2>1. worker = "off" /\ payload = "none"
    BY <1>2 DEF CallTool, Control, RestInv
  <2> QED
    BY <1>2, <2>1 DEF CallTool, file, state, FloorInv, WindowInv, BeforeInv, SideInv, PassInv
<1>3. CASE Settle
  <2>1. worker' = "off" /\ payload' = "none" /\ UNCHANGED headCopy
    BY <1>3 DEF Settle
  <2>2. FloorInv'
    <3>1. CASE UNCHANGED <<disk, floor>>
      BY <3>1, <2>1 DEF FloorInv, Floor
    <3>2. CASE /\ after # Fails /\ disk' = after
               /\ floor' = IF answer = "silent" /\ Judged THEN floor ELSE Floor(after, headCopy)
      <4>1. CASE answer = "silent" /\ Judged
        <5>1. payload = "silent"
          BY <4>1, <1>3 DEF Settle, Control, KnownInv, AnswerInv
        <5>2. floor <= Floor(after, headCopy)
          BY <4>1, <5>1, <3>2 DEF PassInv
        <5> QED
          BY <2>1, <3>2, <4>1, <5>2 DEF FloorInv, Floor
      <4>2. CASE ~(answer = "silent" /\ Judged)
        <5>1. floor' = Floor(after, headCopy) /\ Floor(after, headCopy) \in Nat
          BY <4>2, <3>2, <1>1, FloorIs
        <5> QED
          BY <2>1, <3>2, <5>1 DEF FloorInv, Floor
      <4> QED
        BY <4>1, <4>2
    <3> QED
      BY <1>3, <3>1, <3>2 DEF Settle
  <2> QED
    BY <2>1, <2>2 DEF WindowInv, BeforeInv, SideInv, PassInv
<1>4. CASE ReadEvent \/ Answer \/ Vanish
  <2>1. /\ worker' \in {"route", "off"}
        /\ UNCHANGED <<file, after, payload, seen>>
    BY <1>4 DEF ReadEvent, Answer, Vanish, state
  <2> QED
    BY <2>1 DEF file, FloorInv, WindowInv, BeforeInv, SideInv, PassInv, Floor
<1>5. CASE Route
  <2>1. ~Judged' /\ UNCHANGED file
    BY <1>5 DEF Route, Control, KnownInv
  <2>2. worker' \in {"ended", "policy"} /\ (worker' = "policy" => window' = headCopy)
    BY <1>5 DEF Route, Return
  <2> QED
    BY <2>1, <2>2 DEF file, FloorInv, WindowInv, BeforeInv, SideInv, PassInv, Floor
<1>6. CASE ReadPolicy \/ KnowPath
  <2>1. /\ worker \in {"policy", "rel"} /\ worker' \in {"rel", "read"}
        /\ UNCHANGED <<file, after, payload, window, seen>>
    BY <1>6 DEF ReadPolicy, KnowPath
  <2> QED
    BY <2>1 DEF file, FloorInv, WindowInv, BeforeInv, SideInv, PassInv, Floor
<1>7. CASE ReadDisk
  <2>1. UNCHANGED <<file, after, window>> /\ floor <= Floor(disk, window)
    BY <1>7 DEF ReadDisk, WindowInv
  <2>2. CASE Return("silent") /\ seen' = "refused"
    <3>1. worker' = "ended" /\ ~Judged'
      BY <2>2, <1>7 DEF Return, ReadDisk, Control, KnownInv
    <3> QED
      BY <2>1, <3>1 DEF file, FloorInv, WindowInv, BeforeInv, SideInv, PassInv, Floor
  <2>3. CASE AsksOversize(disk, after) /\ Return("ask")
    <3>1. worker' = "ended" /\ payload' = "ask"
      BY <2>3 DEF Return
    <3> QED
      BY <2>1, <3>1 DEF file, FloorInv, WindowInv, BeforeInv, SideInv, PassInv, Floor
  <2>4. CASE ~Predicted(disk, after) /\ Return("silent")
    <3>1. worker' = "ended" /\ (after # Fails => after = disk)
      BY <2>4 DEF Return, Predicted
    <3> QED
      BY <2>1, <3>1 DEF file, FloorInv, WindowInv, BeforeInv, SideInv, PassInv, Floor
  <2>5. CASE /\ ~AsksOversize(disk, after)
             /\ worker' = "compare" /\ UNCHANGED payload /\ before' = disk /\ seen' = "copy"
    <3>1. disk.form # "big"
      BY <2>5 DEF AsksOversize
    <3>2. payload # "silent" \/ ~Judged' \/ floor <= Floor(after, headCopy)
      BY <2>5, <1>7 DEF ReadDisk, Control, PendingInv
    <3> QED
      BY <2>1, <2>5, <3>1, <3>2
      DEF file, FloorInv, WindowInv, BeforeInv, SideInv, PassInv, Floor
  <2> QED
    BY <1>7, <2>2, <2>3, <2>4, <2>5 DEF ReadDisk
<1>8. CASE Compare
  <2>1. /\ UNCHANGED <<file, after, window, seen>>
        /\ before.form # "big" /\ floor <= Floor(before, window)
    BY <1>8 DEF Compare, BeforeInv
  <2>2. CASE Return(Unanalysed(config /\ rel))
    <3>1. worker' = "ended" /\ payload' # "silent"
      BY <2>2, <1>8 DEF Return, Unanalysed, Compare, Control, KnownInv
    <3> QED
      BY <2>1, <3>1 DEF file, FloorInv, WindowInv, BeforeInv, SideInv, PassInv, Floor
  <2>3. CASE /\ ~(before.form = "broken" /\ window.form = "big")
             /\ before' = BeforeSide(before, window)
             /\ worker' = "analyse" /\ UNCHANGED payload
    <3>1. floor <= before'.checks /\ (before'.form # "text" => floor = 0)
      BY <2>1, <2>3, <1>1, FloorIs, CopyForms DEF BeforeSide
    <3>2. payload # "silent"
      BY <1>8 DEF Compare, Control, PendingInv
    <3> QED
      BY <2>1, <2>3, <3>1, <3>2
      DEF file, FloorInv, WindowInv, BeforeInv, SideInv, PassInv, Floor
  <2> QED
    BY <1>8, <2>2, <2>3 DEF Compare
<1>9. CASE Analyse
  <2>1. /\ UNCHANGED <<file, after>> /\ worker' = "ended"
        /\ after \in Copies /\ after \notin {Big, Absent, Fails}
    BY <1>9, <1>1 DEF Analyse, Return, Control, CallInv
  <2>2. ASSUME payload' = "silent" PROVE floor <= Floor(after, headCopy)
    <3>1. ~Weakens(before, after)
      BY <1>9, <2>2 DEF Analyse, Return
    <3>2. floor <= before.checks /\ (before.form # "text" => floor = 0)
      BY <1>9 DEF Analyse, SideInv
    <3>3. before.checks \in Nat /\ after.checks \in Nat /\ headCopy.checks \in Nat
      BY <1>1, CopyForms
    <3>4. floor <= after.checks
      BY <1>1, <3>1, <3>2, <3>3 DEF Weakens
    <3>5. after.form = "text" \/ (after.form = "broken" /\ after.checks = 0)
      BY <2>1, CopyForms
    <3> QED
      BY <1>1, <2>1, <3>3, <3>4, <3>5, FloorIs
  <2> QED
    BY <2>1, <2>2 DEF file, FloorInv, WindowInv, BeforeInv, SideInv, PassInv, Floor
<1>10. CASE Raise
  <2>1. /\ UNCHANGED <<file, after, seen>> /\ worker' = "ended"
        /\ Judged => payload' # "silent"
    BY <1>10 DEF Raise, Return, Unanalysed, Control, KnownInv
  <2> QED
    BY <2>1 DEF file, FloorInv, WindowInv, BeforeInv, SideInv, PassInv, Floor
<1> QED
  BY <1>2, <1>3, <1>4, <1>5, <1>6, <1>7, <1>8, <1>9, <1>10 DEF MainStep, WorkerStep

-----------------------------------------------------------------------------
JudgeInv == Control /\ Strength

LEMMA JudgeStarts == Init => JudgeInv
BY ControlInit, StrengthInit DEF JudgeInv

LEMMA JudgeStep == JudgeInv /\ [Next]_vars => JudgeInv'
<1> SUFFICES ASSUME JudgeInv, [Next]_vars PROVE JudgeInv'
  OBVIOUS
<1>1. CASE Next
  BY <1>1, ControlStep, StrengthWorld, StrengthCall DEF JudgeInv, Next
<1>2. CASE UNCHANGED vars
  BY <1>2 DEF vars, file, state, JudgeInv, Control, Strength, TypeOK, CallInv, KnownInv, RestInv,
     PendingInv, AnswerInv, SilenceInv, MayPass, Judged, FloorInv, WindowInv, BeforeInv, SideInv, PassInv, Floor, Answers
<1> QED
  BY <1>1, <1>2

-----------------------------------------------------------------------------
(* A whole call.  Its input lasts until the event is taken.                *)

Resting == main # "input" => NoInput

\* Whatever a call does is a step of the judgement, or none.
LEMMA CallStep == [CallNext]_allVars => [Next]_vars
<1> SUFFICES ASSUME [CallNext]_allVars PROVE [Next]_vars
  OBVIOUS
<1>1. CASE UNCHANGED allVars
  BY <1>1 DEF allVars
<1>2. CASE StartHook
  BY <1>2 DEF StartHook, Next
<1>3. CASE ReadInput
  BY <1>3 DEF ReadInput
<1>4. CASE TakeEvent
  BY <1>4 DEF TakeEvent, Next, MainStep
<1>5. CASE Elsewhere
  BY <1>5 DEF Elsewhere, Next
<1>6. CASE Judge
  BY <1>6 DEF Judge, Next, MainStep
<1>7. CASE Die
  BY <1>7 DEF Die, Next
<1> QED
  BY <1>1, <1>2, <1>3, <1>4, <1>5, <1>6, <1>7 DEF CallNext

LEMMA NoInputIsFine == ASSUME NoInput PROVE InputInv
<1>1. 0 \in 0 .. MaxSize /\ 0 \in 0 .. 0 /\ 0 <= Cap + 1
  BY InputAssumption
<1> QED
  BY <1>1 DEF NoInput, InputInv, InputTypeOK, Cause

LEMMA ForgetIsFine == ASSUME Forget PROVE InputInv' /\ NoInput'
<1>1. 0 \in 0 .. MaxSize /\ 0 \in 0 .. 0 /\ 0 <= Cap + 1
  BY InputAssumption
<1> QED
  BY <1>1 DEF Forget, NoInput, InputInv, InputTypeOK, Cause

LEMMA RestStays ==
    ASSUME InputInv, Resting, UNCHANGED inputVars, main' = main \/ main # "input" \/ NoInput
    PROVE  InputInv' /\ (main' # "input" => NoInput')
BY DEF inputVars, sender, reader, waiter, InputInv, InputTypeOK, Cause, Resting, NoInput

CallInvariant == JudgeInv /\ InputInv /\ Resting

LEMMA CallStarts == CallInit => CallInvariant
BY JudgeStarts, NoInputIsFine DEF CallInit, CallInvariant, Resting

LEMMA CallKeeps == CallInvariant /\ [CallNext]_allVars => CallInvariant'
<1> SUFFICES ASSUME CallInvariant, [CallNext]_allVars PROVE CallInvariant'
  OBVIOUS
<1>0. JudgeInv' /\ InputInv /\ Resting
  BY CallStep, JudgeStep DEF CallInvariant
<1>1. CASE UNCHANGED allVars
  BY <1>0, <1>1, RestStays DEF allVars, vars, CallInvariant, Resting
<1>2. CASE StartHook
  <2>1. main = "idle" /\ main' = "input"
    BY <1>2 DEF StartHook, CallTool
  <2>2. NoInput
    BY <1>0, <2>1 DEF Resting
  <2>3. /\ size' \in 0 .. MaxSize /\ object' \in BOOLEAN /\ (object' => size' > 0)
        /\ stream' \in {"tty", "pipe"}
        /\ UNCHANGED <<sent, open, reader, waiter>>
    BY <1>2 DEF StartHook
  <2>4. 0 \in 0 .. size' /\ 0 \in 0 .. 0 /\ 0 <= Cap + 1
    BY <2>3, InputAssumption
  <2>5. InputInv'
    BY <2>2, <2>3, <2>4 DEF NoInput, reader, waiter, InputInv, InputTypeOK, Cause
  <2> QED
    BY <1>0, <2>1, <2>5 DEF CallInvariant, Resting
<1>3. CASE ReadInput
  <2>1. main = "input" /\ main' = main /\ InputNext
    BY <1>3 DEF ReadInput, vars
  <2>2. InputInv'
    BY <1>0, <2>1, InputStep
  <2> QED
    BY <1>0, <2>1, <2>2 DEF CallInvariant, Resting
<1>4. CASE TakeEvent \/ Die
  BY <1>0, <1>4, ForgetIsFine DEF TakeEvent, Die, CallInvariant, Resting
<1>5. CASE Elsewhere
  BY <1>0, <1>5, RestStays DEF Elsewhere, EditElsewhere, Commit, Switch, Unseen, CallInvariant, Resting
<1>6. CASE Judge
  <2>1. main' = main \/ main # "input"
    BY <1>6 DEF Judge, WorkerStep, Route, ReadPolicy, KnowPath, ReadDisk, Compare, Analyse, Raise, Answer, Settle
  <2> QED
    BY <1>0, <1>6, <2>1, RestStays DEF Judge, CallInvariant, Resting
<1> QED
  BY <1>1, <1>2, <1>3, <1>4, <1>5, <1>6 DEF CallNext

LEMMA CallHolds == CallSpec => []CallInvariant
BY CallStarts, CallKeeps, PTL DEF CallSpec

\* A whole call is a call as PreToolUse has it, whatever becomes of its input.
THEOREM CallsAreJudged == CallSpec => Spec
<1>1. CallInit => Init
  BY DEF CallInit
<1> QED
  BY <1>1, CallStep, PTL DEF CallSpec, Spec

\* Every variable of a call, its input and the file it judges stays in its
\* type; no read goes past one byte over the cap.
THEOREM TypeCorrect == CallSpec => []CallTypeOK
<1>1. CallInvariant => CallTypeOK
  BY DEF CallInvariant, CallTypeOK, InputInv, JudgeInv, Control
<1> QED
  BY <1>1, CallHolds, PTL

\* What is acted on is a whole input, within the cap (read_hook_input).
THEOREM ObjectFits == CallSpec => []ObjectFitsTheCap
<1>1. CallInvariant => ObjectFitsTheCap
  BY DEF CallInvariant, InputInv, ObjectFitsTheCap
<1> QED
  BY <1>1, CallHolds, PTL

\* A hook input is given up only for a cause (read_hook_input).
THEOREM GivenUp == CallSpec => []GivenUpForCause
<1>1. CallInvariant => GivenUpForCause
  BY DEF CallInvariant, InputInv, GivenUpForCause, Cause
<1> QED
  BY <1>1, CallHolds, PTL

\* No route of calls the hook judged and let pass ends with a test file that
\* checks less (pretool.oversized, _pre_tool_use's before side).
THEOREM NoWeakeningRoute == CallSpec => []NoSilentRoute
<1>1. JudgeInv => NoSilentRoute
  BY DEF JudgeInv, Strength, FloorInv, Floor, Control, NoSilentRoute, TypeOK, CallInv
<1>2. CallInvariant => NoSilentRoute
  BY <1>1 DEF CallInvariant
<1> QED
  BY <1>2, CallHolds, PTL

\* Under a blocking policy a call on a judged test passes only where its working
\* copy was read and the call changes nothing, is not predicted or was compared
\* and weakens nothing, or where the code refuses to read the working copy
\* (_pre_tool_use, _pre_tool_unanalysed).
THEOREM BlockingPolicyAsks == CallSpec => []UnanalysedIsAsked
<1>1. CallInvariant => UnanalysedIsAsked
  BY DEF CallInvariant, JudgeInv, Control, KnownInv, AnswerInv, SilenceInv, MayPass, UnanalysedIsAsked
<1> QED
  BY <1>1, CallHolds, PTL

-----------------------------------------------------------------------------
(* Every call is answered.  The main thread goes through five stages, each *)
(* of which only a step of its own, or the end of the process, leaves.     *)

Waiting  == main \in {"input", "join"}
Answered == main = "answered"

Unstarted == main = "input" /\ pc = "start"
Listening == main = "input" /\ pc = "wait"
Woken     == main = "input" /\ pc = "join"
Handed    == main = "input" /\ pc = "end"
Judging   == main = "join"

\* The result is there when the reading has ended, and not before.
EndsWithResult == pc = "end" <=> result # "pending"

LiveInv == CallInvariant /\ EndsWithResult

LEMMA LiveStarts == CallInit => LiveInv
BY CallStarts DEF CallInit, NoInput, LiveInv, EndsWithResult

LEMMA LiveKeeps == LiveInv /\ [CallNext]_allVars => LiveInv'
<1> SUFFICES ASSUME LiveInv, [CallNext]_allVars PROVE EndsWithResult'
  BY CallKeeps DEF LiveInv
<1> USE DEF LiveInv, EndsWithResult
<1>1. CASE UNCHANGED inputVars
  BY <1>1 DEF inputVars, waiter
<1>2. CASE StartHook
  BY <1>2 DEF StartHook, waiter
<1>3. CASE ReadInput
  <2>1. CASE Start
    BY <2>1 DEF Start
  <2>2. CASE Wake
    BY <2>2 DEF Wake
  <2>3. CASE Join
    BY <2>3 DEF Join
  <2>4. CASE (\E n \in 1 .. MaxSize : Send(n) \/ Read(n)) \/ Close \/ ReaderEnds
    BY <2>4 DEF Send, Read, Close, ReaderEnds, waiter
  <2> QED
    BY <1>3, <2>1, <2>2, <2>3, <2>4 DEF ReadInput, InputNext
<1>4. CASE Forget
  BY <1>4 DEF Forget
<1> QED
  BY <1>1, <1>2, <1>3, <1>4 DEF CallNext, allVars, Elsewhere, Judge, TakeEvent, Die

LEMMA Stages == LiveInv => (Waiting <=> Unstarted \/ Listening \/ Woken \/ Handed \/ Judging)
BY DEF LiveInv, CallInvariant, InputInv, InputTypeOK, Waiting, Unstarted, Listening, Woken,
   Handed, Judging

\* What others do, the reader thread and the worker included, leaves the
\* stage as it is; the process may end at any of them.
LEMMA StageStays ==
    ASSUME LiveInv, Waiting, [CallNext]_allVars, ~MainGoesOn
    PROVE  (main' = main /\ pc' = pc) \/ Answered'
<1>1. CASE UNCHANGED allVars
  BY <1>1 DEF allVars, vars, inputVars, waiter
<1>2. CASE StartHook
  BY <1>2 DEF StartHook, CallTool, Waiting
<1>3. CASE ReadInput
  <2>1. (\E n \in 1 .. MaxSize : Send(n) \/ Read(n)) \/ Close \/ ReaderEnds
    BY <1>3 DEF ReadInput, InputNext, MainGoesOn
  <2> QED
    BY <1>3, <2>1 DEF ReadInput, Send, Read, Close, ReaderEnds, waiter, vars
<1>4. CASE Elsewhere
  BY <1>4 DEF Elsewhere, EditElsewhere, Commit, Switch, Unseen, inputVars, waiter
<1>5. CASE Judge
  BY <1>5 DEF Judge, MainGoesOn, Settle, Waiting, WorkerStep, Route, ReadPolicy, KnowPath,
     ReadDisk, Compare, Analyse, Raise, inputVars, waiter
<1>6. CASE Die
  BY <1>6 DEF Die, Vanish, Answered
<1> QED
  BY <1>1, <1>2, <1>3, <1>4, <1>5, <1>6 DEF CallNext, MainGoesOn

\* And a step of the main thread goes to a later one.
GoesOn ==
    /\ Unstarted => Listening' \/ Handed'
    /\ Listening => Woken'
    /\ Woken => Handed'
    /\ Handed => Judging'
    /\ Judging => Answered'

LEMMA StageEnds == ASSUME LiveInv, MainGoesOn PROVE GoesOn
<1> USE DEF LiveInv, EndsWithResult, GoesOn, Unstarted, Listening, Woken, Handed, Judging, Answered
<1>1. CASE TakeEvent
  BY <1>1 DEF TakeEvent, ReadEvent
<1>2. CASE Answer
  BY <1>2 DEF Answer
<1>3. CASE main = "input" /\ (Start \/ Wake \/ Join) /\ UNCHANGED vars
  BY <1>3 DEF Start, Wake, Join, vars
<1> QED
  BY <1>1, <1>2, <1>3 DEF MainGoesOn

LEMMA StagesInOrder ==
    LiveInv /\ [CallNext]_allVars =>
        /\ Unstarted => Unstarted' \/ GoesOn \/ Answered'
        /\ Listening => Listening' \/ GoesOn \/ Answered'
        /\ Woken => Woken' \/ GoesOn \/ Answered'
        /\ Handed => Handed' \/ GoesOn \/ Answered'
        /\ Judging => Judging' \/ GoesOn \/ Answered'
<1> SUFFICES ASSUME LiveInv, [CallNext]_allVars, Waiting, ~MainGoesOn
             PROVE  \/ Answered'
                    \/ /\ Unstarted => Unstarted'
                       /\ Listening => Listening'
                       /\ Woken => Woken'
                       /\ Handed => Handed'
                       /\ Judging => Judging'
  BY StageEnds, Stages
<1> QED
  BY StageStays DEF Unstarted, Listening, Woken, Handed, Judging

\* The hook answers every call, for every cap, input and worker, whatever the
\* sender, the reader thread and the worker do or leave undone
\* (_cmd_pre_tool_use's deadline).  That a waiting main thread can take a
\* step is the one fact about ENABLED it takes.
THEOREM EveryCallIsAnswered ==
    CallSpec /\ [](Waiting => ENABLED <<MainGoesOn>>_allVars) => EveryCallAnswered
<1>1. LiveInv /\ <<MainGoesOn>>_allVars => GoesOn
  BY StageEnds
<1>2. CallSpec /\ [](Waiting => ENABLED <<MainGoesOn>>_allVars) => (Waiting ~> Answered)
  BY LiveStarts, LiveKeeps, Stages, StagesInOrder, <1>1, PTL DEF CallSpec, GoesOn
<1> QED
  BY <1>2, PTL DEF EveryCallAnswered, Waiting, Answered

=============================================================================
