------------------------------ MODULE PreToolUse ------------------------------
(***************************************************************************)
(* The PreToolUse hook (cli._cmd_pre_tool_use, cli._pre_tool_use and       *)
(* pretool.py): before an Edit or Write reaches one judged Python test, a  *)
(* worker thread predicts what the call leaves, compares it with what is   *)
(* there and lets the call pass or asks the user; the main thread waits    *)
(* for it until a deadline and answers for it after that.                  *)
(*                                                                         *)
(* Tool calls follow each other, the user approves or denies, and other    *)
(* processes edit, commit and switch branches at any moment.               *)
(***************************************************************************)
EXTENDS Naturals

CONSTANTS
    Strengths,   \* how much a test file checks: 0 .. k
    OnError,     \* the base policy's on_engine_error
    Faulty       \* may a step raise, the input not arrive, the hook be killed?

ASSUME PreToolAssumption ==
    /\ Strengths \subseteq Nat
    /\ 0 \in Strengths
    /\ OnError \in {"block", "pass_with_warning"}
    /\ Faulty \in BOOLEAN

VARIABLES
    disk,        \* the test file in the working tree
    headCopy,    \* and in HEAD
    floor,       \* what a route of silent calls has to keep (ghost)
    after,       \* what the call under way would leave, or Fails
    main,        \* "idle", "input", "join" or "answered"
    answer,      \* what the hook answered
    event,       \* did the hook input arrive as one JSON object?
    worker,      \* the step the worker thread is at
    config, rel, \* state["config"] and state["rel"]
    window,      \* HEAD's copy as of the session window
    before,      \* the before side
    payload,     \* state["payload"]
    seen         \* what the worker saw of the working copy: "nothing", that it
                 \* cannot be read, the "copy", or it "compared" (ghost)

file  == <<disk, headCopy, floor>>
state == <<config, rel, payload>>
vars  == <<file, after, main, answer, event, worker, state, window, before, seen>>

-----------------------------------------------------------------------------
\* A copy of the file: gone, parsable with some strength, unparsable, or over
\* the source byte limit.
Absent  == [form |-> "absent", checks |-> 0]
Broken  == [form |-> "broken", checks |-> 0]
Big     == [form |-> "big", checks |-> 0]
Text(k) == [form |-> "text", checks |-> k]
Copies  == {Absent, Broken, Big} \cup {Text(k) : k \in Strengths}
Fails   == [form |-> "fails", checks |-> 0]

Answers == {"none", "silent", "note", "ask", "gone"}

TypeOK ==
    /\ disk \in Copies
    /\ headCopy \in Copies
    /\ floor \in Strengths
    /\ after \in Copies \cup {Fails}
    /\ main \in {"idle", "input", "join", "answered"}
    /\ answer \in Answers
    /\ event \in BOOLEAN
    /\ worker \in {"off", "route", "policy", "rel", "read", "compare", "analyse", "ended"}
    /\ config \in BOOLEAN
    /\ rel \in BOOLEAN
    /\ window \in Copies
    /\ before \in Copies
    /\ payload \in Answers
    /\ seen \in {"nothing", "refused", "copy", "compared"}

\* What there is to keep: the working copy's checks, or HEAD's where the
\* working copy has none to compare.
Floor(copy, committed) ==
    CASE copy.form = "text"   -> copy.checks
      [] copy.form = "broken" -> committed.checks
      [] OTHER                -> 0

Init ==
    /\ disk \in Copies
    /\ headCopy \in Copies
    /\ floor = Floor(disk, headCopy)
    /\ after = Fails
    /\ main = "idle"
    /\ answer = "none"
    /\ event = FALSE
    /\ worker = "off"
    /\ config = FALSE
    /\ rel = FALSE
    /\ window = Absent
    /\ before = Absent
    /\ payload = "none"
    /\ seen = "nothing"

-----------------------------------------------------------------------------
(* Everybody else.                                                         *)

Lower(a, b) == IF a < b THEN a ELSE b

\* HEAD's copy as the call under way has it.
Held(committed) == IF worker \in {"off", "route"} THEN committed ELSE window

\* A change no hook sees, Bash included.  During a call what it had to keep
\* can only be lowered, for the call answers for what it read: the working
\* copy and HEAD are read one after the other.
Unseen(copy, committed) ==
    /\ disk' = copy
    /\ headCopy' = committed
    /\ floor' = IF main = "idle" THEN Floor(copy, committed)
                ELSE Lower(floor, Lower(Floor(copy, committed), Floor(copy, Held(committed))))
    /\ UNCHANGED <<after, main, answer, event, worker, state, window, before, seen>>

EditElsewhere == \E copy \in Copies : Unseen(copy, headCopy)
Commit        == disk # Absent /\ Unseen(disk, disk)
Switch        == \E copy \in Copies : Unseen(copy, copy)

\* Claude Code is about to run an Edit or a Write; one that does not apply
\* (no match, or an ambiguous one) fails by itself.
CallTool ==
    /\ main = "idle"
    /\ main' = "input"
    /\ after' \in (Copies \ {Absent}) \cup {Fails}
    /\ UNCHANGED <<file, answer, event, worker, state, window, before, seen>>

\* The worker had the working copy before it: it judged the call.
Judged == seen \in {"copy", "compared"}

\* An ask waits for the user, everything else runs.  A call that was judged
\* and passed carries the floor on; the user saw the others, or nothing said
\* that it is a test the policy covers.
Settle ==
    /\ main = "answered"
    /\ \/ /\ answer \in {"silent", "note", "gone", "ask"}
          /\ after # Fails
          /\ disk' = after
          /\ floor' = IF answer = "silent" /\ Judged THEN floor ELSE Floor(after, headCopy)
       \/ /\ answer \in {"ask"} \/ after = Fails
          /\ UNCHANGED <<disk, floor>>
    /\ main' = "idle"
    /\ answer' = "none"
    /\ after' = Fails
    /\ event' = FALSE
    /\ worker' = "off"
    /\ config' = FALSE
    /\ rel' = FALSE
    /\ payload' = "none"
    /\ window' = Absent
    /\ before' = Absent
    /\ seen' = "nothing"
    /\ UNCHANGED headCopy

-----------------------------------------------------------------------------
(* The main thread: _cmd_pre_tool_use.                                     *)

ReadEvent ==
    /\ main = "input"
    /\ main' = "join"
    /\ event' \in IF Faulty THEN BOOLEAN ELSE {TRUE}
    /\ worker' = "route"
    /\ UNCHANGED <<file, after, answer, state, window, before, seen>>

UnanalysedPasses(known) == "silent"
\* _pre_tool_unanalysed: nothing is known of the file, or the policy decides.
Unanalysed(known) ==
    CASE ~known                       -> "silent"
      [] known /\ OnError = "block"   -> "ask"
      [] OTHER                        -> "note"

\* join(DEADLINE_SECONDS), then is_alive: a worker that ends just then may
\* still be alive.  _exit takes it away.
Answer ==
    /\ main = "join"
    /\ \/ worker = "ended" /\ answer' = payload
       \/ answer' = Unanalysed(config /\ rel)
    /\ main' = "answered"
    /\ worker' = "off"
    /\ UNCHANGED <<file, after, event, state, window, before, seen>>

\* Claude Code's own timeout, a kill, or a stdout that cannot be written.
Vanish ==
    /\ Faulty
    /\ main \in {"input", "join"}
    /\ main' = "answered"
    /\ answer' = "gone"
    /\ worker' = "off"
    /\ UNCHANGED <<file, after, event, state, window, before, seen>>

-----------------------------------------------------------------------------
(* The worker thread: _pre_tool_use.                                       *)

Return(said) == worker' = "ended" /\ payload' = said

Failing == {"route", "policy", "rel", "read", "compare", "analyse"}

RaiseUnsaid ==
    /\ Faulty
    /\ worker \in Failing
    /\ Return("silent")
    /\ UNCHANGED <<file, after, main, answer, event, config, rel, window, before, seen>>

\* An exception of any step is an answer of the policy's.
Raise ==
    /\ Faulty
    /\ worker \in Failing
    /\ Return(Unanalysed(config /\ rel))
    /\ UNCHANGED <<file, after, main, answer, event, config, rel, window, before, seen>>

\* No tool call of ours, not a repository, not a path of it; or the window.
Route ==
    /\ worker = "route"
    /\ \/ /\ ~event \/ Faulty
          /\ Return("silent")
          /\ UNCHANGED window
       \/ /\ event
          /\ window' = headCopy
          /\ worker' = "policy"
          /\ UNCHANGED payload
    /\ UNCHANGED <<file, after, main, answer, event, config, rel, before, seen>>

ReadPolicy ==
    /\ worker = "policy"
    /\ worker' = "rel"
    /\ config' = TRUE
    /\ UNCHANGED <<file, after, main, answer, event, rel, payload, window, before, seen>>

\* The second store of `state["config"], state["rel"] = config, rel`.
KnowPath ==
    /\ worker = "rel"
    /\ worker' = "read"
    /\ rel' = TRUE
    /\ UNCHANGED <<file, after, main, answer, event, config, payload, window, before, seen>>

AsksNone(old, new)     == FALSE
AsksOversize(old, new) == old.form = "big" \/ (new.form = "big" /\ new # old)
Predicted(old, new)    == new # Fails /\ new # old

\* The working copy, and what proposed_bytes makes of it.  A link or a
\* directory there is an EngineError: the call passes, unread.
ReadDisk ==
    /\ worker = "read"
    /\ \/ Faulty /\ Return("silent") /\ seen' = "refused" /\ UNCHANGED before
       \/ /\ before' = disk
          /\ seen' = "copy"
          /\ \/ AsksOversize(disk, after) /\ Return("ask")
             \/ ~AsksOversize(disk, after) /\ ~Predicted(disk, after) /\ Return("silent")
             \/ /\ ~AsksOversize(disk, after)
                /\ Predicted(disk, after)
                /\ worker' = "compare"
                /\ UNCHANGED payload
    /\ UNCHANGED <<file, after, main, answer, event, config, rel, window>>

BeforeOnDisk(old, committed) == old
\* An unparsable working copy has no units: HEAD's stands in if it parses.
BeforeSide(old, committed) ==
    IF old.form = "broken" /\ committed.form = "text" THEN committed ELSE old

Compare ==
    /\ worker = "compare"
    /\ \/ /\ before.form = "broken" /\ window.form = "big"
          /\ Return(Unanalysed(config /\ rel))
          /\ UNCHANGED before
       \/ /\ ~(before.form = "broken" /\ window.form = "big")
          /\ before' = BeforeSide(before, window)
          /\ worker' = "analyse"
          /\ UNCHANGED payload
    /\ UNCHANGED <<file, after, main, answer, event, config, rel, window, seen>>

\* WEAKENING_RULES at high or above: a test that checks less, or is gone.
Weakens(old, new) == old.form = "text" /\ new.checks < old.checks

Analyse ==
    /\ worker = "analyse"
    /\ Return(IF Weakens(before, after) THEN "ask" ELSE "silent")
    /\ seen' = "compared"
    /\ UNCHANGED <<file, after, main, answer, event, config, rel, window, before>>

-----------------------------------------------------------------------------
MainStep   == ReadEvent \/ Answer
WorkerStep == Route \/ ReadPolicy \/ KnowPath \/ ReadDisk \/ Compare \/ Analyse \/ Raise
Next ==
    \/ EditElsewhere \/ Commit \/ Switch
    \/ CallTool \/ Settle
    \/ MainStep \/ Vanish
    \/ WorkerStep

Spec == Init /\ [][Next]_vars

-----------------------------------------------------------------------------
\* No route of calls that pass silently ends with a file that checks less: not
\* by breaking its syntax and mending it weaker, nor by padding it over the
\* byte limit and cutting the padding away.  (pretool.oversized: "the padding
\* route"; _pre_tool_use: "a weakening finished in this edit would pass
\* silently".)
NoSilentRoute == disk.form = "text" => disk.checks >= floor

\* Under on_engine_error = "block" a call on a judged test is let pass only in
\* silence, and only if the working copy was read and the call leaves it as it is
\* or cannot be predicted, or if the two were compared and nothing is weakened;
\* whichever thread answers, and whatever raised or took too long.  The one
\* exception is a working copy the code refuses to read: a directory, a link, a
\* path leaving the repository.  Before the policy is known, and the file not
\* looked at, nothing is promised.
\* (SPEC section 9: "An engine error once the path is judged a test, other than
\* the working-tree read refusal above".)
UnanalysedIsAsked ==
    (/\ OnError = "block" /\ main = "answered" /\ answer \in {"silent", "note"}
     /\ (config /\ rel) \/ seen # "nothing")
    => /\ answer = "silent"
       /\ \/ seen = "refused"
          \/ seen = "copy" /\ ~Predicted(before, after)
          \/ seen = "compared" /\ ~Weakens(before, after)

\* The hook answers every call, though its worker hang for ever.
\* (_cmd_pre_tool_use: "Past DEADLINE_SECONDS the edit is left unanalysed".)
EveryCallAnswered == main \in {"input", "join"} ~> main = "answered"

=============================================================================
