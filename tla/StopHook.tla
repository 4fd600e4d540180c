------------------------------ MODULE StopHook ------------------------------
(***************************************************************************)
(* Blocking and releasing a stop (cli._cmd_check in hook-json mode with    *)
(* session.py's .stop record), for one Claude Code session.                *)
(*                                                                         *)
(* At every stop each installed handler runs as a process of its own: it   *)
(* reads its input, analyses the working tree, and blocks, releases,       *)
(* passes or says that nothing was analysed.  The handlers of a session    *)
(* share one record of the set last blocked on.  Other stop hooks, edits   *)
(* made while the handlers run, kills, engine errors and another session's *)
(* prune interleave with them.                                             *)
(***************************************************************************)
EXTENDS Naturals

CONSTANTS
    Findings,     \* fingerprints
    Handlers,     \* the managed Stop handlers installed (local, shared)
    Sees,         \* handler -> the findings its checkwash version reports
    Others,       \* may a stop hook that is not checkwash's block?
    KillPoints,   \* the steps before which a handler may be killed
    Faulty,       \* may input not arrive and may the analysis fail?
    RecordFails,  \* may record_stop and clear_stop fail (they never raise)?
    Pruning,      \* may another session's start prune the record?
    Oversize,     \* may a changed file exceed the source byte limit?
    MaxEdits      \* bound: edits of the working tree

Steps == {"input", "analyse", "decide", "record", "clear", "emit"}

ASSUME StopAssumption ==
    /\ Sees \in [Handlers -> SUBSET Findings]
    /\ {Others, Faulty, RecordFails, Pruning, Oversize} \subseteq BOOLEAN
    /\ KillPoints \subseteq Steps
    /\ MaxEdits \in Nat

VARIABLES
    (* Claude Code *)
    turn,        \* "working", "stopping" or "stopped"
    active,      \* stop_hook_active of the next stop
    told,        \* the blocking sets Claude was told of
    released,    \* the blocking sets released at the latest stop
    ours,        \* was the latest continuation caused by a checkwash block?
    (* the working tree *)
    tree,        \* the findings of the change, and whether a file is too big
    edits,
    (* <sha256(session_id)>.stop *)
    rec,         \* the set last blocked on, {} where there is no record
    aged,        \* is it older than 30 days?
    doomed,      \* has a prune seen it aged and not yet unlinked it?
    (* the handler processes *)
    pc, input, got, say

claude == <<turn, active, told, released, ours>>
disk   == <<rec, aged, doomed>>
vars   == <<claude, tree, edits, disk, pc, input, got, say>>

-----------------------------------------------------------------------------
BlockingSets == (SUBSET Findings) \ {{}}
Inputs  == {"none", "plain", "active"}
Says    == [kind : {"nothing", "block", "oversize", "release"}, set : SUBSET Findings]
Nothing == [kind |-> "nothing", set |-> {}]

TypeOK ==
    /\ turn \in {"working", "stopping", "stopped"}
    /\ active \in BOOLEAN
    /\ told \in SUBSET BlockingSets
    /\ released \in SUBSET BlockingSets
    /\ ours \in BOOLEAN
    /\ tree \in [set : SUBSET Findings, big : BOOLEAN]
    /\ edits \in 0 .. MaxEdits
    /\ rec \in SUBSET Findings
    /\ aged \in BOOLEAN
    /\ doomed \in BOOLEAN
    /\ pc \in [Handlers -> Steps \cup {"idle", "done"}]
    /\ input \in [Handlers -> Inputs]
    /\ got \in [Handlers -> SUBSET Findings]
    /\ say \in [Handlers -> Says]

Init ==
    /\ turn = "working"
    /\ active = FALSE
    /\ told = {}
    /\ released = {}
    /\ ours = FALSE
    /\ tree = [set |-> {}, big |-> FALSE]
    /\ edits = 0
    /\ rec = {}
    /\ aged = FALSE
    /\ doomed = FALSE
    /\ pc = [h \in Handlers |-> "idle"]
    /\ input = [h \in Handlers |-> "none"]
    /\ got = [h \in Handlers |-> {}]
    /\ say = [h \in Handlers |-> Nothing]

-----------------------------------------------------------------------------
(* Claude Code, its user and the other sessions.                           *)

\* Claude, the user or a background process edits the working tree.
Edit ==
    /\ edits < MaxEdits
    /\ edits' = edits + 1
    /\ \E set \in SUBSET Findings, big \in BOOLEAN :
         /\ big => Oversize
         /\ tree' = [set |-> set, big |-> big]
    /\ UNCHANGED <<claude, disk, pc, input, got, say>>

TryToStop ==
    /\ turn = "working"
    /\ turn' = "stopping"
    /\ pc' = [h \in Handlers |-> "input"]
    /\ UNCHANGED <<active, told, released, ours, tree, edits, disk, input, got, say>>

SetsSaid(kind) == {say[h].set : h \in {g \in Handlers : say[g].kind = kind}}

\* Every handler has answered or is gone: any block makes Claude continue.
Settle ==
    /\ turn = "stopping"
    /\ \A h \in Handlers : pc[h] = "done"
    /\ \E other \in {FALSE, Others} :
         LET held == \E h \in Handlers : say[h].kind \in {"block", "oversize"} IN
         /\ turn' = IF held \/ other THEN "working" ELSE "stopped"
         /\ active' = (active \/ held \/ other)
         /\ ours' = held
    /\ told' = told \cup SetsSaid("block")
    /\ released' = SetsSaid("release")
    /\ pc' = [h \in Handlers |-> "idle"]
    /\ input' = [h \in Handlers |-> "none"]
    /\ got' = [h \in Handlers |-> {}]
    /\ say' = [h \in Handlers |-> Nothing]
    /\ UNCHANGED <<tree, edits, disk>>

Prompt ==
    /\ turn = "stopped"
    /\ turn' = "working"
    /\ active' = FALSE
    /\ ours' = FALSE
    /\ UNCHANGED <<told, released, tree, edits, disk, pc, input, got, say>>

\* Thirty days pass over the record, in a session that waits for its user.
Age ==
    /\ Pruning
    /\ turn = "stopped"
    /\ rec # {}
    /\ ~aged
    /\ aged' = TRUE
    /\ UNCHANGED <<claude, tree, edits, rec, doomed, pc, input, got, say>>

\* _prune of another session's start: stat, then unlink by name.
PruneStat ==
    /\ Pruning
    /\ rec # {}
    /\ aged
    /\ ~doomed
    /\ doomed' = TRUE
    /\ UNCHANGED <<claude, tree, edits, rec, aged, pc, input, got, say>>

PruneUnlink ==
    /\ doomed
    /\ doomed' = FALSE
    /\ rec' = {}
    /\ aged' = FALSE
    /\ UNCHANGED <<claude, tree, edits, pc, input, got, say>>

-----------------------------------------------------------------------------
(* One handler: check --format hook-json --hook-input stdin.               *)

At(h, step) == pc[h] = step
Goto(h, step) == pc' = [pc EXCEPT ![h] = step]
Answer(h, kind, set) ==
    /\ Goto(h, "done")
    /\ say' = [say EXCEPT ![h] = [kind |-> kind, set |-> set]]

\* read_hook_input: "none" for no input, none that parses, or no session_id.
ReadInput(h) ==
    /\ At(h, "input")
    /\ Goto(h, "analyse")
    /\ \/ input' = [input EXCEPT ![h] = IF active THEN "active" ELSE "plain"]
       \/ Faulty /\ input' = [input EXCEPT ![h] = "none"]
    /\ UNCHANGED <<claude, tree, edits, disk, got, say>>

DecidesAlways(found) == "decide"
AfterVerdict(found)  == IF found = {} THEN "clear" ELSE "decide"

\* _analyse: the verdict blocks where a finding is left.  An engine error
\* says so without a decision; an oversized side blocks on every stop.
Analyse(h) ==
    LET found == tree.set \cap Sees[h] IN
    /\ At(h, "analyse")
    /\ \/ /\ tree.big
          /\ Answer(h, "oversize", {})
          /\ UNCHANGED got
       \/ /\ ~tree.big
          /\ got' = [got EXCEPT ![h] = found]
          /\ Goto(h, AfterVerdict(found))
          /\ UNCHANGED say
       \/ /\ Faulty
          /\ Answer(h, "nothing", {})
          /\ UNCHANGED got
    /\ UNCHANGED <<claude, tree, edits, disk, input>>

ReleasesNone(h)     == FALSE
ReleasesAnySet(h)   == input[h] = "active" /\ rec # {}
ReleasesAnyTurn(h)  == rec = got[h]
\* stop_hook_active and the very set this session was last blocked on.
Releases(h)         == input[h] = "active" /\ rec = got[h]

Decide(h) ==
    /\ At(h, "decide")
    /\ \/ Releases(h) /\ Answer(h, "release", got[h])
       \/ /\ ~Releases(h)
          /\ Goto(h, "record")
          /\ UNCHANGED say
    /\ UNCHANGED <<claude, tree, edits, disk, input, got>>

\* record_stop: written aside and renamed over; nothing without a session_id.
RecordBlock(h) ==
    /\ At(h, "record")
    /\ Goto(h, "emit")
    /\ \/ /\ input[h] # "none"
          /\ rec' = got[h]
          /\ aged' = FALSE
       \/ /\ input[h] = "none" \/ RecordFails
          /\ UNCHANGED <<rec, aged>>
    /\ UNCHANGED <<claude, tree, edits, doomed, input, got, say>>

\* _write_machine: only now can Claude read the reason.
EmitBlock(h) ==
    /\ At(h, "emit")
    /\ Answer(h, "block", got[h])
    /\ UNCHANGED <<claude, tree, edits, disk, input, got>>

\* clear_stop on a pass.
ClearOnPass(h) ==
    /\ At(h, "clear")
    /\ Answer(h, "nothing", {})
    /\ \/ /\ input[h] # "none"
          /\ rec' = {}
          /\ aged' = FALSE
       \/ /\ input[h] = "none" \/ RecordFails
          /\ UNCHANGED <<rec, aged>>
    /\ UNCHANGED <<claude, tree, edits, doomed, input, got>>

\* Claude Code's timeout, a kill, or output that cannot be written.
Kill(h) ==
    /\ pc[h] \in KillPoints
    /\ Answer(h, "nothing", {})
    /\ UNCHANGED <<claude, tree, edits, disk, input, got>>

-----------------------------------------------------------------------------
HandlerStep(h) ==
    \/ ReadInput(h)
    \/ Analyse(h)
    \/ Decide(h)
    \/ RecordBlock(h)
    \/ EmitBlock(h)
    \/ ClearOnPass(h)

Next ==
    \/ Edit
    \/ TryToStop
    \/ Settle
    \/ Prompt
    \/ Age
    \/ PruneStat
    \/ PruneUnlink
    \/ \E h \in Handlers : HandlerStep(h) \/ Kill(h)

Spec == Init /\ [][Next]_vars

\* Handlers run, Claude Code collects their answers, Claude ends its turns.
Fairness == /\ \A h \in Handlers : WF_vars(HandlerStep(h))
            /\ WF_vars(Settle)
            /\ WF_vars(TryToStop)

FairSpec == Spec /\ Fairness

-----------------------------------------------------------------------------
(* Properties.                                                             *)

\* The promise of the released message, "Claude was told once": with the
\* handlers' steps and crashes put aside, this is StopContract.
Contract == INSTANCE StopContract
    WITH turn <- turn, active <- active, told <- told, released <- released
KeepsContract == Contract!ContractSpec

\* A set is released only when Claude was told of it, at an earlier stop or
\* by another handler at this one.  (_released_message: "Claude was told
\* once to fix the production code or report it to you".)
ReleasedWasTold == released \subseteq told

\* What may go wrong at a stop and make Claude continue once more.
InputLost    == \E h \in Handlers : pc[h] = "input" /\ pc'[h] = "analyse" /\ input'[h] = "none"
RecordLost   == \E h \in Handlers : pc[h] = "record" /\ pc'[h] = "emit" /\ rec' # got[h]
OthersBlock  == turn = "stopping" /\ turn' = "working" /\ ~ours'

\* Blocking never presses Claude for ever: where inputs arrive, blocks are
\* recorded and other hooks let go from some point on, every stop attempt leads
\* to a stop that is let go, unless a file stays over the size limit; killed
\* handlers and failed analyses do not change that.
\* (D-189: "Blocking the same set again told Claude nothing new".)
StopsInTheEnd ==
    <>[][~(InputLost \/ RecordLost \/ OthersBlock)]_vars
        => (turn = "stopping" ~> (turn = "stopped" \/ tree.big))

=============================================================================
