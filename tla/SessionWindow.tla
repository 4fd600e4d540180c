---------------------------- MODULE SessionWindow ----------------------------
(***************************************************************************)
(* The session base of the Claude Code Stop hook (checkwash/session.py and *)
(* cli._session_window, cli._cmd_check, cli._session_note).                *)
(*                                                                         *)
(* A SessionStart hook process records HEAD for its session, once, and     *)
(* prunes other sessions' records.  A Stop hook process reads the record   *)
(* back, takes the policy of its verdict from the merge base of the        *)
(* recorded commit and HEAD, and says so when it could not.  Both run      *)
(* beside other sessions that commit, switch branches and collect garbage  *)
(* in the same repository, and either may be killed between two steps.     *)
(***************************************************************************)
EXTENDS Naturals, FiniteSets

CONSTANTS
    Sessions,    \* Claude Code sessions, one session_id each
    Watched,     \* bound: the sessions whose Stop hook runs (Stop hooks write
                 \* nothing another session's Stop or start hook reads here)
    Starters,    \* SessionStart hook processes (a shared and a local handler
                 \* of one session start run side by side)
    User,        \* whoever else commits to the repository
    NoOne,       \* the empty file owner and the empty starter session
    MaxCommits,  \* bound: commits ever made
    AgeLimit,    \* RECORD_MAX_AGE_DAYS, in ticks
    MaxTime,     \* bound: the clock
    Flaky,       \* may a Git query fail although the repository is sound?
    SlowWorld    \* do ticks and garbage collection wait for running hooks?

ASSUME SessionAssumption ==
    /\ User \notin Sessions
    /\ Watched \subseteq Sessions
    /\ NoOne \notin Sessions \cup Starters
    /\ MaxCommits \in Nat \ {0}
    /\ AgeLimit \in Nat
    /\ MaxTime \in Nat
    /\ Flaky \in BOOLEAN
    /\ SlowWorld \in BOOLEAN

VARIABLES
    (* the repository *)
    made,        \* commits ever made
    hist,        \* commit -> the commits reachable from it, itself included
    author,      \* commit -> the session (or User) that made it
    gone,        \* commits whose objects were collected
    head,        \* HEAD
    now,         \* the wall clock
    (* .git/checkwash/sessions *)
    file,        \* session -> its record file
    (* Claude Code and the hook processes *)
    phase,       \* session -> "new", "starting" or "live"
    starter,     \* Starters -> the state of that SessionStart process
    stop,        \* session -> the state of its Stop hook process
    (* what is observed *)
    out          \* session -> what its last finished Stop hook said

repository == <<made, hist, author, gone, head>>
vars == <<made, hist, author, gone, head, now, file, phase, starter, stop, out>>

-----------------------------------------------------------------------------
Commits   == 1 .. MaxCommits
NoCommit  == 0
Authors   == Sessions \cup {User}
Sources   == {"startup", "resume", "compact"}

\* A record file: absent, created but not yet written, or a parsable record.
FileState == [kind : {"absent", "torn", "record"}, by : Starters \cup {NoOne},
              head : Commits \cup {NoCommit}, created : 0 .. MaxTime]
Absent        == [kind |-> "absent", by |-> NoOne, head |-> NoCommit, created |-> 0]
Torn(p)       == [kind |-> "torn", by |-> p, head |-> NoCommit, created |-> 0]
RecordExpiry(c, t) == [kind |-> "record", by |-> NoOne, head |-> c, created |-> t + AgeLimit + 1]
Record(c, t)  == [kind |-> "record", by |-> NoOne, head |-> c, created |-> t]

StarterState == [pc : {"idle", "input", "head", "create", "write", "list", "scan", "unlink"},
                 session : Sessions \cup {NoOne}, source : Sources,
                 head : Commits \cup {NoCommit}, now : 0 .. MaxTime,
                 entries : SUBSET Sessions, victim : Sessions \cup {NoOne}]
Resting == [pc |-> "idle", session |-> NoOne, source |-> "startup", head |-> NoCommit,
            now |-> 0, entries |-> {}, victim |-> NoOne]

\* "none": no hook input arrived.  "unreadable": it did not parse or carries
\* no session_id.  "ok": a session_id arrived.
Inputs == {"none", "unreadable", "ok"}
StopState == [pc : {"idle", "head", "record", "merge", "verdict", "session"},
              input : Inputs, head : Commits \cup {NoCommit},
              recorded : Commits \cup {NoCommit}, base : Commits \cup {NoCommit}]
NoStop == [pc |-> "idle", input |-> "none", head |-> NoCommit,
           recorded |-> NoCommit, base |-> NoCommit]

\* "silent" is the empty payload {}; "note" a systemMessage beside a pass;
\* "error" the message that the change was not analysed.
Outcome == [kind : {"nothing", "silent", "note", "block", "error"}, input : Inputs,
            policy : Commits \cup {NoCommit}, based : BOOLEAN,
            at : Commits \cup {NoCommit}, read : SUBSET Commits]
Nothing == [kind |-> "nothing", input |-> "none", policy |-> NoCommit, based |-> FALSE,
            at |-> NoCommit, read |-> {}]

TypeOK ==
    /\ made \in SUBSET Commits
    /\ hist \in [Commits -> SUBSET Commits]
    /\ author \in [Commits -> Authors]
    /\ gone \in SUBSET Commits
    /\ head \in Commits
    /\ now \in 0 .. MaxTime
    /\ file \in [Sessions -> FileState]
    /\ phase \in [Sessions -> {"new", "starting", "live"}]
    /\ starter \in [Starters -> StarterState]
    /\ stop \in [Sessions -> StopState]
    /\ out \in [Sessions -> Outcome]

Init ==
    /\ made = {1}
    /\ hist = [c \in Commits |-> IF c = 1 THEN {1} ELSE {}]
    /\ author = [c \in Commits |-> User]
    /\ gone = {}
    /\ head = 1
    /\ now = 0
    /\ file = [s \in Sessions |-> Absent]
    /\ phase = [s \in Sessions |-> "new"]
    /\ starter = [p \in Starters |-> Resting]
    /\ stop = [s \in Sessions |-> NoStop]
    /\ out = [s \in Sessions |-> Nothing]

-----------------------------------------------------------------------------
(* The repository's other users, and time.                                 *)

\* No session start or stop under way: those take seconds, a tick of the
\* clock and the expiry of an unreachable commit take weeks.
Quiet == /\ \A p \in Starters : starter[p].pc = "idle"
         /\ \A s \in Sessions : stop[s].pc = "idle" /\ phase[s] # "starting"

\* A commit on HEAD, a merge of another commit into it, or an orphan branch.
\* A session commits only once its start hooks are over.
Commit(a) ==
    /\ a \in Sessions => phase[a] = "live"
    /\ \E n \in Commits \ made :
         \E parents \in {{head}, {}} \cup {{head, m} : m \in made \ gone} :
            /\ \A m \in 1 .. n - 1 : m \in made
            /\ made' = made \cup {n}
            /\ hist' = [hist EXCEPT ![n] = {n} \cup UNION {hist[m] : m \in parents}]
            /\ author' = [author EXCEPT ![n] = a]
            /\ head' = n
    /\ UNCHANGED <<gone, now, file, phase, starter, stop, out>>

\* git switch, git reset, the first half of git commit --amend.
Checkout(c) ==
    /\ c \in made \ gone
    /\ c # head
    /\ head' = c
    /\ UNCHANGED <<made, hist, author, gone, now, file, phase, starter, stop, out>>

\* git gc drops a commit HEAD does not reach, and with it all that reach it.
Collect(c) ==
    /\ SlowWorld => Quiet
    /\ c \in made \ (gone \cup hist[head])
    /\ gone' = gone \cup {d \in made : c \in hist[d]}
    /\ UNCHANGED <<made, hist, author, head, now, file, phase, starter, stop, out>>

Tick ==
    /\ SlowWorld => Quiet
    /\ now < MaxTime
    /\ now' = now + 1
    /\ UNCHANGED <<repository, file, phase, starter, stop, out>>

\* _commit_exists: any GitError, a timeout included, reads as "no".
CommitExists(c) == {c \notin gone} \cup (IF Flaky THEN {FALSE} ELSE {})

-----------------------------------------------------------------------------
(* SessionStart: record_session_start and _prune.                          *)

Goto(p, pc) == starter' = [starter EXCEPT ![p].pc = pc]
Finish(p)   == starter' = [starter EXCEPT ![p] = Resting]

\* Claude Code runs the SessionStart hooks: "startup" once for a session_id,
\* "resume" and "compact" any time later.
Fire(p, s, source) ==
    /\ starter[p].pc = "idle"
    /\ IF source = "startup" THEN phase[s] \in {"new", "starting"} ELSE phase[s] = "live"
    /\ starter' = [starter EXCEPT ![p] = [Resting EXCEPT !.pc = "input", !.session = s,
                                                         !.source = source]]
    /\ phase' = [phase EXCEPT ![s] = IF source = "startup" THEN "starting" ELSE @]
    /\ UNCHANGED <<repository, now, file, stop, out>>

\* Claude Code waits for the start hooks, then the agent works.
Ready(s) ==
    /\ phase[s] = "starting"
    /\ \A p \in Starters : starter[p].session # s
    /\ phase' = [phase EXCEPT ![s] = "live"]
    /\ UNCHANGED <<repository, now, file, starter, stop, out>>

RecordsOnAny(source) == TRUE
RecordsOn(source)    == source \notin {"compact", "resume"}

\* The early return: no usable input, or a compaction or a resume.
ReadStartInput(p) ==
    /\ starter[p].pc = "input"
    /\ \/ RecordsOn(starter[p].source) /\ Goto(p, "head")
       \/ Finish(p)
    /\ UNCHANGED <<repository, now, file, phase, stop, out>>

ResolveStartHead(p) ==
    /\ starter[p].pc = "head"
    /\ \/ starter' = [starter EXCEPT ![p].pc = "create", ![p].head = head, ![p].now = now]
       \/ Flaky /\ Finish(p)
    /\ UNCHANGED <<repository, now, file, phase, stop, out>>

TruncatesAny(f) == f.kind # "torn"
Creates(f)      == f.kind = "absent"

\* os.open(O_CREAT | O_EXCL): an existing file, torn or not, is kept.
CreateRecord(p) ==
    LET s == starter[p].session IN
    /\ starter[p].pc = "create"
    /\ \/ /\ Creates(file[s])
          /\ file' = [file EXCEPT ![s] = Torn(p)]
          /\ Goto(p, "write")
       \/ /\ ~Creates(file[s])
          /\ Goto(p, "list")
          /\ UNCHANGED file
    /\ UNCHANGED <<repository, now, phase, stop, out>>

\* The payload goes to the file this process opened, which may be unlinked.
WriteRecord(p) ==
    LET s == starter[p].session IN
    /\ starter[p].pc = "write"
    /\ file' = [file EXCEPT ![s] = IF @ = Torn(p) THEN Record(starter[p].head, starter[p].now)
                                                  ELSE @]
    /\ Goto(p, "list")
    /\ UNCHANGED <<repository, now, phase, stop, out>>

\* _prune: list(os.scandir(...)); the starting session's own record is kept.
ListRecords(p) ==
    LET own == starter[p].session IN
    /\ starter[p].pc = "list"
    /\ starter' = [starter EXCEPT ![p].pc = "scan",
                     ![p].entries = {s \in Sessions \ {own} : file[s].kind # "absent"}]
    /\ UNCHANGED <<repository, now, file, phase, stop, out>>

AgedAtLimit(f, t) == t >= f.created + AgeLimit
Aged(f, t)        == t > f.created + AgeLimit

StaleIfTorn(f, t, exists) == f.kind = "torn" \/ (f.kind = "record" /\ (Aged(f, t) \/ ~exists))
\* A file that does not parse is left alone: it may still be being written.
Stale(f, t, exists) == f.kind = "record" /\ (Aged(f, t) \/ ~exists)

\* One entry of the listing is read, parsed and judged.
ScanRecord(p) ==
    /\ starter[p].pc = "scan"
    /\ \/ starter[p].entries = {} /\ Finish(p)
       \/ \E s \in starter[p].entries : \E exists \in CommitExists(file[s].head) :
            LET rest == starter[p].entries \ {s} IN
            \/ /\ Stale(file[s], starter[p].now, exists)
               /\ starter' = [starter EXCEPT ![p].pc = "unlink", ![p].victim = s,
                                             ![p].entries = rest]
            \/ /\ ~Stale(file[s], starter[p].now, exists)
               /\ starter' = [starter EXCEPT ![p].entries = rest]
    /\ UNCHANGED <<repository, now, file, phase, stop, out>>

UnlinkRecord(p) ==
    /\ starter[p].pc = "unlink"
    /\ file' = [file EXCEPT ![starter[p].victim] = Absent]
    /\ starter' = [starter EXCEPT ![p].pc = "scan", ![p].victim = NoOne]
    /\ UNCHANGED <<repository, now, phase, stop, out>>

\* Killed, out of time, or any exception: the process ends where it stands.
StarterDies(p) ==
    /\ starter[p].pc # "idle"
    /\ Finish(p)
    /\ UNCHANGED <<repository, now, file, phase, stop, out>>

-----------------------------------------------------------------------------
(* Stop: _cmd_check in hook-json mode, one process per session.            *)

StopGoto(s, pc) == stop' = [stop EXCEPT ![s].pc = pc]
PolicyOfHead(base, at) == at
PolicySide(base, at)   == IF base # NoCommit THEN base ELSE at
Say(s, kind, read, at) ==
    /\ stop' = [stop EXCEPT ![s] = NoStop]
    /\ out' = [out EXCEPT ![s] =
          [kind |-> kind, input |-> stop[s].input, based |-> stop[s].base # NoCommit,
           policy |-> PolicySide(stop[s].base, at), at |-> at, read |-> read]]

StopFires(s, input) ==
    /\ s \in Watched
    /\ phase[s] = "live"
    /\ stop[s].pc = "idle"
    /\ stop' = [stop EXCEPT ![s] = [NoStop EXCEPT !.input = input,
                   !.pc = IF input = "none" THEN "verdict" ELSE "head"]]
    /\ out' = [out EXCEPT ![s] = Nothing]
    /\ UNCHANGED <<repository, now, file, phase, starter>>

\* _session_window: HEAD first, then whether a record can be looked up at all.
ResolveWindowHead(s) ==
    /\ stop[s].pc = "head"
    /\ \/ /\ stop' = [stop EXCEPT ![s].head = head,
                        ![s].pc = IF stop[s].input = "ok" THEN "record" ELSE "verdict"]
          /\ UNCHANGED out
       \/ Flaky /\ Say(s, "error", {}, head)
    /\ UNCHANGED <<repository, now, file, phase, starter>>

\* session_base: a parsable record whose commit exists.
ReadRecord(s) ==
    /\ stop[s].pc = "record"
    /\ \E exists \in IF file[s].kind = "record" THEN CommitExists(file[s].head) ELSE {FALSE} :
         stop' = IF exists
                 THEN [stop EXCEPT ![s].pc = "merge", ![s].recorded = file[s].head]
                 ELSE [stop EXCEPT ![s].pc = "verdict"]
    /\ UNCHANGED <<repository, now, file, phase, starter, out>>

\* git merge-base: one of the best common ancestors.
MergeBases(a, b) ==
    LET common == {c \in made : c \in hist[a] \cap hist[b]}
    IN  {c \in common : \A d \in common \ {c} : c \notin hist[d]}

\* session_merge_base: no base when Git fails or the two share no history.
CompareWithHead(s) ==
    LET bases == MergeBases(stop[s].recorded, stop[s].head) IN
    /\ stop[s].pc = "merge"
    /\ \/ \E b \in bases :
            /\ {stop[s].recorded, stop[s].head} \cap gone = {}
            /\ stop' = [stop EXCEPT ![s].pc = "verdict", ![s].base = b]
       \/ /\ bases = {} \/ Flaky \/ {stop[s].recorded, stop[s].head} \cap gone # {}
          /\ StopGoto(s, "verdict")
    /\ UNCHANGED <<repository, now, file, phase, starter, out>>

AfterPassQuiet(w) == IF w.base \in {NoCommit, w.head} THEN "silent" ELSE "session"
\* On a pass: no input, no note; no base, a note; HEAD itself, nothing to add.
AfterPass(w) ==
    CASE w.input = "none"                                   -> "silent"
      [] w.input # "none" /\ w.base = NoCommit             -> "note"
      [] w.input # "none" /\ w.base \in {w.head} \ {NoCommit} -> "silent"
      [] OTHER                                             -> "session"

\* list_worktree_changes and _analyse: HEAD must still be the window's, and
\* policy is read from the base, or from HEAD where there is none.
Verdict(s) ==
    LET at == IF stop[s].input = "none" THEN head ELSE stop[s].head IN
    /\ stop[s].pc = "verdict"
    /\ \/ Say(s, "error", {}, at)
       \/ at = head /\ Say(s, "block", {}, at)
       \/ /\ at = head
          /\ AfterPass(stop[s]) # "session"
          /\ Say(s, AfterPass(stop[s]), {}, at)
       \/ /\ at = head
          /\ AfterPass(stop[s]) = "session"
          /\ StopGoto(s, "session")
          /\ UNCHANGED out
    /\ UNCHANGED <<repository, now, file, phase, starter>>

\* _session_note: the base against the working tree of the HEAD of this moment.
AnalyseSessionCommits(s) ==
    /\ stop[s].pc = "session"
    /\ \/ Say(s, "note", {}, head)
       \/ Say(s, "silent", hist[head] \ hist[stop[s].base], head)
    /\ UNCHANGED <<repository, now, file, phase, starter>>

\* Claude Code's hook timeout, or a kill: no output.
StopDies(s) ==
    /\ stop[s].pc # "idle"
    /\ stop' = [stop EXCEPT ![s] = NoStop]
    /\ UNCHANGED <<repository, now, file, phase, starter, out>>

-----------------------------------------------------------------------------
StarterStep(p) ==
    \/ \E s \in Sessions, source \in Sources : Fire(p, s, source)
    \/ ReadStartInput(p)
    \/ ResolveStartHead(p)
    \/ CreateRecord(p)
    \/ WriteRecord(p)
    \/ ListRecords(p)
    \/ ScanRecord(p)
    \/ UnlinkRecord(p)
    \/ StarterDies(p)

StopStep(s) ==
    \/ \E input \in Inputs : StopFires(s, input)
    \/ ResolveWindowHead(s)
    \/ ReadRecord(s)
    \/ CompareWithHead(s)
    \/ Verdict(s)
    \/ AnalyseSessionCommits(s)
    \/ StopDies(s)

WorldStep ==
    \/ \E a \in Authors : Commit(a)
    \/ \E c \in Commits : Checkout(c) \/ Collect(c)
    \/ Tick
    \/ \E s \in Sessions : Ready(s)

Next ==
    \/ WorldStep
    \/ \E p \in Starters : StarterStep(p)
    \/ \E s \in Sessions : StopStep(s)

Spec == Init /\ [][Next]_vars

-----------------------------------------------------------------------------
(* Properties.                                                             *)

Own(s) == {c \in made : author[c] = s}

\* Policy that a session commits governs only later sessions: whenever a Stop
\* found a base, the history of the commit its policy came from holds none of
\* the session's own commits.  (cli._cmd_check, config_side.)
PolicyPredatesSession ==
    \A s \in Sessions : out[s].based => hist[out[s].policy] \cap Own(s) = {}

\* When hook input arrived and the Stop answered with a bare pass, every commit
\* the session made and HEAD holds was analysed: no note means nothing of the
\* session's was left out.  (cli._session_note and its early returns.)
SilenceMeansAnalysed ==
    \A s \in Sessions :
        out[s].kind = "silent" /\ out[s].input # "none"
            => (Own(s) \cap hist[out[s].at]) \subseteq out[s].read

\* A bare pass never rests on policy the session wrote itself: without a
\* usable record HEAD's policy is used, and the user is told.
SilenceIsNotSelfGoverned ==
    \A s \in Sessions :
        out[s].kind = "silent" /\ out[s].input # "none"
            => hist[out[s].policy] \cap Own(s) = {}

\* An existing record is never replaced: it stays as written until it is
\* unlinked.  (record_session_start's docstring.)
RecordNeverReplaced ==
    [][\A s \in Sessions :
          file[s].kind = "record" => file'[s] \in {file[s], Absent}]_vars

\* No prune takes the file away under a start hook that is still writing it.
\* (_prune: "it may be one another session is still writing".)
WriterKeepsItsFile ==
    \A p \in Starters :
        starter[p].pc = "write" => file[starter[p].session] = Torn(p)

\* A record leaves only as another session's start prunes it: older than the
\* limit, or naming a commit that is gone.  (_prune's docstring, SPEC section 9.)
OnlyStaleRecordsPruned ==
    [][\A s \in Sessions :
          file[s].kind = "record" /\ file'[s] = Absent
              => now > file[s].created + AgeLimit \/ file[s].head \in gone]_vars

=============================================================================
