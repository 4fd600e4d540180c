# A TLA+ verification of checkwash

checkwash reads a Git change, finds tests that were weakened in it, and blocks
the change when a finding is severe enough.  Most of its code is sequential
analysis of two versions of a file.  Around that stands a protocol: the Claude
Code hooks (SessionStart, Stop, PreToolUse) are short processes, started by
somebody else, killed when they take too long, running beside other sessions of
the same repository, and keeping records under `.git/checkwash`.  And behind
the analysis stands a ledger: deleted assertions are excused by assertions that
arrived elsewhere, and every arrival may pay once.  Before it, changes are
collected from a working tree that others go on changing; above it, the policy
that judges a change is itself a file that changes may touch.  These four are
the core of this project, with the one matching algorithm every finding starts
from: which assertion of a changed test is which.  Paths below are relative to `src/src/checkwash/` unless they
start with `src/`.

## 1. Inventory

### Components

| component | state it keeps | operations | modelled by |
| --- | --- | --- | --- |
| session records (`session.py`, `cli._session_window`, `_session_note`) | one file per session: commit, creation time | record at SessionStart, prune, read back at Stop | `SessionWindow` |
| Stop hook (`cli._cmd_check` with `--format hook-json`) | `<sha256(session_id)>.stop`: the set last blocked on | analyse, block, release, record, clear | `StopHook`, `StopContract` |
| hook input (`session.read_hook_input`) | bytes read so far, a reader thread | read to a cap, wait, join | `HookInput`, `PreToolCall` |
| PreToolUse hook (`cli._cmd_pre_tool_use`, `pretool.py`) | a dict shared by a worker and the main thread | predict an edit, compare, ask; answer at the deadline | `PreToolUse`, `PreToolCall` |
| hook installer (`hooks.py`, `cli._cmd_hook_install`) | `.claude/settings.json`, `.claude/settings.local.json`, temporary files | load, probe, merge, recheck, replace | `HookSettings`, `HookInstall` |
| severity gates (`gating.apply_gates`, `oracle_credit`) | the credit ledger, marks on findings | exempt, escalate, spend credits, hold, freeze, verdict | `Gates` |
| change collection (`gitio/git.py`) | none; reads HEAD, status and files one after the other | worktree and session changes, rename pairing | `WorktreeChanges`, `ChangeReport` |
| exemptions (`allowlist.py`, `cli._cmd_allow`) | append-only `allow.toml` | allow, expire, apply from the base side | `PolicyReview` |
| policy and contract (`config.py`, `policy_shadow.py`, `contract.py`) | `config.toml` of either directory | read from the base side; judge a change of it | `PolicyReview`, without the task contract |
| check command (`cli.main`, `_cmd_check`) | none | exit code by verdict, error and unread side | verdict and ledger errors in `PolicyReview`, the hook mode in `StopHook` |
| source snapshots (`gitio/snapshot.py`, `gitio/pytest_configs.py`) | caches and byte budgets of one side | read, search | planned |
| unit alignment (`ir/diffalign.py`, `ir/subjects.py`) | none | match the units of two sides, and the assertions of two units | the assertions in `Alignment` |
| pipeline (`engine.py`, `roles.py`, `evidence.py`) | none beyond one run | build the IR, run detectors and gates | only the opening of the ledger |
| relocation proofs (`oracle_*credit.py`) | none | prove that a test is the same test elsewhere | outcome is an input of `Gates` |
| detectors, the Python and JavaScript frontends | none | one pass over a syntax tree | no |
| collection, import shadowing, CI scan, doctor, sweep, bench, quality, action, tools | none | see section 8 | no |

### How they interact

* Claude Code starts the hook processes and waits for them.  A SessionStart
  process writes the session's record; a Stop process of the same session reads
  it to find the policy it must judge by; a start of another session prunes it.
* The `.stop` record connects the Stop processes of one session with each other,
  across stops and across handlers (a local and a shared one).
* The PreToolUse worker reads the session record's window for its policy, the
  working tree and HEAD; the two threads of the process share `state`.
* The installer decides which handlers exist at all, in a file that the user,
  Claude Code and other installers write too.
* The change collection asks Git and the file system in turn, while editors,
  builds and Git commands of others go on; its report is what everything after
  it takes for the change.
* `allow` writes the ledger of a branch; `check` reads ledger and policy from the
  base side; a change that passes is merged and becomes the next base side.
* Detectors hand findings, in report order, to `apply_gates`; the IR hands it
  the ledger; the verdict goes back to the check command and the hooks.

### What is hard

* Concurrency without locks: everything relies on `O_EXCL`, `os.replace`,
  `unlink` by name, and on one look at HEAD at a time.
* Crashes: Claude Code kills hooks that take long; every pair of file
  operations has a gap.
* Failing queries: a Git call that times out reads as "no such commit".
* History: rebases, merges, orphan branches and garbage collection decide
  whether the recorded commit still means anything.
* Deadlines: two threads race for one answer.
* Order: the ledger is greedy, so which finding is judged first matters.
* Routes: several calls, each harmless, that together weaken a test; several
  changes to policy files, each of which passes, that together exempt one.
* Greedy matching: an assertion that pairs first may take what another needs.
* Several looks: HEAD, index, status and bytes are read at different moments.
* Two directories: `.checkwash/` hides `.greenwash/`, so a file that comes or
  goes changes what another one means.

### What makes each component correct

* Records: the policy of a verdict never contains the session's own commits;
  where it cannot be found the user is told; a record is never replaced, and
  is pruned only when old or of a lost commit.
* Stop: a set is released only if Claude was told of it and in a continuation;
  stops come to an end.
* Input: what is acted on is whole and within the cap; the hook never hangs.
* PreToolUse: no route of silent calls leaves a test that checks less; under a
  blocking policy a silent pass of a judged test was judged, unless the code
  refuses to read what stands there; every call is answered.
* Installer: one managed handler per event, of one runtime; installing twice is
  installing once; the user's handlers stay.
* Gates: an arrival pays once, over all routes and orders; a pure relocation
  passes; a frozen contract lets only whole units through.
* Change collection: a report is the difference between one base and one look at
  each path; renames are a maximum matching that loses nothing; a repository at
  rest is reported.
* Alignment: equal assertions stay together whatever is inserted around them, none
  is called removed while one of its class is left over, and a check on something
  else never takes the place of one on the same subject.
* Policy: a change that passes weakens the policy, role tables included, only in
  the ways the code states or lets through (three, named in section 3), so a series
  of them exempts a weakened test only on exemptions and policies that are accounted
  for; the ledger only grows, by what was announced, but for two such ways; what
  `allow` recorded is honoured.

`PROJECT.json` lists the hazards behind these properties line by line, the ones
no property covers yet included.

## 2. Modules

| module | content |
| --- | --- |
| `SessionWindow` | repository, clock, record files, start and Stop processes of several sessions |
| `MCSessionWindow` | symmetry for its runs |
| `StopContract` | what the Stop hook promises, without processes, files and crashes |
| `StopHook` | the handlers of one session, their record, edits, prunes, kills, other hooks; implements `StopContract` |
| `MCStopHook` | constants for its runs |
| `HookInput` | sender, reader thread and main thread |
| `PreToolUse` | main and worker thread, the file in the working tree and in HEAD, everybody who changes it |
| `PreToolCall` | whole PreToolUse processes one after another: `HookInput` decides what `PreToolUse` judges |
| `HookSettings` | a settings file as a value, and the merge as operators |
| `HookInstall` | installers and a user over those files; EXTENDS `HookSettings` |
| `MCHookInstall` | the settings files its run starts from |
| `Gates` | one diff, the ledger, the judgement of each finding in report order |
| `MCGates` | the findings and arrivals its run combines |
| `ChangeReport` | what a list of working-tree changes promises, without Git, index and HEAD |
| `WorktreeChanges` | one collection step by step, and everybody who changes the repository meanwhile; implements `ChangeReport` |
| `MCWorktreeChanges` | the repositories its run starts from |
| `PolicyReview` | the two policy files in either directory, branches, `allow`, merges, the calendar |
| `MCPolicyReview` | texts and bases for its runs |
| `Alignment` | the assertions of one changed unit, and the passes that pair them |
| `MCAlignment` | the assertions its run combines |
| `*_proofs` | the theorems about each |

Each handler, thread or installer has a program counter, and each file or Git
operation is a step of its own, because another process may act between any two.
Code between two such operations is one action.  A process that dies (`Kill`,
`StarterDies`, `StopDies`, `Vanish`) keeps what is on disk.

Correspondence in the large:

* `SessionWindow`: `ReadStartInput` .. `UnlinkRecord` are `_cmd_session_start`,
  `record_session_start` and `_prune` in order; `ResolveWindowHead`,
  `ReadRecord`, `CompareWithHead` are `_session_window`; `Verdict` is
  `_cmd_check`'s analysis under the side `PolicySide` picks;
  `AnalyseSessionCommits` is the second analysis of `_session_note`.  A commit
  carries its history as a set, so merges, orphans and rebases need no tree.
* `StopHook`: one handler is `ReadInput`, `Analyse`, then `ClearOnPass`, or
  `Decide` and, for a block, `RecordBlock` and `EmitBlock`.  `Settle` is Claude
  Code collecting the answers.  A blocking set is the set of fingerprints, as
  `blocking_digest` has it; different sets have different digests.
* `HookInput`: bytes are counted, not spelled; whether they parse is a Boolean.
* `PreToolUse`: a copy of the test file is absent, unparsable, too big, or a
  text with a strength, a number that says how much it checks.  `Weakens` stands
  for `WEAKENING_RULES` at high or above.  `state["config"]` and `state["rel"]`
  are two stores, as in the code.  The ghost `seen` says how far the worker got
  with the working copy: not at it, refused, read, compared.
* `PreToolCall` joins the two: `ReadInput` is a step of `HookInput` while the main
  thread waits for its input, `TakeEvent` hands the result over and ends that part,
  and everything after is `PreToolUse`.  What remains of the reader thread then is
  nothing anybody looks at.
* `HookSettings`: an event has groups in order, a group has handlers in order;
  managed handlers are their runtime, the user's are opaque.
* `Gates`: assertions are model values with a text and with proof keys; a unit
  has a context or none.  `AssertionMoved`, `UnitMoved`, `DuplicateRemains`,
  `TextsMoved` are the four routes of the D2/D10 part of `apply_gates` in their
  order, `Weigh` the chain of holds after them.  What the static analysis may
  find beside a finding (`Possible`) is a choice, per rule.
* `WorktreeChanges`: `Resolve` .. `CheckAfter` are `list_worktree_changes` and
  `list_session_changes` up to the records, with `_worktree_status`'s two looks at
  HEAD around `git status`, which itself reads index, HEAD and files in turn.
  `TakeDeleted` .. `Finish` are `_worktree_changes`, file by file; `Reported` is
  `_detect_worktree_renames`, its queues written as turns.  A content is a model
  value, and `Key` is what `_rename_content_key` makes of it.
* `PolicyReview`: a text is what the two loaders get out of it.  `Changes`,
  `Expanded` are the change list and `_expand_renames`; which equal or grown
  files Git pairs is a choice (`Pairings`).  `IsAppend`, `Touches`,
  `GuardSeverity` are `build_ir`'s treatment of a guard file and its severity in
  `apply_gates`; `Blocks` and `Errs` are the verdict.  `Merge` is a required
  check that passed, followed by the merge.  A role table is a model
  value, which says which of the four files are guardrails (`Guards`) and which
  weakened tests' files are judged (`Judges`): `IsGuardrail`, `Escapes` and `Blocks`
  ask the base policy's, `Comparable` asks for equal ones, and `Loosens`, like the
  code, does not look.  The ghost `slipped` keeps what came into force past the
  review.  `Allow` is `_cmd_allow`, a kill
  during its append included.

* `Alignment`: `before` and `after` are the assertions of a unit in span order, each
  a record of what the passes compare.  `Stages` are the passes 0, 1, 1b, 2, 3, 4 of
  `_match_assertions`, gone through once for the unit's own assertions and once for
  those it reaches through a helper, as `_pair_assertions` does; in a pass the old
  assertions look one after the other (`Pair`, `Miss`).

## 3. Runs

| run | instance | question and result |
| --- | --- | --- |
| `session_history` | one session, 3 commits in every shape, collection, a failing Git | policy predates the session, silence means analysed and not self-governed, over merges, orphans, rebases and lost commits: holds |
| `session_prune` | two sessions, two start hooks, a sound Git | a writer keeps its file, records are never replaced, only stale ones go: holds |
| `session_prune_flaky` | the same with a failing Git | a live record is pruned: violated (finding 1) |
| `stop_hook` | two handlers of one version, two findings, everything fails but a kill between record and answer | released sets were told; implements `StopContract`; stops end: holds |
| `stop_lost` | one handler killed between record and answer | a set is released that nobody was told of: violated (finding 2) |
| `pre_tool_call` | strengths 0 and 1, blocking policy, cap 1, chunk 2, inputs up to 3 bytes, everything fails | what is acted on is whole and fits, no weakening route, a silent pass of a judged test was judged or refused to be read, every call answered: holds |
| `hook_install` | two installers, a user, both scopes, files with stale duplicates | one runtime, reinstalling is nothing, the user's settings kept: holds |
| `gates` | up to 3 findings, up to 2 arrivals, frozen or not | arrivals pay once, relocations pass, the freeze holds: holds |
| `worktree_changes` | two moves of others in repositories of two files, or four files at rest; a failing Git | implements `ChangeReport`, status is of the HEAD that was asked for, renames match, rest is reported: holds |
| `policy_review` | two merges, two files edited per branch, one `allow`, two days, three role tables | a passing change weakens the policy only as stated, the ledger only grows, every merged weakening is accounted for, `allow` is honoured: holds |
| `policy_renames` | one merge of renamed files | exemptions come into force that no report names: violated (finding 3) |
| `alignment` | up to two old and three new assertions out of eight, Python or not | twins are paired, nothing counts as removed that has its like, no decoy: holds |

`CHECK_DEADLOCK FALSE` stands where the system may stop: hooks need not fire and
the clock is bounded (`SessionWindow`), the installers have ended, the verdict has
been given, the assertions are paired.

### Findings

1. `session.py:154`: `_commit_exists` answers "no" on every Git error, so a
   timeout during a start removes another live session's record, although
   `src/SPEC.md` §9 says only old records and those of a lost commit go.  The
   damage is bounded: `SilenceIsNotSelfGoverned` still holds under the same
   failures, because the Stop then says that it had no base.
2. `cli.py:590`: `record_stop` comes before the answer.  A handler killed in
   between has recorded a set nobody read, and the next continuation releases
   it with the message "Claude was told once".
3. `engine.py:1658`: for a file renamed to `allow.toml` the ledger "before" is
   the renamed file, so its entries stand on both sides, nothing counts as
   added, and neither `EXEMPTION_ADDED` nor `GUARDRAIL_TOUCHED` is reported,
   while `src/SPEC.md:1755` says that additions to `allow.toml` produce the
   former.

Met on the way, and without a run of their own:

* `cli.py:586`: a release asks for `stop_hook_active`, which any stop hook's
  block sets, while the comment there says that another hook's continuation
  blocks.  `ReleasedWasTold` holds all the same.
* Three ways by which a policy that keeps its own files under review is weakened
  by a change that passes, all reached in `policy_review` and named in its
  properties (`PolicySlips`, `LedgerSlips`):
  the first role table, in a config.toml created where there was none or an empty
  one, is a warning, which `engine.py:541` calls a stated residual; if it takes the
  tests out of review, the next change weakens one unjudged, and if it takes the
  guardrail files out, the policy supervises itself no more (`FirstTable`);
  taking away an empty `.checkwash/config.toml` (`engine.py:1675`) counts as a
  created file, so a warning, although the file under `.greenwash/` comes into
  force, and so for the ledger (`Reveals`);
  and a config.toml renamed to allow.toml goes out of force without a finding, by
  the mechanism of finding 3 (`BecomesLedger`).
  `WeakeningsAreAccountedFor` counts the policies that came in so among its
  sources, and `PolicyWeakensOnlyAsStated` says that there is no fourth way.
* `allowlist.py:102`: an entry of the full term, written by an author whose clock
  is ahead of the gate's, is over the cap until the gate's day catches up.
  `AllowIsHonoured` asks that the term leaves room for the lead.

### Bounds, and why they are enough

* Two sessions, one or two starters: a record has one owner; a race needs its
  owner and one pruner, or its two start handlers.  More only repeat these
  roles.  `Watched` keeps the Stop to the session in question: a Stop writes
  nothing that another session's hooks read.
* Three commits: the root, the session's, and somebody else's give a merge, a
  fork, an orphan and a rebase.  One tick is enough for a record to age,
  with `AgeLimit` 0.
* Two handlers, two findings: sets can be equal, disjoint and nested, and a
  handler can overwrite another's record.  Two edits change a set and change
  it back.
* Cap 1 and chunk 2: a chunk goes past the cap, an input may be the cap exactly, one
  byte longer, and two.  The theorems hold for every cap and chunk.
* Two strengths: a file has its checks or has lost them.
* Files for the installer hold a handler in the right group, two in two groups,
  one beside the user's in one group, one in a user's group and one in another
  kind's group.
* Three findings and two arrivals: two deletions compete for one arrival while
  a third takes another route; two of three arrive.  Assertions `a` and `b` have
  one text and two contexts, so a text match without proof occurs; `smoke` has
  no assertion.  A finding no arrival can excuse counts for two.
* Two old and three new assertions: an insertion between two, a swap, two that want
  one.  The eight assertions differ in one respect each: context, spelling,
  strength, subject, `match=`, a helper's.
* Four files at rest: two deletions and two arrivals of one content, of a CRLF
  twin, of another, or over the size limit.  At rest the run's index is HEAD's tree;
  that staged changes at rest are reported too is left to `RestReported`.  Two files and two moves: HEAD moves
  and a file follows, or an edit comes between status and reading.
* Two merges, each of two edited files: one plants, the next uses, which is the
  two-change plant the code's comments name; two files are what a rename or a
  takeover needs.  One key with one rule: what exempts one key exempts no other.
  Three role tables: the default one, one without the tests, one without the tests
  and the policy's own files.
  Two days and a cap of one: an entry expires, and a clock is ahead by the cap.

The theorems of section 5 do not depend on these bounds.

### Fairness

* `StopHook.FairSpec`: every started handler goes on, Claude Code collects the
  answers, Claude ends its turns.  Handlers are processes of their own with no
  wait on each other, so weak fairness of each is the scheduler's.  Edits,
  prompts, kills and prunes are not fair.  `StopsInTheEnd` excludes what would let
  a block go on for ever by itself: it asks that at some point inputs and records
  stop failing and other hooks stop blocking.  An oversized file blocks on every
  stop, which the property allows for.
  The theorem `EveryStopEnds` says so of any findings; `FairWith` is `FairSpec` for
  handlers that have a name.
* `PreToolCall.CallSpec`: the main thread runs, its timer runs out and its deadline
  comes (`MainGoesOn`).  Nothing is asked of the sender, of the reader thread, which
  may wait for it for ever, or of the worker, which may hang in Git.

## 4. Mutants

Each property of each passing run has a mutant of the code that breaks it: a
prune that takes torn files, a `>=` for a `>`, a record without `O_EXCL`, policy
from HEAD, a release without the set comparison, a chunk that ignores the cap,
a timer that never expires, a merge that appends, a recheck left out, a unit route that
takes no credit, a freeze that reaches only holds, a session report without the
committed paths, a HEAD that is not looked at again, a rename queue that gives
its first to everybody, a worker that swallows its exception, role tables left out
of a comparison, a shadow rule left out, an `allow` that writes where `check` does not read, twins
paired in source order, a fallback that takes any form.  They
stand in the modules
beside what they mutate.

## 5. What is proved

For every value of the constants that meets the named assumptions
(`SessionAssumption`, `StopAssumption`, `InputAssumption`, `PreToolAssumption`,
`CallAssumption`, `HandlerAssumption`, `InstallAssumption`, `GatesAssumption`,
`WorktreeAssumption`, `PolicyAssumption`, `AlignmentAssumption`):

| theorem | statement |
| --- | --- |
| `SessionWindow_proofs!TypeCorrect` | `Spec => []TypeOK` |
| `...!PolicyIsOlder`, `!SilenceAnalysed`, `!SilenceNotSelfGoverned` | the three window invariants |
| `...!RecordKept` | `Spec => RecordNeverReplaced` |
| `...!WriterIsSafe`, `!PrunedWereStale` | `Spec => []WriterKeepsItsFile` and `Spec => OnlyStaleRecordsPruned`, if `SlowWorld` and not `Flaky` |
| `StopHook_proofs!TypeCorrect` | `Spec => []TypeOK` |
| `...!ToldBeforeReleased` | `Spec => []ReleasedWasTold`, if no kill comes between record and answer |
| `...!ImplementsContract` | `Spec => Contract!ContractSpec`, under the same hypothesis |
| `...!HandlerAnswers` | a handler that runs ends, if it alone is fair |
| `...!EveryStopEnds` | `StopsInTheEnd`, for one or two handlers of one version and a tree that is left alone in the end |
| `PreToolCall_proofs!CallsAreJudged` | `CallSpec => Spec`: a whole call is a behaviour of the judgement |
| `...!TypeCorrect` | `CallSpec => []CallTypeOK` |
| `...!ObjectFits`, `!GivenUp` | `CallSpec => []ObjectFitsTheCap` and `CallSpec => []GivenUpForCause`, for every cap and chunk |
| `...!NoWeakeningRoute`, `!BlockingPolicyAsks` | `CallSpec => []NoSilentRoute` and `CallSpec => []UnanalysedIsAsked`, for any set of strengths: the latter with the refused read as its one exception |
| `...!EveryCallIsAnswered` | `CallSpec => EveryCallAnswered`, where a waiting main thread can take a step |
| `HookInstall_proofs!TypeCorrect` | `Spec => []TypeOK` |
| `...!RunsOnce`, `!Idempotent`, `!UserIsKept` | the three properties of `hook_install`, for any installers, runtimes, handlers and files of any length |
| `Gates_proofs!TypeCorrect` | `Spec => []TypeOK` |
| `...!PaidByArrivals`, `!WholeUnitsPaidOnce` | the ledger, for any assertions, contexts, diffs and orders |
| `...!FreezeBinds`, `!RelocationIsFree` | `Spec => []FrozenPass` and `Spec => []RelocationPasses` |
| `WorktreeChanges_proofs!TypeCorrect`, `!RenamesMatched` | types, and the rename pairing, for any files and histories |
| `...!StatusVouched`, `!ImplementsReport` | `Spec => []StatusIsOfHeld` and `Spec => OneView!ReportSpec`, if HEAD does not come back to a commit it left |
| `...!RestReported` | `Spec => []RestIsReported`, without that condition |
| `PolicyReview_proofs!TypeCorrect` | `Spec => []TypeOK` |
| `...!WeakensOnlyAsStated`, `!LedgerGrows` | `Spec => PolicyWeakensOnlyAsStated` and `Spec => LedgerOnlyGrows`: one merge from any state of the types, under a policy that supervises its own files |
| `...!WeakeningsAccountedFor`, `!AllowHonoured` | `Spec => []WeakeningsAreAccountedFor` and `Spec => []AllowIsHonoured`, for any texts, role tables, keys, days and number of merges |
| `...!CapBindsEveryEntry` | no dates an entry may carry buy more than the cap |
| `Alignment_proofs!TypeCorrect` | `Spec => []TypeOK`: nothing is paired twice |
| `...!NoTwinIsLost`, `!NothingLostInRewrites`, `!NoDecoyTakesThePlace` | the three properties of `alignment`, for any assertions and units of any length |
| `...!NoTurnIsStuck` | as long as a pass has an assertion left that fits, one of them can take its turn |

The arguments:

* **Session window.**  `Inv` adds to the types that histories are reflexive,
  transitive and within what was made (`HistoryInv`), that a session whose start
  hooks still run has no commits (`StarterInv`), and that whatever a record, a
  running Stop or a finished one holds is `Clean`: its history has none of the
  session's commits.  `Clean` survives a new commit because it only extends the
  new commit's history, and a merge base inherits it from the recorded commit.
  Without `StarterInv` the record itself could not be shown clean; this is where
  the code's refusal to record on a resume or a compaction is used.
* **Pruning.**  A prune judges a record and unlinks it later by name, so
  `PruneInv` says what must still be true in between.  With `SlowWorld` no day
  passes and no commit expires while a start hook runs; so the records made by a
  session that is still starting are of today (`TodaysRecords`), what a prune has
  chosen belongs to a live session and is stale at this very moment (`Pruning`), and a live
  session writes no record again, because nothing is recorded on a resume or a
  compaction.  Without `SlowWorld` or with `Flaky` the first step is wrong, which
  is the finding of `session_prune_flaky`.
* **Stop hook.**  That the record names a set Claude was told of is not
  inductive: it may have been written by a handler that has yet to print its
  block.  `Backed` says told, or about to be: by a handler at `emit` or by an
  answer not yet collected.  Answers carry the same backing, since another
  handler may replace the record after a release was decided.  The refinement
  maps `Settle` to `HeldBack` or `LetGo`, and every handler step to a stutter.
* **Stops end.**  Within a turn that is not let go, every stop is a continuation
  from the second on, and its handlers know it (`Continuing`).  A stop that is held
  back when nothing is lost was held back by a recorded block (`BlocksRecorded`), so
  the next one finds the record of the very set and releases (`Releasing`).  Only a prune
  can come between, and only once: a record ages between turns, never within one
  (`Young`).  So at most four more stops follow the last disturbance.  The handlers must
  be of one version: if one reports less than the other, it may clear at each stop
  what the other recorded.  That every stop is settled (`StopsSettle`) is
  `HandlerAnswers` for both: a handler's stages follow the code, and others leave
  them alone.  Why two handlers: the code has two settings files, and a conjunction of
  any number of temporal formulas is beyond the prover.
* **PreToolCall.**  Every step of a call is a step of the judgement or leaves it as
  it is, so what is proved of one call of `Spec` holds of calls whose input had
  to be read first.  Beside the two parts' own invariants it takes that nothing
  is under way at the reader outside the input step.
  That a call is answered is a ladder of five stages (`Stages`), which only the main
  thread or the end of the process leaves (`StageStays`, `StageEnds`); the sender, the
  reader thread and the worker need not take a step.
* **Hook installer.**  What `Without` leaves out of a sequence is a recursive function
  over its prefixes; a set of naturals with 0 and all successors is all of them
  (`Induction`), which is enough to show what such a function returns: a sequence of
  the kept elements, nothing else (`WithoutTyped`), the sequence itself where there is
  nothing to drop (`WithoutNone`), and that it distributes over an append
  (`WithoutAppend`).  A merge then has three outcomes (`MergeIs`), each with one match,
  of the new runtime (`MergeSingle`), and each with the user's handlers and groups as
  they were (`MergeKeepsOthers`).  The invariant says that a file somebody installed is a merge of
  something, until the user writes it, and that an installer at its replace has looked at
  what it read first.
* **Hook input.**  The end of the reader carries its cause, and the main
  thread's `finished` is never ahead of it.
* **PreToolUse.**  `floor` is what a silent route has to keep.  Control facts
  (which thread knows what when) come first, then `floor` is carried from the
  working copy through the window and the before side to the answer.  A broken
  copy's floor is that of HEAD, which is why the code has to compare it there.
  `SilenceInv` says why a worker that knows the policy may answer in silence
  (`MayPass`): each exception and each failed read has answered otherwise, but for
  the refusal the specification excepts.
* **Gates.**  For every key, what is left and what was paid add up to what
  arrived.  Each route that excuses must subtract exactly what it is counted
  for; a hold by proof subtracts when chosen, after having looked earlier in the
  same step.  For units only `<=` holds, because a unit with assertions may be
  excused by another route and leave its unit credit.  `FrozenPass` needs that
  every mark carries its reason, and `RelocationPasses` that what is still to be
  judged never wants more of a text than is left.
* **Change collection.**  HEAD only moves to commits it has not left, so two
  equal looks enclose an interval in which it did not move; `git status` read it
  in between.  The view of a path is then either what `git status` saw, when it
  listed the path as unchanged or deleted, or what the reading found; the
  refinement maps each look of Git or of the reader to `Look` and the last step
  to `Report`.  That the pairing is a maximum matching rests on counting: the
  turns of the deletions of one key are an initial segment of the naturals, as
  are those of its arrivals.  For a repository at rest `RestInv` says that HEAD,
  the index and the status stay what they are at the start, so a listed path can be
  read (`ListedTakable`) unless it is one of the two kinds `RestIsReported` names;
  HEAD does not move, so no condition on its way is needed.
* **Policy.**  `Judged` says that every difference in one of the four files is an
  entry of the change list under one of them, renamed or not.  `Quiet` is what
  "not blocked" leaves of such an entry, and `ConfigKept` and `LedgerKept` go
  through what the file was, what it became and what stands under the other
  directory: `SupervisedMerge` is what both say of one merge, from any state whose
  policy supervises its own files.  The invariant adds up over merges: the
  policy in force is no weaker than one of `Sources`, the first one and those that
  came past the review (`PolicyKept`); while all of these supervise their own files,
  so does the one in force (`WatchedIsSupervised`), since `Weaker` counts a lost
  guardrail, and the guard rule cannot have been turned off.  Every key in force
  was there, announced or came with a ledger that slipped in (`KeysKept`); and an
  entry of `allow` goes from the branch's ledger (`SaidIsHeld`, where `Resolved` and
  `Selected` have to agree) to the base's (`PromisesAreHeld`).
* **Alignment.**  Three passes end with every unpaired assertion having looked in
  vain: by context, by text, by class.  Until such a pass is over, whatever is
  paired is alike in its sense (`AllAlike`), so what an assertion finds taken was
  taken by its like (`Searched`), and no pairing is undone later (`PairsStay`).
  For the class this is where `_compatible` is used: were it to pair a
  classified assertion with another form's unclassified one, `AllAlike` would
  fail in the order pass.  That equal texts and statements are classified alike
  on both sides, and a form always or never, is an assumption on the frontends.
  That a pass never stops half way needs the first of those that fit: a set of
  indices has a least element, by the well-foundedness of the naturals.

## 6. What is only model-checked

* ENABLED: the three liveness theorems take from outside the prover that where
  fairness asks for a step there is one (`StepsArePossible`, and the hypotheses of
  `HandlerAnswers` and `EveryCallIsAnswered`).  Each is a hypothesis about the specification alone, true
  because every conjunct of these actions assigns a variable or is a guard the state meets;
  the liveness runs `stop_hook` and `pre_tool_call` evaluate ENABLED as it is defined.
* Liveness for more than two handlers, and that edits stop: `StopHook` bounds
  edits by `MaxEdits`, and a bound on a counter needs an induction over temporal
  formulas.
* The findings, which are counterexamples.

## 7. Plan

In this order:

1. The pairing of units in `align_file`: by name, then by shingles in descending
   score; no unit matched twice, an exact name never given up.
2. `Snapshots`: budgets and read-once caches; a read answer never changes and an
   exceeded budget is never taken for absence.
3. Composition of `SessionWindow` with `Gates`: the policy side decides
   exemptions and `fail_on`.
4. The task contract in `PolicyReview`, and the unread sides
   of the check command.
5. Further counterexamples: two handlers of different versions, each of which
   overwrites or clears the other's `.stop` record (what `EveryStopEnds` excludes); an edit lost between the installer's
   recheck and its replace; two scopes installed at once.

Bounds will stay at two actors and the smallest data that tells the cases apart.

## 8. What is not modelled, and why

* The frontends, detectors, relocation proofs, shadowing, compatibility and
  collection analyses are recognisers over source text: stateless, defined by
  hundreds of cases of syntax.  A finite model would only restate the cases.
  Their results enter `Gates` as free choices, so what is shown there holds
  whatever they answer.
* Which hold a finding deserves (`gating.py` up to the chain of holds) is a
  choice within what its rule admits; the order of the holds, and the ledger,
  are the code's.
* Of the change collection: `list_range_changes` reads two commits that cannot
  change, so only its result is used (`PolicyReview!Changes`); unmerged entries,
  ignored files, symbolic links, and plain directories in a file's place are left
  out; `git status` reads the index and each file once.  A HEAD that moves away
  and back between the two looks is assumed away (`Returns`): with it
  `StatusIsOfHeld` fails, as no comparison of two looks could show it.
* Of the policy: the globs of a role table, which is a set of judged tests and of
  guardrails here (that a table gives a policy file another supervised role, and
  that pytest's default collection makes a file a test whatever its role, is not
  told apart); the task contract, keys of retired forms,
  exemptions of the guardrail finding itself, `--fail-on` on the command line.
  A branch is up to date with the base when it is merged, as a required check
  can be told to ask; and the files are regular ones.
* Of the alignment: which units face each other, the deltas of markers,
  parameters and tolerances of a pair, and how a subject is read off the syntax.
* JSON, TOML and report layout, messages and colours.
* The file system beyond the operations named: `os.replace` and `O_EXCL` are
  atomic, a write to an opened file may follow its unlink.  Durability across
  a power loss is not considered.
* `doctor`, `sweep`, `bench`, `demo`, `quality`, the GitHub Action and the
  release tools: drivers or separate programs without shared state.
* The verdict of `Gates` may depend on the order of the findings where a credit
  has two takers and one of them could be held without it (`gating.py:823`);
  no property claims otherwise.
