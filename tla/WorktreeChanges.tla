--------------------------- MODULE WorktreeChanges ---------------------------
(***************************************************************************)
(* Collecting the changes of a working tree (gitio/git.py): `git status`   *)
(* is asked for paths, then each file is read, and deletions and arrivals  *)
(* of equal content are paired as renames.  In between, editors, builds    *)
(* and other Git commands change files, the index and HEAD.                *)
(*                                                                         *)
(* mode "worktree" is list_worktree_changes, from HEAD; mode "session" is  *)
(* list_session_changes, from the commit the session started from.         *)
(***************************************************************************)
EXTENDS Naturals, FiniteSets

CONSTANTS
    Paths,      \* in their sort order
    Contents,   \* what a file may hold
    Big,        \* those over the source byte limit, which are carried unread
    Key,        \* content -> its bytes with textual CRLF taken for LF
    None,       \* no entry, no file
    Link,       \* a submodule: a gitlink in a tree or index, a directory with
                \* a repository of its own in the working tree
    Unseen,     \* not looked at yet
    Commits,
    Worlds,     \* the repositories a call may find
    Loose,      \* the paths that others edit
    Returns,    \* may HEAD come back to a commit it left during the call?
    Faulty      \* may a Git call fail?

Things == Contents \cup {None, Link}
Trees  == [Paths -> Things]

ASSUME WorktreeAssumption ==
    /\ Paths \subseteq Nat /\ IsFiniteSet(Paths)
    /\ Big \subseteq Contents
    /\ Key \in [Contents -> Contents]
    /\ None \notin Contents \cup {Link} /\ Link \notin Contents
    /\ Unseen \notin Things
    /\ Worlds \subseteq [tree : [Commits -> Trees], head : Commits, index : Trees, work : Trees,
                         moves : Nat]
    /\ Loose \subseteq Paths
    /\ {Returns, Faulty} \subseteq BOOLEAN

VARIABLES
    (* the repository *)
    tree,       \* commit -> its tree
    head, index, work,
    moves,      \* bound: what others still do during the call
    left,       \* the commits HEAD has left (ghost)
    (* the call *)
    mode, base,
    pc,
    held,       \* HEAD as the call resolved it
    gitIndex, gitTree,   \* what `git status` read of the index and of HEAD
    seen,       \* path -> what the latest look at it found
    items,      \* [path, deleted]
    after,      \* path -> its after side, None for absent, or Unseen
    at,         \* the path that is being read
    answer,     \* "none", "failed" or "report"
    changes,    \* what was reported
    quiet       \* nothing moved and nothing failed so far (ghost)

world  == <<tree, head, index, work, moves, left>>
call   == <<mode, base>>
status == <<gitIndex, gitTree>>
result == <<answer, changes>>
vars   == <<world, call, pc, held, status, seen, items, after, at, result, quiet>>

Steps == {"resolve", "before", "index", "tree", "look", "after", "items", "gitlink", "read", "done"}
Items == [path : Paths, deleted : BOOLEAN]
Sides == Contents \cup {None}
Changes == [path : Paths, old : Paths, before : Sides, after : Sides]

TypeOK ==
    /\ tree \in [Commits -> Trees]
    /\ head \in Commits
    /\ index \in Trees
    /\ work \in Trees
    /\ moves \in Nat
    /\ left \subseteq Commits
    /\ mode \in {"worktree", "session"}
    /\ base \in Commits
    /\ pc \in Steps
    /\ held \in Commits
    /\ gitIndex \in Trees
    /\ gitTree \in Trees
    /\ seen \in [Paths -> Things \cup {Unseen}]
    /\ items \subseteq Items
    /\ after \in [Paths -> Sides \cup {Unseen}]
    /\ at \in Paths \cup {Unseen}
    /\ answer \in {"none", "failed", "report"}
    /\ changes \subseteq Changes
    /\ quiet \in BOOLEAN

Nowhere == [p \in Paths |-> None]

Init ==
    /\ \E w \in Worlds :
         /\ tree = w.tree
         /\ head = w.head
         /\ index = w.index
         /\ work = w.work
         /\ moves = w.moves
    /\ left = {}
    /\ mode \in {"worktree", "session"}
    /\ base \in Commits
    /\ mode = "worktree" => base = head
    /\ pc = "resolve"
    /\ held = head
    /\ gitIndex = Nowhere
    /\ gitTree = Nowhere
    /\ seen = [p \in Paths |-> Unseen]
    /\ items = {}
    /\ after = [p \in Paths |-> Unseen]
    /\ at = Unseen
    /\ answer = "none"
    /\ changes = {}
    /\ quiet = TRUE

-----------------------------------------------------------------------------
(* Everybody else, once per move.                                          *)

Moves ==
    /\ moves > 0
    /\ pc # "done"
    /\ moves' = moves - 1
    /\ quiet' = FALSE
    /\ UNCHANGED <<tree, call, pc, held, status, seen, items, after, at, result>>

Edit(p, thing) == Moves /\ work' = [work EXCEPT ![p] = thing] /\ UNCHANGED <<head, index, left>>

\* git add, git rm --cached, git reset, git stash.
Stage(p, thing) == Moves /\ index' = [index EXCEPT ![p] = thing] /\ UNCHANGED <<head, work, left>>

\* git commit or git reset --soft; a checkout also edits and stages.
MoveHead(c) ==
    /\ Moves
    /\ c # head
    /\ Returns \/ c \notin left
    /\ head' = c
    /\ left' = left \cup {head}
    /\ UNCHANGED <<index, work>>

-----------------------------------------------------------------------------
ReadsPointers(x) == x
\* A submodule's entry has no bytes, on either side.
Text(x) == IF x = Link THEN None ELSE x

Goto(from, to) == pc = from /\ pc' = to

Fail == /\ pc' = "done"
        /\ answer' = "failed"
        /\ UNCHANGED <<world, call, held, status, seen, items, after, at, changes, quiet>>

GitFails ==
    /\ Faulty
    /\ pc # "done"
    /\ pc' = "done"
    /\ answer' = "failed"
    /\ quiet' = FALSE
    /\ UNCHANGED <<world, call, held, status, seen, items, after, at, changes>>

\* list_worktree_changes was given the commit its caller resolved.
Resolve ==
    /\ Goto("resolve", "before")
    /\ held' = IF mode = "worktree" THEN base ELSE head
    /\ UNCHANGED <<world, call, status, seen, items, after, at, result, quiet>>

NeverMoved    == TRUE
HeadIsHeld    == head = held

\* "worktree HEAD changed before status collection"
CheckBefore ==
    \/ /\ HeadIsHeld
       /\ Goto("before", "index")
       /\ UNCHANGED <<world, call, held, status, seen, items, after, at, result, quiet>>
    \/ pc = "before" /\ ~HeadIsHeld /\ Fail

\* git status reads the index once, HEAD once and each file once.
StatusReadsIndex ==
    /\ Goto("index", "tree")
    /\ gitIndex' = index
    /\ UNCHANGED <<world, call, held, gitTree, seen, items, after, at, result, quiet>>

StatusReadsHead ==
    /\ Goto("tree", "look")
    /\ gitTree' = tree[head]
    /\ UNCHANGED <<world, call, held, gitIndex, seen, items, after, at, result, quiet>>

StatusLooks(p) ==
    /\ pc \in {"tree", "look"}
    /\ seen[p] = Unseen
    /\ \A q \in Paths : q < p => seen[q] # Unseen
    /\ seen' = [seen EXCEPT ![p] = work[p]]
    /\ UNCHANGED <<world, call, pc, held, status, items, after, at, result, quiet>>

\* The codes of a path: X compares HEAD with the index, Y the index with the
\* file.  A submodule may be listed for what is inside it.
Listed(p)   == gitTree[p] # gitIndex[p] \/ gitIndex[p] # seen[p]
MayList(p)  == Listed(p) \/ seen[p] = Link
HasD(p)     == \/ gitTree[p] # None /\ gitIndex[p] = None
               \/ gitIndex[p] # None /\ seen[p] = None

\* A path removed from the index but not from disk has two records, "D " and
\* "??"; a repository that no gitlink names has one that ends in a slash, and
\* reading that is refused.
Twice(p)    == gitTree[p] # None /\ gitIndex[p] = None /\ seen[p] # None
Nested(p)   == seen[p] = Link /\ gitIndex[p] # Link

NoneCommitted == {}
Committed     == {p \in Paths : mode = "session" /\ tree[base][p] # tree[held][p]}

\* "worktree HEAD changed during status collection", the records, and for a
\* session the committed paths that status does not list.
CheckAfter ==
    /\ pc = "after"
    /\ \/ (~HeadIsHeld \/ \E p \in Paths : Twice(p) \/ Nested(p)) /\ Fail
       \/ /\ HeadIsHeld
          /\ \A p \in Paths : ~Twice(p) /\ ~Nested(p)
          /\ pc' = "items"
          /\ \E listed \in SUBSET {p \in Paths : MayList(p)} :
               /\ {p \in Paths : Listed(p)} \subseteq listed
               /\ items' = {[path |-> p, deleted |-> HasD(p)] : p \in listed}
                      \cup {[path |-> p, deleted |-> Text(tree[held][p]) = None]
                             : p \in Committed \ listed}
          /\ UNCHANGED <<world, call, held, status, seen, after, at, result, quiet>>

StatusEnds ==
    /\ Goto("look", "after")
    /\ \A p \in Paths : seen[p] # Unseen
    /\ UNCHANGED <<world, call, held, status, seen, items, after, at, result, quiet>>

-----------------------------------------------------------------------------
(* _worktree_changes.                                                      *)

Pending == {i \in items : after[i.path] = Unseen}

\* "Trust git's status codes over the filesystem."
TakeDeleted(i) ==
    /\ pc = "items"
    /\ i \in Pending
    /\ i.deleted
    /\ after' = [after EXCEPT ![i.path] = None]
    /\ UNCHANGED <<world, call, pc, held, status, seen, items, at, result, quiet>>

AsksNoIndex(thing) == FALSE
IsDirectory(thing) == thing = Link

TakePresent(i) ==
    /\ pc = "items"
    /\ i \in Pending
    /\ ~i.deleted
    /\ at' = i.path
    /\ seen' = [seen EXCEPT ![i.path] = work[i.path]]
    /\ pc' = IF IsDirectory(work[i.path]) THEN "gitlink" ELSE "read"
    /\ UNCHANGED <<world, call, held, status, items, after, result, quiet>>

\* _indexed_gitlink
AskIndex ==
    /\ pc = "gitlink"
    /\ \/ /\ index[at] = Link
          /\ after' = [after EXCEPT ![at] = None]
          /\ at' = Unseen
          /\ pc' = "items"
       \/ /\ index[at] # Link
          /\ pc' = "read"
          /\ UNCHANGED <<after, at>>
    /\ UNCHANGED <<world, call, held, status, seen, items, result, quiet>>

\* WorkingTreeSnapshot.read; "status-present worktree source disappeared".
\* A directory is no regular source.
ReadFile ==
    /\ pc = "read"
    /\ \/ work[at] \in {None, Link} /\ Fail
       \/ /\ work[at] \in Contents
          /\ after' = [after EXCEPT ![at] = work[at]]
          /\ seen' = [seen EXCEPT ![at] = work[at]]
          /\ at' = Unseen
          /\ pc' = "items"
          /\ UNCHANGED <<world, call, held, status, items, result, quiet>>

\* Equal sides are no change, unless both are unread.
Differs(p) == LET b == Text(tree[base][p]) IN b # after[p] \/ (b \in Big /\ after[p] \in Big)

Halves == [p \in {i.path : i \in items} \cap {q \in Paths : Differs(q)} |->
              [before |-> Text(tree[base][p]), after |-> after[p]]]

-----------------------------------------------------------------------------
(* _detect_worktree_renames.                                               *)

Readable   == Contents \ Big
Removed(h) == {p \in DOMAIN h : h[p].before \in Readable /\ h[p].after = None}
Arrived(h) == {p \in DOMAIN h : h[p].after \in Readable /\ h[p].before = None}

\* How many of the same key come before it: the deletions of a key, in path
\* order, take its arrivals from the front of a queue.
RemovedTurn(h, d) ==
    Cardinality({e \in Removed(h) : e < d /\ Key[h[e].before] = Key[h[d].before]})
ArrivedTurn(h, a) ==
    Cardinality({b \in Arrived(h) : b < a /\ Key[h[b].after] = Key[h[a].after]})

PairsTheFirst(h, d, a) == Key[h[d].before] = Key[h[a].after] /\ ArrivedTurn(h, a) = 0
Pairs(h, d, a) ==
    /\ Key[h[d].before] = Key[h[a].after]
    /\ RemovedTurn(h, d) = ArrivedTurn(h, a)

Renames(h) == {r \in Removed(h) \X Arrived(h) : Pairs(h, r[1], r[2])}
Paired(h)  == UNION {{r[1], r[2]} : r \in Renames(h)}

Reported(h) ==
    {[path |-> r[2], old |-> r[1], before |-> h[r[1]].before, after |-> h[r[2]].after]
        : r \in Renames(h)} \cup
    {[path |-> p, old |-> p, before |-> h[p].before, after |-> h[p].after]
        : p \in DOMAIN h \ Paired(h)}

Finish ==
    /\ Goto("items", "done")
    /\ Pending = {}
    /\ answer' = "report"
    /\ changes' = Reported(Halves)
    /\ UNCHANGED <<world, call, held, status, seen, items, after, at, quiet>>

-----------------------------------------------------------------------------
Others ==
    \/ \E p \in Loose, thing \in Things : Edit(p, thing) \/ Stage(p, thing)
    \/ \E c \in Commits : MoveHead(c)

Collects ==
    \/ Resolve \/ CheckBefore
    \/ StatusReadsIndex \/ StatusReadsHead \/ StatusEnds \/ \E p \in Paths : StatusLooks(p)
    \/ CheckAfter
    \/ \E i \in items : TakeDeleted(i) \/ TakePresent(i)
    \/ AskIndex \/ ReadFile \/ Finish
    \/ GitFails

Next == Others \/ Collects

Spec == Init /\ [][Next]_vars

-----------------------------------------------------------------------------
(* Properties.                                                             *)

HalvesOf(change) ==
    IF change.old = change.path
    THEN {[path |-> change.path, before |-> change.before, after |-> change.after]}
    ELSE {[path |-> change.old, before |-> change.before, after |-> None],
          [path |-> change.path, before |-> None, after |-> change.after]}

\* Whatever moves meanwhile, a report is the difference between the base tree
\* and one look at each path, renames unfolded: no path is left out because it
\* was compared with another HEAD, and no after side was never on disk.
\* (_worktree_status: "`head`, which must stay HEAD throughout".)
OneView == INSTANCE ChangeReport WITH
    base   <- tree[base],
    disk   <- work,
    view   <- seen,
    halves <- UNION {HalvesOf(c) : c \in changes}

ReportsOneView == OneView!ReportSpec

\* Renames are a maximum matching: every path is in one change, a change joins
\* equal content only, and no deletion is left beside an arrival of its
\* content.  (_detect_worktree_renames: "relocation would otherwise look like
\* two unrelated events".)
RenamesMatch ==
    /\ \A c, d \in changes : c # d => {c.path, c.old} \cap {d.path, d.old} = {}
    /\ \A c \in changes : c.path # c.old => Key[c.before] = Key[c.after]
    /\ \A c, d \in changes :
         ~ /\ c.before \in Readable /\ c.after = None
           /\ d.after \in Readable /\ d.before = None
           /\ Key[c.before] = Key[d.after]

\* The paths of a report are those of the commit it was asked for: the two
\* looks at HEAD vouch for what `git status` saw between them.
\* (_worktree_status: "records against `head`, which must stay HEAD
\* throughout".)
StatusIsOfHeld == pc \in {"items", "gitlink", "read"} => gitTree = tree[held]

\* A repository at rest is reported, submodules and staged deletions included:
\* the call fails only for a path that is gone from the index alone, or for a
\* repository inside it that no gitlink names.  (_indexed_gitlink: "A dirty
\* submodule is a directory in porcelain status".)
RestIsReported ==
    answer = "failed" /\ quiet =>
        \E p \in Paths : \/ tree[head][p] # None /\ index[p] = None /\ work[p] # None
                         \/ work[p] = Link /\ index[p] # Link

=============================================================================
