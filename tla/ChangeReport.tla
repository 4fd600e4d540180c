---------------------------- MODULE ChangeReport ----------------------------
(***************************************************************************)
(* What a list of working-tree changes promises (gitio/git.py,             *)
(* list_worktree_changes and list_session_changes), without Git, index or  *)
(* HEAD: while the files go on changing, every path is looked at, and the  *)
(* report is the difference between the base tree and those looks.         *)
(***************************************************************************)
CONSTANTS
    Paths,
    Contents,   \* what a file may hold
    Big,        \* those over the source byte limit: told apart from no other
    None,       \* no file
    Link,       \* a submodule's pointer, or its directory: no file either
    Unseen      \* not looked at yet

VARIABLES
    base,       \* path -> what the base commit has
    disk,       \* path -> what the working tree has
    view,       \* path -> what the latest look found
    answer,     \* "none", "failed" or "report"
    halves      \* what was reported

reportVars == <<base, disk, view, answer, halves>>

Things  == Contents \cup {None, Link}
Text(x) == IF x = Link THEN None ELSE x

\* Two sides over the limit cannot be compared: they may be reported.
MustReport == {p \in Paths : Text(base[p]) # Text(view[p])}
MayReport  == MustReport \cup {p \in Paths : base[p] \in Big /\ view[p] \in Big}

ReportInit == /\ base \in [Paths -> Things]
              /\ disk \in [Paths -> Things]
              /\ view = [p \in Paths |-> Unseen]
              /\ answer = "none"
              /\ halves = {}

FilesChange == /\ disk' \in [Paths -> Things]
               /\ UNCHANGED <<base, view, answer, halves>>

Look(p) == /\ answer = "none"
           /\ view' = [view EXCEPT ![p] = disk[p]]
           /\ UNCHANGED <<base, disk, answer, halves>>

\* The call fails as a whole; it never reports a part.
GiveUp == /\ answer = "none"
          /\ answer' = "failed"
          /\ UNCHANGED <<base, disk, view, halves>>

Report == /\ answer = "none"
          /\ \A p \in Paths : view[p] # Unseen
          /\ answer' = "report"
          /\ \E reported \in SUBSET MayReport :
               /\ MustReport \subseteq reported
               /\ halves' = {[path |-> p, before |-> Text(base[p]), after |-> Text(view[p])]
                              : p \in reported}
          /\ UNCHANGED <<base, disk, view>>

ReportNext == FilesChange \/ GiveUp \/ Report \/ \E p \in Paths : Look(p)

ReportSpec == ReportInit /\ [][ReportNext]_reportVars

=============================================================================
