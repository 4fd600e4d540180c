----------------------------- MODULE HookSettings -----------------------------
(***************************************************************************)
(* A Claude Code settings file and how `checkwash hook install` merges its *)
(* handlers into it (hooks._merge, hooks.is_managed_handler and its        *)
(* siblings, hooks.shared_settings_managed).                               *)
(*                                                                         *)
(* Settings map each hook event to its groups, in order; a group has a     *)
(* kind, which its keys and its matcher decide, and a sequence of handlers.*)
(* A managed handler is the runtime it runs, any other a custom one.       *)
(***************************************************************************)
EXTENDS Naturals, Sequences

CONSTANTS
    Runtimes,   \* what managed handlers run: versions and locations of checkwash
    Customs     \* handlers of the user's

ASSUME HandlerAssumption == Runtimes \cap Customs = {}

Events == {"Stop", "SessionStart", "PreToolUse"}

Kinds    == {"plain", "matched", "user"}
Groups   == [kind : Kinds, hooks : Seq(Runtimes \cup Customs)]
Settings == [Events -> Seq(Groups)]

\* No file, one behind a link, and one that is no settings object.
NoFile == [form |-> "absent"]
Linked == [form |-> "linked"]
Bad    == [form |-> "bad"]
Text(settings) == [form |-> "text", settings |-> settings]
Texts == [form : {"text"}, settings : Settings]

Read(content) == IF content.form = "text" THEN content.settings ELSE [e \in Events |-> << >>]

-----------------------------------------------------------------------------
\* Only installer groups are managed: unfiltered ones, or with the matcher.
OwnKind(e)      == IF e = "PreToolUse" THEN "matched" ELSE "plain"
Owned(e, group) == group.kind = OwnKind(e)

\* Where the managed handlers are: <<group, handler>>.
Matches(e, groups) ==
    UNION {{n} \X {k \in DOMAIN groups[n].hooks : groups[n].hooks[k] \in Runtimes}
            : n \in {m \in DOMAIN groups : Owned(e, groups[m])}}

\* A sequence without the elements of a set, the others in their order.
Without(seq, dropped) ==
    LET kept[n \in 0 .. Len(seq)] ==
            IF n = 0 THEN << >>
            ELSE IF seq[n] \in dropped THEN kept[n - 1] ELSE Append(kept[n - 1], seq[n])
    IN  kept[Len(seq)]

Unmanaged(hooks) == Without(hooks, Runtimes)

\* for entry, old in matches: entry["hooks"].remove(old)
Cleared(e, groups) ==
    [n \in DOMAIN groups |->
        IF Owned(e, groups[n]) THEN [groups[n] EXCEPT !.hooks = Unmanaged(@)] ELSE groups[n]]

InstallerGroup(e, r) == [kind |-> OwnKind(e), hooks |-> <<r>>]

\* Two ways to get it wrong.
MergeBeside(e, groups, r)   == Append(groups, InstallerGroup(e, r))
MergeNewGroup(e, groups, r) == Append(Cleared(e, groups), InstallerGroup(e, r))

\* The handler takes the place of the managed ones, in the group of the first.
Merge(e, groups, r) ==
    LET matches   == Matches(e, groups)
        unchanged == \E m \in matches : matches = {m} /\ groups[m[1]].hooks[m[2]] = r
        first     == CHOOSE m \in matches : \A other \in matches : m[1] <= other[1]
    IN  CASE unchanged       -> groups
          [] matches = {}    -> Append(groups, InstallerGroup(e, r))
          [] OTHER           -> [Cleared(e, groups) EXCEPT ![first[1]].hooks = Append(@, r)]

\* Shared settings get no PreToolUse handler.
EventsOf(scope) == IF scope = "local" THEN Events ELSE Events \ {"PreToolUse"}

Merged(content, r, scope) ==
    Text([e \in Events |-> IF e \in EventsOf(scope) THEN Merge(e, Read(content)[e], r)
                                                    ELSE Read(content)[e]])

\* shared_settings_managed: a managed handler in any group of the two events.
Managed(content) ==
    /\ content.form = "text"
    /\ \E e \in {"Stop", "SessionStart"} : \E n \in DOMAIN content.settings[e] :
         \E k \in DOMAIN content.settings[e][n].hooks : content.settings[e][n].hooks[k] \in Runtimes

-----------------------------------------------------------------------------
\* What a user has in the settings beside the installer's handlers.
Emptied           == [kind : Kinds, hooks : {<< >>}]
Others(e, groups) == Without(Cleared(e, groups), Emptied)

=============================================================================
