------------------------------ MODULE HookInstall ------------------------------
(***************************************************************************)
(* `checkwash hook install` (cli._cmd_hook_install, hooks.install_claude): *)
(* installers read a settings file, probe their runtime, write the merged  *)
(* settings to a temporary file, read the file once more and replace it,   *)
(* while other installers and the user write the same files.               *)
(***************************************************************************)
EXTENDS HookSettings

CONSTANTS
    Installers,  \* processes, each bound to the runtime of its own installation
    Contents,    \* scope -> what is found in its settings file
    Edits,       \* what the user leaves there
    Faulty       \* may a probe fail, a write fail, an installer be killed?

ASSUME InstallAssumption ==
    /\ \A s \in {"shared", "local"} : Contents[s] \subseteq {NoFile, Linked, Bad} \cup Texts
    /\ Edits \subseteq {NoFile, Bad} \cup Texts
    /\ Faulty \in BOOLEAN

Scopes == {"shared", "local"}

VARIABLES
    file,     \* scope -> the settings file
    proc,     \* installer -> its process
    temps,    \* installers whose temporary file lies beside the settings
    writer,   \* scope -> the runtime whose installation the file holds (ghost)
    seen      \* installer -> the settings at its last look (ghost)

vars == <<file, proc, temps, writer, seen>>

Steps == {"asked", "load", "probe", "write", "recheck", "replace", "done", "refused", "killed"}

Modes     == {"shared", "local", "default"}
Processes == [pc : Steps, runtime : Runtimes, mode : Modes, original : {NoFile} \cup Texts]

\* mode: --shared, --local, or neither; original: what the first read found.
Fresh(r, mode) == [pc |-> "asked", runtime |-> r, mode |-> mode, original |-> NoFile]

TypeOK ==
    /\ file \in [Scopes -> {NoFile, Linked, Bad} \cup Texts]
    /\ proc \in [Installers -> Processes]
    /\ temps \subseteq {p \in Installers : proc[p].pc \in {"recheck", "replace", "killed"}}
    /\ writer \in [Scopes -> Runtimes \cup {"other"}]
    /\ seen \in [Installers -> {NoFile, Linked, Bad} \cup Texts]

Init ==
    /\ \E shared \in Contents["shared"], local \in Contents["local"] :
         file = [s \in Scopes |-> IF s = "shared" THEN shared ELSE local]
    /\ proc \in [Installers -> {Fresh(r, mode) : r \in Runtimes, mode \in Modes}]
    /\ temps = {}
    /\ writer = [s \in Scopes |-> "other"]
    /\ seen = [p \in Installers |-> NoFile]

-----------------------------------------------------------------------------
Scope(p)  == IF proc[p].mode = "shared" THEN "shared" ELSE "local"
Result(p) == Merged(proc[p].original, proc[p].runtime, Scope(p))

Goto(p, from, to) ==
    /\ proc[p].pc = from
    /\ proc' = [proc EXCEPT ![p].pc = to]

\* The implicit default refuses beside a managed shared file.
Refuses(p) == proc[p].mode = "default" /\ Managed(file["shared"])

Ask(p) ==
    /\ Goto(p, "asked", IF Refuses(p) THEN "refused" ELSE "load")
    /\ UNCHANGED <<file, temps, writer, seen>>

Load(p) ==
    /\ \/ /\ file[Scope(p)] \in {Linked, Bad}
          /\ Goto(p, "load", "refused")
       \/ /\ file[Scope(p)] \notin {Linked, Bad}
          /\ proc[p].pc = "load"
          /\ proc' = [proc EXCEPT ![p].pc = "probe", ![p].original = file[Scope(p)]]
    /\ UNCHANGED <<file, temps, writer, seen>>

Probe(p) ==
    /\ \/ Goto(p, "probe", "write")
       \/ Faulty /\ Goto(p, "probe", "refused")
    /\ UNCHANGED <<file, temps, writer, seen>>

\* Settings that stay the same are written again only for their layout.
Write(p) ==
    /\ \/ Goto(p, "write", "recheck") /\ temps' = temps \cup {p}
       \/ Result(p) = proc[p].original /\ Goto(p, "write", "done") /\ UNCHANGED temps
       \/ Faulty /\ Goto(p, "write", "refused") /\ UNCHANGED temps
    /\ UNCHANGED <<file, writer, seen>>

NeverChanged(p) == FALSE
Changed(p)      == file[Scope(p)] # proc[p].original

LeavesTemp(p)  == UNCHANGED temps
RemoveTemp(p)  == temps' = temps \ {p}

\* "changed during installation; not replacing it"
Recheck(p) ==
    /\ \/ Changed(p) /\ Goto(p, "recheck", "refused") /\ RemoveTemp(p)
       \/ ~Changed(p) /\ Goto(p, "recheck", "replace") /\ UNCHANGED temps
    /\ seen' = [seen EXCEPT ![p] = file[Scope(p)]]
    /\ UNCHANGED <<file, writer>>

Replace(p) ==
    /\ Goto(p, "replace", "done")
    /\ file' = [file EXCEPT ![Scope(p)] = Result(p)]
    /\ writer' = [writer EXCEPT ![Scope(p)] = proc[p].runtime]
    /\ temps' = temps \ {p}
    /\ UNCHANGED seen

Kill(p) ==
    /\ Faulty
    /\ \E from \in {"write", "recheck", "replace"} : Goto(p, from, "killed")
    /\ UNCHANGED <<file, temps, writer, seen>>

UserEdits(s) ==
    /\ \E content \in Edits : file' = [file EXCEPT ![s] = content]
    /\ writer' = [writer EXCEPT ![s] = "other"]
    /\ UNCHANGED <<proc, temps, seen>>

Next ==
    \/ \E p \in Installers :
         Ask(p) \/ Load(p) \/ Probe(p) \/ Write(p) \/ Recheck(p) \/ Replace(p) \/ Kill(p)
    \/ \E s \in Scopes : UserEdits(s)

Spec == Init /\ [][Next]_vars

-----------------------------------------------------------------------------
\* An installed file has one managed handler of each event in the installer's
\* groups, and all are of one runtime, whatever older ones the file held and
\* whoever else installed.  (install_claude: "The managed SessionStart handler
\* on the same runtime as `stop`".)
OneRuntime ==
    \A s \in Scopes : writer[s] # "other" =>
        \A e \in EventsOf(s) :
            LET groups == file[s].settings[e]
            IN  \E m \in Matches(e, groups) :
                    Matches(e, groups) = {m} /\ groups[m[1]].hooks[m[2]] = writer[s]

\* Installing the same runtime again changes nothing.  (_cmd_hook_install's
\* "already installed".)
ReinstallIsNothing ==
    \A s \in Scopes : writer[s] # "other" => Merged(file[s], writer[s], s) = file[s]

\* A replace keeps what the user had in the file when the installer last
\* looked at it, after the probes: every handler and group of theirs, in their
\* order, and a file it cannot read altogether.  (_merge: "User matchers, timeouts, async flags and other custom
\* handler fields remain exactly as configured"; install_claude: "changed
\* during installation; not replacing it".)
UserSettingsKept ==
    [][\A p \in Installers, s \in Scopes :
          Replace(p) /\ s = Scope(p) =>
            /\ seen[p] \notin {Linked, Bad}
            /\ \A e \in Events : Others(e, Read(file'[s])[e]) = Others(e, Read(seen[p])[e])]_vars

=============================================================================
