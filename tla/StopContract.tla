---------------------------- MODULE StopContract ----------------------------
(***************************************************************************)
(* What the Stop hook promises about one Claude Code session (SPEC.md      *)
(* section 9, "A stop that is not blocked again", and the note of          *)
(* cli._released_message), without processes, record file or crashes: a    *)
(* blocking set is released only in a continuation, and only after Claude  *)
(* was told of it.                                                         *)
(***************************************************************************)
CONSTANT Findings       \* fingerprints at or above fail_on, not exempted

VARIABLES
    turn,        \* "working", "stopping" or "stopped"
    active,      \* stop_hook_active: Claude continues because of a stop hook
    told,        \* the blocking sets Claude was told of in this session
    released     \* the blocking sets released at the latest stop

contractVars == <<turn, active, told, released>>

BlockingSets == (SUBSET Findings) \ {{}}

ContractInit == /\ turn = "working"
                /\ active = FALSE
                /\ told = {}
                /\ released = {}

\* Claude ends its turn.
Ends == /\ turn = "working"
        /\ turn' = "stopping"
        /\ UNCHANGED <<active, told, released>>

Releases(sets) == /\ released' \subseteq sets
                  /\ released' # {} => active

\* Some stop hook blocks: Claude reads the sets and goes on.
HeldBack == /\ turn = "stopping"
            /\ turn' = "working"
            /\ active' = TRUE
            /\ \E blocked \in SUBSET BlockingSets : told' = told \cup blocked
            /\ Releases(told')

\* No stop hook blocks.
LetGo == /\ turn = "stopping"
         /\ turn' = "stopped"
         /\ Releases(told)
         /\ UNCHANGED <<active, told>>

\* The user writes again.
UserPrompts == /\ turn = "stopped"
               /\ turn' = "working"
               /\ active' = FALSE
               /\ UNCHANGED <<told, released>>

ContractNext == Ends \/ HeldBack \/ LetGo \/ UserPrompts

ContractSpec == ContractInit /\ [][ContractNext]_contractVars

=============================================================================
