----------------------------- MODULE PreToolCall -----------------------------
(***************************************************************************)
(* A whole PreToolUse hook process (cli._cmd_pre_tool_use): each tool call *)
(* starts one, which reads its input under the wait of read_hook_input     *)
(* and then judges the call under its own deadline.  The input decides     *)
(* what PreToolUse leaves open: whether the call is known at all.          *)
(***************************************************************************)
EXTENDS HookInput, PreToolUse

\* That an input arrives is not for this process to decide.
ASSUME CallAssumption == Faulty

allVars == <<vars, inputVars>>

\* Between two processes there is no input.
NoInput ==
    /\ size = 0 /\ object = FALSE /\ sent = 0 /\ open = TRUE
    /\ stream = "tty"
    /\ total = 0 /\ done = FALSE /\ failed = FALSE
    /\ pc = "start" /\ finished = FALSE /\ expired = FALSE
    /\ result = "pending"

CallInit == Init /\ NoInput

\* What the process read goes no further than its event.
Forget ==
    /\ size' = 0 /\ object' = FALSE /\ sent' = 0 /\ open' = TRUE
    /\ stream' = "tty"
    /\ total' = 0 /\ done' = FALSE /\ failed' = FALSE
    /\ pc' = "start" /\ finished' = FALSE /\ expired' = FALSE
    /\ result' = "pending"

\* The types of both parts.
CallTypeOK == TypeOK /\ InputTypeOK

-----------------------------------------------------------------------------
\* Claude Code starts the process and writes the call to it.
StartHook ==
    /\ CallTool
    /\ size' \in 0 .. MaxSize
    /\ object' \in BOOLEAN
    /\ object' => size' > 0
    /\ stream' \in {"tty", "pipe"}
    /\ UNCHANGED <<sent, open, reader, waiter>>

\* Once there is a result, nothing looks at what the reader thread still does.
ReadInput ==
    /\ main = "input"
    /\ result = "pending"
    /\ InputNext
    /\ UNCHANGED vars

\* HookInput(None) and no input are no call of ours.
TakeEvent ==
    /\ result # "pending"
    /\ ReadEvent
    /\ event' = (result = "object")
    /\ Forget

Elsewhere == (EditElsewhere \/ Commit \/ Switch) /\ UNCHANGED inputVars

Judge == (WorkerStep \/ Answer \/ Settle) /\ UNCHANGED inputVars

Die == Vanish /\ Forget

CallNext == StartHook \/ ReadInput \/ TakeEvent \/ Elsewhere \/ Judge \/ Die

\* The main thread waits, wakes, hands over and answers; nothing is asked of
\* the sender, the reader thread or the worker.
MainGoesOn ==
    \/ TakeEvent
    \/ Answer /\ UNCHANGED inputVars
    \/ main = "input" /\ (Start \/ Wake \/ Join) /\ UNCHANGED vars

CallSpec == CallInit /\ [][CallNext]_allVars /\ WF_allVars(MainGoesOn)

=============================================================================
