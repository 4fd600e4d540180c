------------------------------ MODULE HookInput ------------------------------
(***************************************************************************)
(* session.read_hook_input: the hook input Claude Code writes on stdin.    *)
(*                                                                         *)
(* A daemon thread reads what arrives, up to one byte past the cap, while  *)
(* the main thread waits for it for a limited time and then takes what is  *)
(* there.  The sender may be slow, stop half way, keep the stream open,    *)
(* or not write at all.                                                    *)
(***************************************************************************)
EXTENDS Naturals

CONSTANTS
    Cap,       \* INPUT_BYTE_CAP
    Chunk,     \* the most one read returns (65536)
    MaxSize,   \* bound: the longest input a sender may have
    ReadsFail  \* may a read fail?

ASSUME InputAssumption ==
    /\ Cap \in Nat \ {0}
    /\ Chunk \in Nat \ {0}
    /\ MaxSize \in Nat
    /\ ReadsFail \in BOOLEAN

VARIABLES
    (* the sender *)
    size,      \* bytes of its input
    object,    \* do they parse as one JSON object?
    sent, open,
    (* the reader thread *)
    stream,    \* "tty" (or none, or closed) or "pipe"
    total, done, failed,
    (* the main thread *)
    pc, finished, expired, result

sender == <<size, object, sent, open>>
reader == <<total, done, failed>>
waiter == <<pc, finished, expired, result>>
inputVars == <<sender, stream, reader, waiter>>

InputTypeOK ==
    /\ size \in 0 .. MaxSize
    /\ object \in BOOLEAN
    /\ sent \in 0 .. size
    /\ open \in BOOLEAN
    /\ stream \in {"tty", "pipe"}
    /\ total \in 0 .. sent
    /\ total <= Cap + 1
    /\ done \in BOOLEAN
    /\ failed \in BOOLEAN
    /\ pc \in {"start", "wait", "join", "end"}
    /\ finished \in BOOLEAN
    /\ expired \in BOOLEAN
    /\ result \in {"pending", "none", "unreadable", "object"}

InputInit ==
    /\ size \in 0 .. MaxSize
    /\ object \in BOOLEAN
    /\ object => size > 0
    /\ sent = 0
    /\ open = TRUE
    /\ stream \in {"tty", "pipe"}
    /\ total = 0
    /\ done = FALSE
    /\ failed = FALSE
    /\ pc = "start"
    /\ finished = FALSE
    /\ expired = FALSE
    /\ result = "pending"

-----------------------------------------------------------------------------
Send(n) ==
    /\ open
    /\ n <= size - sent
    /\ sent' = sent + n
    /\ UNCHANGED <<size, object, open, stream, reader, waiter>>

\* The sender is finished, or dies half way.
Close ==
    /\ open
    /\ open' = FALSE
    /\ UNCHANGED <<size, object, sent, stream, reader, waiter>>

\* while total <= cap: read(min(65_536, cap + 1 - total))
WholeChunks(n) == Chunk
More(n)      == n <= Cap
Request(n)   == IF Chunk < Cap + 1 - n THEN Chunk ELSE Cap + 1 - n
Reading      == pc # "start" /\ stream = "pipe" /\ ~done

Read(n) ==
    /\ Reading
    /\ More(total)
    /\ n <= Request(total)
    /\ n <= sent - total
    /\ total' = total + n
    /\ UNCHANGED <<sender, stream, done, failed, waiter>>

\* Past the cap, at the end of the stream, or on an error: done.set().
ReaderEnds ==
    /\ Reading
    /\ \/ ~More(total) /\ UNCHANGED failed
       \/ More(total) /\ ~open /\ sent = total /\ UNCHANGED failed
       \/ More(total) /\ ReadsFail /\ failed' = TRUE
    /\ done' = TRUE
    /\ UNCHANGED <<sender, stream, total, waiter>>

-----------------------------------------------------------------------------
Start ==
    /\ pc = "start"
    /\ IF stream = "tty" THEN pc' = "end" /\ result' = "none"
                         ELSE pc' = "wait" /\ UNCHANGED result
    /\ UNCHANGED <<sender, stream, reader, finished, expired>>

WaitsForEver == FALSE
Expires      == TRUE

\* done.wait(wait): the reader is done, or the time is up, whichever is seen.
Wake ==
    /\ pc = "wait"
    /\ \/ done /\ finished' = TRUE /\ UNCHANGED expired
       \/ Expires /\ expired' = TRUE /\ UNCHANGED finished
    /\ pc' = "join"
    /\ UNCHANGED <<sender, stream, reader, result>>

NeverTooLong(n)    == FALSE
TooLongAtTheCap(n) == n >= Cap
TooLong(n)         == n > Cap

\* raw = b"".join(chunks): the reader may still have added to it since.
Join ==
    /\ pc = "join"
    /\ pc' = "end"
    /\ result' = CASE total = 0                                  -> "none"
                   [] total > 0 /\ (~finished \/ TooLong(total)) -> "unreadable"
                   [] OTHER -> IF object /\ total = size THEN "object" ELSE "unreadable"
    /\ UNCHANGED <<sender, stream, reader, finished, expired>>

InputNext ==
    \/ \E n \in 1 .. MaxSize : Send(n) \/ Read(n)
    \/ Close
    \/ ReaderEnds
    \/ Start
    \/ Wake
    \/ Join

InputSpec == InputInit /\ [][InputNext]_inputVars

-----------------------------------------------------------------------------
\* Only a whole input within the cap is acted on.  (read_hook_input: "Bytes
\* that do not parse as one JSON object within `cap`" give HookInput(None).)
ObjectFitsTheCap == result = "object" => total = size /\ size <= Cap

\* An input is given up only for a cause: it is no object, it exceeds the
\* cap, its sender stopped short, a read failed, the wait ran out, or there is
\* no pipe.  The bytes and the end of the stream may come in any order.
GivenUpForCause ==
    result \in {"none", "unreadable"} =>
        ~object \/ size > Cap \/ (~open /\ sent < size) \/ failed \/ expired \/ stream = "tty"

=============================================================================
