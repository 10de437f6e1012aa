----------------------------- MODULE FileStamp -----------------------------
(***************************************************************************)
(* How the guard decides that one file has changed between two checks: by  *)
(* the stat of the file, and by a hash of its contents when equal stats    *)
(* prove nothing because the record was taken so soon after the file's     *)
(* modification time that a later write could hide behind the same stamp.  *)
(* A plugin reads the file when the check says that it changed.            *)
(*                                                                         *)
(* Writers run at any moment, also between the steps of a check. Every     *)
(* write keeps the size, the case in which the time must decide, and no    *)
(* contents come back. Contents are numbered in the order of the writes.   *)
(***************************************************************************)
EXTENDS Integers

CONSTANTS
    Resolution,   \* how far a modification time may lag behind its write
    Window,       \* DEFAULT_MTIME_RESOLUTION_MS, in the same unit
    MaxTime, MaxWrites    \* bounds TLC: the clock and the writes

\* The window covers the coarsest clock of the file systems it is meant for.
ASSUME StampAssumption ==
    /\ Resolution \in Nat /\ Window \in Nat
    /\ Resolution <= Window
    /\ MaxTime \in Nat /\ MaxWrites \in Nat

VARIABLES
    now,
    content, mtime,   \* the file
    stamp,            \* the record of the last check
    step,             \* the step of the check under way
    taken,            \* the clock, read before the file is looked at
    next,             \* the record of the check under way
    held,             \* the contents the plugin has read
    statted,          \* history: the contents when `next` was taken
    quiet             \* history: nothing written since the check began

stampVars == <<now, content, mtime, stamp, step, taken, next, held, statted, quiet>>

NoHash == -1   \* the record holds no hash

-----------------------------------------------------------------------------
(* Mutations: plausible slips in the definitions that follow. They are     *)
(* used only to show that each property can fail.                          *)

Racy_OffByOne(s) == s.recordedAt - s.mtime < Window - 1
HashDiffers_UnlessUnknown(s) == s.hash # NoHash /\ s.hash # content

-----------------------------------------------------------------------------
\* The record was taken within the window after the file's own time.
Racy(s) == s.recordedAt - s.mtime < Window

\* A tie is decided by the contents, an unknown hash counting as a change.
HashDiffers(s) == s.hash # content

\* What comparing the recorded stamp with the fresh one says.
Tie  == next.mtime = stamp.mtime /\ Racy(stamp)
Same == next.mtime = stamp.mtime /\ ~Racy(stamp)

Changed == IF Tie THEN HashDiffers(stamp) ELSE ~Same

\* The hash the new record carries: read on a tie, kept when nothing changed.
NextHash == IF Tie THEN content ELSE IF Same THEN stamp.hash ELSE NoHash

-----------------------------------------------------------------------------
\* A first check has just recorded the file; the plugin is yet to read it.
StampInit ==
    /\ now \in 0 .. MaxTime /\ content = 0
    /\ mtime \in {m \in 0 .. now : now - m < Resolution \/ m = 0}
    /\ stamp = [mtime |-> mtime, recordedAt |-> now, hash |-> NoHash]
    /\ next = stamp /\ taken = now
    /\ step = "read" /\ held = 0 /\ statted = 0 /\ quiet = FALSE

Tick ==
    /\ now < MaxTime
    /\ now' = now + 1
    /\ UNCHANGED <<content, mtime, stamp, step, taken, next, held, statted, quiet>>

\* A write stamps the file with the time, as coarse as the file system's.
Write(m) ==
    /\ content < MaxWrites
    /\ mtime <= m /\ m <= now /\ now - m < Resolution
    /\ content' = content + 1 /\ mtime' = m
    /\ quiet' = FALSE
    /\ UNCHANGED <<now, stamp, step, taken, next, held, statted>>

\* A check reads the clock, and then looks at the file.
Begin ==
    /\ step = "idle"
    /\ step' = "stat" /\ taken' = now /\ quiet' = TRUE
    /\ UNCHANGED <<now, content, mtime, stamp, next, held, statted>>

Stat ==
    /\ step = "stat"
    /\ step' = "decide"
    /\ next' = [mtime |-> mtime, recordedAt |-> taken, hash |-> NoHash]
    /\ statted' = content
    /\ UNCHANGED <<now, content, mtime, stamp, taken, held, quiet>>

Decide ==
    /\ step = "decide"
    /\ step' = IF Changed THEN "read" ELSE "idle"
    /\ stamp' = [next EXCEPT !.hash = NextHash]
    /\ UNCHANGED <<now, content, mtime, taken, next, held, statted, quiet>>

Read ==
    /\ step = "read"
    /\ step' = "idle" /\ held' = content
    /\ UNCHANGED <<now, content, mtime, stamp, taken, next, statted, quiet>>

StampNext ==
    \/ Tick
    \/ \E m \in mtime .. now : Write(m)
    \/ Begin \/ Stat \/ Decide \/ Read

StampSpec == StampInit /\ [][StampNext]_stampVars

-----------------------------------------------------------------------------
Stamps == [mtime : Int, recordedAt : Int, hash : Int]

StampTypeOK ==
    /\ now \in Int /\ mtime \in Int /\ mtime <= now
    /\ content \in Nat /\ held \in Nat /\ statted \in Nat
    /\ held <= content
    /\ stamp \in Stamps /\ next \in Stamps /\ taken \in Int /\ taken <= now
    /\ step \in {"idle", "stat", "decide", "read"}
    /\ quiet \in BOOLEAN

\* No change is missed: when a check is over and the file was not written
\* while it ran, the plugin holds what is in the file, however many writes of
\* one size fell within one tick of the file system's clock before.
NoChangeIsMissed == step = "idle" /\ quiet => held = content
=============================================================================
