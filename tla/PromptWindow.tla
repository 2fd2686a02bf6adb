----------------------------- MODULE PromptWindow -----------------------------
(***************************************************************************)
(* SlidingWindow on a machine that keeps up: every caller runs as soon as  *)
(* it can, and time passes only while all of them are idle or asleep.      *)
(* What the window promises about time holds only then: a thread that is   *)
(* not scheduled cannot be on time.                                        *)
(***************************************************************************)
EXTENDS SlidingWindow

Settled == \A c \in Caller : pc[c] = "idle" \/ (pc[c] = "asleep" /\ clock < wake[c])

PromptNext == (Settled /\ Tick) \/ \E c \in Caller : Step(c)

PromptSpec == Init /\ [][PromptNext]_vars

-----------------------------------------------------------------------------
\* What must hold.

\* A call with a deadline is over less than one shortest sleep after it.
EndsByDeadline ==
    \A c \in Caller : (Open(c) /\ attempt[c].deadline # None)
        => clock < attempt[c].deadline + MinSleep

\* The call at the front of the line does not sleep on once it fits.  The README
\* names one case in which the queue costs throughput, a cheap call behind an
\* expensive one; this would be another.
FrontIsAwake ==
    \A c \in Caller :
        (/\ pc[c] = "asleep"
         /\ waiting[1].ticket = attempt[c].ticket
         /\ Budget!HasRoom(clock, attempt[c].cost))
        => wake[c] <= clock + MinSleep
=============================================================================
