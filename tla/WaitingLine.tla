----------------------------- MODULE WaitingLine -----------------------------
(***************************************************************************)
(* What the line of a sliding window promises its callers, with no word    *)
(* about quota, time or locks: a call that has to wait joins at the back,  *)
(* only the call at the front is served past others that wait, and a call  *)
(* that fails gives up its own place and no other.                         *)
(***************************************************************************)
EXTENDS Integers, Sequences, SequencesExt

CONSTANT Caller

VARIABLES calling, \* the callers whose call has begun and not ended
          line     \* those of them that had to wait, oldest first

lineVars == <<calling, line>>

Init == calling = {} /\ line = <<>>

Waits(c) == \E i \in 1..Len(line) : line[i] = c

Call(c) == /\ c \notin calling
           /\ calling' = calling \cup {c}
           /\ UNCHANGED line

Join(c) == /\ c \in calling /\ ~Waits(c)
           /\ line' = Append(line, c)
           /\ UNCHANGED calling

\* Served, at once or from the front of the line.
Serve(c) == /\ c \in calling
            /\ \/ line = <<>> /\ UNCHANGED line
               \/ line # <<>> /\ line[1] = c /\ line' = Tail(line)
            /\ calling' = calling \ {c}

\* The call fails, wherever it stands in the line.
Leave(c) == /\ c \in calling
            /\ \E i \in 1..Len(line) : line[i] = c /\ line' = RemoveAt(line, i)
            /\ calling' = calling \ {c}

Next == \E c \in Caller : Call(c) \/ Join(c) \/ Serve(c) \/ Leave(c)

Spec == Init /\ [][Next]_lineVars
=============================================================================
