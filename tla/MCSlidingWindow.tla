--------------------------- MODULE MCSlidingWindow ---------------------------
(***************************************************************************)
(* SlidingWindow for TLC, under any schedule and under the prompt one.     *)
(***************************************************************************)
EXTENDS PromptWindow, TLC

CONSTANTS a, b, d

AnyOrder == Permutations(Caller \ (Interruptible \cup Readers))
=============================================================================
