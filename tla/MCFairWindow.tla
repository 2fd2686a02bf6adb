----------------------------- MODULE MCFairWindow -----------------------------
(***************************************************************************)
(* FairWindow for TLC: one caller that downloads, which fills a whole      *)
(* window and waits as long as it takes, one that makes cheap calls, and   *)
(* one that makes both, with a deadline, without or with try_acquire, and  *)
(* may be cancelled.                                                       *)
(***************************************************************************)
EXTENDS FairWindow, TLC

CONSTANTS downloader, reader, task

AsksOfEach == downloader :> {<<Limit, None>>}
           @@ reader     :> {<<1, None>>}
           @@ task       :> {<<1, None>>, <<1, 0>>, <<1, 1>>, <<Limit, 1>>}
=============================================================================
