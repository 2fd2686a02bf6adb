------------------------------ MODULE LetterCase ------------------------------
(***************************************************************************)
(* str.upper and str.lower on the names that occur: a spelling that is not *)
(* listed is taken to be in the right case already.                        *)
(***************************************************************************)

UpperCase == [get |-> "GET", post |-> "POST"]
LowerCase == [batchGet             |-> "batchget",
              batchGetByDataFilter |-> "batchgetbydatafilter",
              getByDataFilter      |-> "getbydatafilter",
              SEARCH               |-> "search"]

upper(name) == IF name \in DOMAIN UpperCase THEN UpperCase[name] ELSE name
lower(name) == IF name \in DOMAIN LowerCase THEN LowerCase[name] ELSE name
=============================================================================
