------------------------------- MODULE Profiles -------------------------------
(***************************************************************************)
(* profiles/base.py and the profiles of Sheets, Drive and Gmail: who meters *)
(* a request, in which bucket and at what cost.  Pure operators.           *)
(*                                                                         *)
(* A query is the set of its parameters.  Functions cannot be kept in a    *)
(* record, so a profile names its resolver and "resolve" calls it.         *)
(***************************************************************************)
EXTENDS PathTable

READ_HTTP_METHODS == {"GET", "HEAD"}

ApiProfile(name, host, prefixes, limits, window) ==
    [name |-> name, resolver |-> name, host |-> host, prefixes |-> prefixes,
     limits |-> limits, window |-> window]

\* A prefix ends in a slash, so something follows it.
Under(path, prefix) == Len(path) > Len(prefix) /\ IsPrefix(prefix, path)

\* Bug: a host is claimed as a whole.
ClaimsHost(profile, host, path) == host = profile.host

claims(profile, host, path) ==
    /\ host = profile.host
    /\ profile.prefixes # {} => \E prefix \in profile.prefixes : Under(path, prefix)

\* Bug: the limits that are not overridden are lost.
OnlyTheOverrides(profile, overrides) == [profile EXCEPT !.limits = overrides]

with_limits(profile, overrides) ==
    [profile EXCEPT !.limits = [b \in DOMAIN @ |->
        IF b \in DOMAIN overrides THEN overrides[b] ELSE @[b]]]

Charged(bucket, cost) == [bucket |-> bucket, cost |-> cost]

-----------------------------------------------------------------------------
\* Sheets counts requests, reads and writes apart.

ReadVerbs == {"batchget", "batchgetbydatafilter", "getbydatafilter", "search"}

\* What follows the last colon of the last segment, in lower case.
TrailingVerb(path) == IF path # <<>> /\ Len(Last(path)) > 1 THEN lower(Last(Last(path))) ELSE ""

\* Bug: the HTTP method decides alone.
VerbIsIgnored(method, path) == upper(method) \in READ_HTTP_METHODS

IsSheetsRead(method, path) ==
    TrailingVerb(path) \in ReadVerbs \/ upper(method) \in READ_HTTP_METHODS

resolve_sheets(method, path) ==
    Charged(IF IsSheetsRead(method, path) THEN "read" ELSE "write", 1)

-----------------------------------------------------------------------------
\* Drive counts units: a few methods have their price, the others are priced by
\* the shape of their path.

DRIVE_READ_COST     == 5
DRIVE_LIST_COST     == 100
DRIVE_DOWNLOAD_COST == 200
DRIVE_EDIT_COST     == 50
DRIVE_OTHER_COST    == 5

EXPLICIT_COSTS ==
    << Entry("GET",  << <<"about">> >>, DRIVE_READ_COST),
       Entry("POST", << <<"files">>, <<"{}">>, <<"download">> >>, DRIVE_DOWNLOAD_COST),
       Entry("GET",  << <<"files">>, <<"{}">>, <<"export">> >>, DRIVE_DOWNLOAD_COST),
       Entry("GET",  << <<"files">>, <<"generateIds">> >>, DRIVE_OTHER_COST) >>

\* What v\d+(beta\d*)? matches, as far as it occurs.
Versions == {<<v>> : v \in {"v1", "v2", "v2beta", "v3", "v3beta1", "v4", "v10"}}

\* A path without its first segment, if that is one of these.
Without(path, leading) ==
    IF path # <<>> /\ path[1] \in leading THEN Tail(path) ELSE path

drive_resource_path(path) ==
    Without(Without(Without(path, {<<"upload">>}), {<<"drive">>}), Versions)

\* Bug: collections and items are mixed up.
EvenIsCollection(segments) == Len(segments) % 2 = 0

IsCollection(segments) == Len(segments) % 2 = 1

\* The code looks for the text alt=media anywhere in the query: these are the
\* parameters in which it occurs, the second of them by its value.
WithMedia == {"alt=media", "fields=alt=media"}

price_by_path_shape(method, segments, query) ==
    CASE upper(method) \notin READ_HTTP_METHODS -> DRIVE_EDIT_COST
      [] upper(method) \in READ_HTTP_METHODS /\ query \cap WithMedia # {} -> DRIVE_DOWNLOAD_COST
      [] OTHER -> IF IsCollection(segments) THEN DRIVE_LIST_COST ELSE DRIVE_READ_COST

resolve_drive(method, path, query) ==
    LET segments == drive_resource_path(path)
        explicit == lookup(EXPLICIT_COSTS, method, segments)
    IN Charged("units", IF explicit # None THEN explicit
                        ELSE price_by_path_shape(method, segments, query))

-----------------------------------------------------------------------------
\* Gmail counts units, and every price is in a table.

\* Bug: what has no price is taken for cheap.
UnpricedIsCheap == 1

GMAIL_UNPRICED_COST == 100

\* The table, one row for each path below users/{userId}.
At(segments, costs) == [template |-> Plain(segments), costs |-> costs]

GmailCosts ==
    << At(<<"drafts">>, [POST |-> 10, GET |-> 5]),
       At(<<"drafts", "{}">>, [DELETE |-> 10, GET |-> 20, PUT |-> 15]),
       At(<<"drafts", "send">>, [POST |-> 100]),
       At(<<"profile">>, [GET |-> 1]),
       At(<<"history">>, [GET |-> 2]),
       At(<<"labels">>, [POST |-> 5, GET |-> 1]),
       At(<<"labels", "{}">>, [DELETE |-> 5, GET |-> 1, PUT |-> 5, PATCH |-> 5]),
       At(<<"messages", "{}", "attachments", "{}">>, [GET |-> 20]),
       At(<<"messages", "batchDelete">>, [POST |-> 50]),
       At(<<"messages", "batchModify">>, [POST |-> 50]),
       At(<<"messages", "{}">>, [DELETE |-> 10, GET |-> 20]),
       At(<<"messages", "import">>, [POST |-> 25]),
       At(<<"messages">>, [POST |-> 25, GET |-> 5]),
       At(<<"messages", "{}", "modify">>, [POST |-> 5]),
       At(<<"messages", "send">>, [POST |-> 100]),
       At(<<"messages", "{}", "trash">>, [POST |-> 20]),
       At(<<"messages", "{}", "untrash">>, [POST |-> 5]),
       At(<<"settings", "delegates">>, [POST |-> 100, GET |-> 1]),
       At(<<"settings", "delegates", "{}">>, [DELETE |-> 5, GET |-> 1]),
       At(<<"settings", "filters">>, [POST |-> 5, GET |-> 1]),
       At(<<"settings", "filters", "{}">>, [DELETE |-> 5, GET |-> 1]),
       At(<<"settings", "forwardingAddresses">>, [POST |-> 100, GET |-> 1]),
       At(<<"settings", "forwardingAddresses", "{}">>, [DELETE |-> 5, GET |-> 1]),
       At(<<"settings", "autoForwarding">>, [GET |-> 1, PUT |-> 5]),
       At(<<"settings", "imap">>, [GET |-> 1, PUT |-> 5]),
       At(<<"settings", "pop">>, [GET |-> 1, PUT |-> 100]),
       At(<<"settings", "vacation">>, [GET |-> 1, PUT |-> 5]),
       At(<<"settings", "sendAs">>, [POST |-> 100, GET |-> 1]),
       At(<<"settings", "sendAs", "{}">>, [DELETE |-> 5, GET |-> 1, PUT |-> 100, PATCH |-> 100]),
       At(<<"settings", "sendAs", "{}", "verify">>, [POST |-> 100]),
       At(<<"stop">>, [POST |-> 50]),
       At(<<"threads", "{}">>, [DELETE |-> 20, GET |-> 40]),
       At(<<"threads">>, [GET |-> 10]),
       At(<<"threads", "{}", "modify">>, [POST |-> 10]),
       At(<<"threads", "{}", "trash">>, [POST |-> 20]),
       At(<<"threads", "{}", "untrash">>, [POST |-> 10]),
       At(<<"watch">>, [POST |-> 100]),
       At(<<"settings", "language">>, [GET |-> 1, PUT |-> 5]) >>

\* The table itself has one entry for each method of a row.
EntriesOf(row, methods) ==
    [m \in DOMAIN methods |-> Entry(methods[m], row.template, row.costs[methods[m]])]

RowEntries(row) == EntriesOf(row, SetToSeq(DOMAIN row.costs))

\* No path is listed twice, so the order of a row's methods cannot matter.
METHOD_COSTS == FlattenSeq([r \in DOMAIN GmailCosts |-> RowEntries(GmailCosts[r])])

resolve_gmail(method, path) ==
    LET segments == path_segments(path, <<"users">>)
        cost     == IF segments = None THEN None ELSE lookup(METHOD_COSTS, method, segments)
    IN Charged("units", IF cost = None THEN GMAIL_UNPRICED_COST ELSE cost)

-----------------------------------------------------------------------------
\* The profiles, with a window of Minute.

CONSTANT Minute

SHEETS == ApiProfile("sheets", "sheets.googleapis.com", {},
                     [read |-> 60, write |-> 60], Minute)
DRIVE  == ApiProfile("drive", "www.googleapis.com", {<< <<"drive">> >>, << <<"upload">>, <<"drive">> >>},
                     [units |-> 325000], Minute)
GMAIL  == ApiProfile("gmail", "gmail.googleapis.com", {}, [units |-> 6000], Minute)

\* A profile that is not one of these counts requests, in its only bucket.
resolve(profile, method, path, query) ==
    CASE profile.resolver = "sheets" -> resolve_sheets(method, path)
      [] profile.resolver = "drive"  -> resolve_drive(method, path, query)
      [] profile.resolver = "gmail"  -> resolve_gmail(method, path)
      [] OTHER -> Charged(CHOOSE b \in DOMAIN profile.limits : TRUE, 1)

\* Bug: the last profile wins.
LastThatClaims(profiles, host, path) == SelectLastInSeq(profiles, LAMBDA p : claims(p, host, path))

FirstThatClaims(profiles, host, path) == SelectInSeq(profiles, LAMBDA p : claims(p, host, path))

profile_for(profiles, host, path) ==
    LET index == FirstThatClaims(profiles, host, path)
    IN IF index = 0 THEN None ELSE profiles[index]
=============================================================================
