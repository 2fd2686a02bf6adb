---------------------------- MODULE MCQuotaLimiter ----------------------------
(***************************************************************************)
(* GoogleMeters for TLC on the shipped profiles, with the facts about      *)
(* tables and prices that need no state.                                   *)
(***************************************************************************)
EXTENDS GoogleMeters, UpstreamCheck

Shipped == <<SHEETS, DRIVE, GMAIL>>

\* Two profiles of a user: one with a longer window, one on the host of Drive.
Legacy   == ApiProfile("legacy", "legacy.googleapis.com", {}, [units |-> 1], Minute + 1)
Calendar == ApiProfile("calendar", "www.googleapis.com", {<< <<"calendar">> >>},
                       [units |-> 10], Minute)

SmallLimits == <<with_limits(SHEETS, [read |-> 2]),
                 with_limits(DRIVE, [units |-> 200]),
                 with_limits(GMAIL, [units |-> 100]),
                 Legacy>>

\* What Google counts: the limits the user asked for, on the windows of Google.
SmallMeters ==
    [m \in {<<"sheets", "read">>, <<"sheets", "write">>, <<"drive", "units">>,
            <<"gmail", "units">>, <<"legacy", "units">>} |->
        CASE m = <<"sheets", "read">>  -> [limit |-> 2, window |-> Minute]
          [] m = <<"sheets", "write">> -> [limit |-> 60, window |-> Minute]
          [] m = <<"drive", "units">>  -> [limit |-> 200, window |-> Minute]
          [] m = <<"gmail", "units">>  -> [limit |-> 100, window |-> Minute]
          [] OTHER                     -> [limit |-> 1, window |-> Minute + 1]]

WithId(request, id) == [request EXCEPT !.path = Filled(@, id)]

LegacyCall == Request("GET", "legacy.googleapis.com", << <<"v1">> >>, {}, <<"legacy", "units">>, 1)

\* Gmail methods without a published price are charged as much as the dearest that
\* have one.
GmailUnpriced == {Gmail(m.verb, m.template, 100) : m \in UNPRICED_BASELINE}

\* A choice of methods in which every rule of the resolvers is used.
SomeRequests ==
    {WithId(r, <<"x">>) : r \in
        {Sheets("get", <<Id, <<"values">>, Id>>, "read"),
         Sheets("POST", <<Id, <<"values", "batchGetByDataFilter">> >>, "read"),
         Sheets("POST", <<Id, <<"values">>, <<Placeholder, "append">> >>, "write"),
         Drive("GET", << <<"files">> >>, {}, 100),
         Drive("GET", << <<"files">>, Id >>, {"alt=media"}, 200),
         Drive("GET", << <<"files">>, Id >>, {"fields=alt=media"}, 5),
         Drive("POST", << <<"files">>, Id, <<"download">> >>, {}, 200),
         Gmail("GET", << <<"threads">>, Id >>, 40),
         Gmail("POST", << <<"settings">>, <<"cse">>, <<"keypairs">> >>, 100),
         LegacyCall} \cup UnmeteredRequests}

-----------------------------------------------------------------------------
\* Facts about tables and prices, which no step can change: the initial state is
\* where they are looked at.

\* Identifiers, some of which are also names of methods, collections or versions.
Ids == {<<"x">>, <<"send">>, <<"import">>, <<"export">>, <<"download">>, <<"settings">>,
        <<"files">>, <<"drive">>, <<"v3">>, <<"users">>, <<"A1", "B2">>}

PublishedRequests ==
    {WithId(r, id) : r \in SheetsMethods \cup DriveMethods \cup DriveContent
                             \cup GmailMethods \cup GmailUnpriced,
                     id \in Ids}

RouteThrough(profiles, request) ==
    LET profile == profile_for(profiles, request.host, request.path)
        charge  == resolve(profile, request.method, request.path, request.query)
    IN IF profile = None THEN None
       ELSE [profile |-> profile, bucket |-> charge.bucket, cost |-> charge.cost]

\* The limiter covers the meters: the buckets that the profiles build have the
\* limits and the windows that Google counts by, and each request is routed to the
\* bucket of its meter at no less than its price.
LimiterCoversMeters == Init => CoversTheMeters

\* Every published method is charged to the bucket of the meter that counts it and
\* at exactly its price, whatever stands in its placeholders; what nobody meters
\* is not charged.
AsThePriceListSays == Init =>
    /\ \A r \in PublishedRequests :
          LET route == RouteThrough(Shipped, r)
          IN /\ route # None
             /\ <<route.profile.name, route.bucket>> = r.meter
             /\ route.cost = r.price
    /\ \A r \in UnmeteredRequests : RouteThrough(Shipped, r) = None

\* Profiles that share a host share no request: their order does not matter.
OrderDoesNotMatter == Init =>
    LET profiles == Append(Shipped, Calendar)
    IN \A r \in {WithId(r, <<"x">>) : r \in DriveMethods \cup DriveContent \cup UnmeteredRequests} :
          \A p, q \in DOMAIN profiles :
             /\ claims(profiles[p], r.host, r.path)
             /\ claims(profiles[q], r.host, r.path)
             => p = q

\* All tables of up to three templates over few matchers.
Matchers   == {<<"a">>, <<Placeholder>>, <<Placeholder, "v">>}
Templates  == {<<m>> : m \in Matchers} \cup (Matchers \X Matchers)
SmallTable(rows) == [i \in DOMAIN rows |-> Entry(rows[i].method, rows[i].template, i)]
Rows       == {[method |-> "GET", template |-> t] : t \in Templates}
                \cup {[method |-> "POST", template |-> <<Id, Id>>]}
SmallTables == {SmallTable(rows) : rows \in
                    {rows \in Rows \X Rows \X Rows : IsInjective(rows)}}
Segments   == {<<"a">>, <<"b">>, <<"b", "v">>}
SmallPaths == {<<s>> : s \in Segments} \cup (Segments \X Segments)

\* A lookup finds the matching template with the most literals, the earliest of
\* equals, and None only if nothing matches, in whatever order the table lists them.
MostSpecificWins == Init =>
    \A table \in SmallTables, method \in {"GET", "get", "POST"}, path \in SmallPaths :
        FindsTheBest(table, method, path)

\* What Google publishes, as the discovery documents list it, methods that may
\* arrive, and rows that may be added to a table.
Below(r, n) == SubSeq(r.path, n + 1, Len(r.path))

Recorded == [gmail |-> {Method(r.method, PATH_PREFIX.gmail \o Below(r, 4)) :
                          r \in GmailMethods \cup GmailUnpriced},
             drive |-> {Method(r.method, Below(r, 2)) : r \in DriveMethods}]
Arrived  == [gmail |-> {Method("GET", PATH_PREFIX.gmail \o << <<"new">> >>),
                        Method("PUT", PATH_PREFIX.gmail \o << <<"messages">>, <<Placeholder>> >>)},
             drive |-> {Method("GET", << <<"new">> >>),
                        Method("PUT", << <<"files">>, <<Placeholder>>, <<"download">> >>)}]
AddedRow == {Entry("POST", << <<"settings">>, <<"cse">>, <<"keypairs">> >>, 5),
             Entry("GET", << <<"message">>, <<Placeholder>> >>, 20)}

Document(methods) == [users |-> methods]

\* The scheduled run passes on what Google publishes now, and fails as soon as a
\* method of either API comes or goes, one of Gmail or a priced one of Drive is
\* swapped for another, a price is added for a method that has none or does not
\* exist, or a document cannot be read.
DriftFailsTheRun == Init =>
    LET tables    == TABLES
        documents == [api \in DOMAIN Recorded |-> Document(Recorded[api])]
        Fails(api, methods) == main(tables, [documents EXCEPT ![api] = Document(methods)]) = 1
    IN /\ main(tables, documents) = 0
       /\ \A api \in DOMAIN documents :
             /\ main(tables, [documents EXCEPT ![api] = Unreachable]) = 1
             /\ \A new \in Arrived[api] : Fails(api, Recorded[api] \cup {new})
             /\ \A gone \in Recorded[api] :
                   /\ Fails(api, Recorded[api] \ {gone})
                   /\ (api = "gmail" \/ gone \in Priced(EXPLICIT_COSTS)) =>
                         \A new \in Arrived[api] : Fails(api, (Recorded[api] \ {gone}) \cup {new})
       /\ \A row \in AddedRow :
             main([tables EXCEPT !.gmail = Append(@, row)], documents) = 1
=============================================================================
