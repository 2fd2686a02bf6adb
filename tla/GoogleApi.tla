------------------------------ MODULE GoogleApi ------------------------------
(***************************************************************************)
(* The other side, written from what Google publishes and the tests quote: *)
(* the methods of the three APIs, the meter that counts each of them and   *)
(* the units it counts.  No price and no method here is read from the      *)
(* profiles: they are written down a second time, method by method.        *)
(*                                                                         *)
(* A request is a record.  The library sees its method, host, path and     *)
(* query; meter and price are Google's.                                    *)
(***************************************************************************)
EXTENDS Profiles, RunningSums

Request(method, host, path, query, meter, price) ==
    [method |-> method, host |-> host, path |-> path, query |-> query,
     meter |-> meter, price |-> price]

NoMeter == <<"none", "none">>

\* A template with every placeholder filled in.
Filled(template, id) ==
    [i \in DOMAIN template |->
        IF template[i][1] = Placeholder THEN id \o Tail(template[i]) ELSE template[i]]

Id == <<Placeholder>>

Sheets(method, rest, bucket) ==
    Request(method, "sheets.googleapis.com", << <<"v4">>, <<"spreadsheets">> >> \o rest, {},
            <<"sheets", bucket>>, 1)

Drive(method, rest, query, price) ==
    Request(method, "www.googleapis.com", << <<"drive">>, <<"v3">> >> \o rest, query,
            <<"drive", "units">>, price)

Gmail(method, rest, price) ==
    Request(method, "gmail.googleapis.com", << <<"gmail">>, <<"v1">>, <<"users">>, Id >> \o rest, {},
            <<"gmail", "units">>, price)

\* Every method of Sheets v4; three reads are POSTed.
SheetsMethods ==
    {Sheets("GET", rest, "read") : rest \in
        {<<Id>>, <<Id, <<"values">>, Id>>, <<Id, <<"values", "batchGet">> >>,
         <<Id, <<"developerMetadata">>, Id>>}}
    \cup
    {Sheets("POST", rest, "read") : rest \in
        {<< <<Placeholder, "getByDataFilter">> >>, <<Id, <<"values", "batchGetByDataFilter">> >>,
         <<Id, <<"developerMetadata", "search">> >>}}
    \cup
    {Sheets("POST", rest, "write") : rest \in
        {<<>>, << <<Placeholder, "batchUpdate">> >>,
         <<Id, <<"sheets">>, <<Placeholder, "copyTo">> >>}
        \cup {<<Id, <<"values">>, <<Placeholder, verb>> >> : verb \in {"append", "clear"}}
        \cup {<<Id, <<"values", verb>> >> : verb \in
                {"batchUpdate", "batchClear", "batchUpdateByDataFilter", "batchClearByDataFilter"}}}
    \cup {Sheets("PUT", <<Id, <<"values">>, Id>>, "write")}

DriveAt(price, verb, paths) == {Drive(verb, p, {}, price) : p \in paths}

\* The 64 methods of Drive v3 at the prices of the published table: 100 for a list,
\* 5 for a read, 200 for a download and 50 for whatever creates, changes, removes,
\* hides or watches.
DriveMethods ==
    LET file     == <<"files", "{}">>
        reply    == file \o <<"comments", "{}", "replies">>
        approval == Plain(file) \o << <<"approvals">> >>
        proposal == Plain(file) \o << <<"accessproposals">> >>
        InAFile  == {file \o <<part>> : part \in {"comments", "permissions", "revisions"}} \cup {reply}
        Items(collections) == {c \o <<"{}">> : c \in collections}
        PlainAll(paths) == {Plain(p) : p \in paths}
    IN DriveAt(100, "GET", PlainAll(InAFile
            \cup {<<"files">>, <<"apps">>, <<"changes">>, <<"drives">>, <<"teamdrives">>}
            \cup {file \o <<part>> : part \in {"listLabels", "approvals", "accessproposals"}}))
       \cup DriveAt(5, "GET", PlainAll(Items(InAFile)
            \cup Items({<<"files">>, <<"apps">>, <<"drives">>, <<"teamdrives">>, <<"operations">>,
                        file \o <<"approvals">>, file \o <<"accessproposals">>})
            \cup {<<"about">>, <<"changes", "startPageToken">>, <<"files", "generateIds">>,
                  <<"files", "generateCseToken">>}))
       \cup DriveAt(200, "GET", PlainAll({file \o <<"export">>}))
       \cup DriveAt(200, "POST", PlainAll({file \o <<"download">>}))
       \cup DriveAt(50, "POST", PlainAll((InAFile \ {file \o <<"revisions">>})
            \cup {<<"files">>, <<"drives">>, <<"teamdrives">>, <<"changes", "watch">>, <<"channels", "stop">>}
            \cup {file \o <<verb>> : verb \in {"copy", "modifyLabels", "watch"}}
            \cup {<<"drives", "{}", verb>> : verb \in {"hide", "unhide"}}))
       \cup DriveAt(50, "POST",
            {approval \o << <<Placeholder, verb>> >> :
                verb \in {"approve", "cancel", "comment", "decline", "reassign"}}
            \cup {Plain(file) \o << <<"approvals", "start">> >>,
                  proposal \o << <<Placeholder, "resolve">> >>})
       \cup UNION {DriveAt(50, verb, PlainAll(Items(InAFile \cup {<<"files">>, <<"drives">>, <<"teamdrives">>}))) :
                     verb \in {"PATCH", "DELETE"}}
       \cup DriveAt(50, "DELETE", PlainAll({<<"files", "trash">>}))

\* Two ways to call them that have a price or a path of their own: the content of a
\* file, and an upload.
DriveContent ==
    {Drive("GET", << <<"files">>, Id >>, {"alt=media"}, 200),
     [Drive("POST", <<>>, {}, 50) EXCEPT
         !.path = << <<"upload">>, <<"drive">>, <<"v2">>, <<"files">> >>]}

GmailAt(price, verb, paths) == {Gmail(verb, Plain(p), price) : p \in paths}

\* The 63 methods of Gmail v1 that have a published price.
GmailMethods ==
    LET setting(rest)    == <<"settings">> \o rest
        settings(names)  == {setting(<<name>>) : name \in names}
        item(collection) == collection \o <<"{}">>
        draft   == <<"drafts", "{}">>
        label   == <<"labels", "{}">>
        message == <<"messages", "{}">>
        thread  == <<"threads", "{}">>
        sendAs  == <<"settings", "sendAs", "{}">>
        shared  == settings({"delegates", "filters", "forwardingAddresses"})
    IN GmailAt(1, "GET", {<<"profile">>, <<"labels">>, label, sendAs}
            \cup shared \cup {item(c) : c \in shared}
            \cup settings({"autoForwarding", "imap", "language", "pop", "sendAs", "vacation"}))
       \cup GmailAt(2,   "GET", {<<"history">>})
       \cup GmailAt(5,   "GET", {<<"drafts">>, <<"messages">>})
       \cup GmailAt(10,  "GET", {<<"threads">>})
       \cup GmailAt(20,  "GET", {draft, message, message \o <<"attachments", "{}">>})
       \cup GmailAt(40,  "GET", {thread})
       \cup GmailAt(5,   "POST", {<<"labels">>, message \o <<"modify">>, message \o <<"untrash">>,
                                 setting(<<"filters">>)})
       \cup GmailAt(10,  "POST", {<<"drafts">>, thread \o <<"modify">>, thread \o <<"untrash">>})
       \cup GmailAt(20,  "POST", {message \o <<"trash">>, thread \o <<"trash">>})
       \cup GmailAt(25,  "POST", {<<"messages">>, <<"messages", "import">>})
       \cup GmailAt(50,  "POST", {<<"messages", "batchDelete">>, <<"messages", "batchModify">>, <<"stop">>})
       \cup GmailAt(100, "POST", {<<"drafts", "send">>, <<"messages", "send">>, <<"watch">>,
                                 sendAs \o <<"verify">>}
            \cup settings({"delegates", "forwardingAddresses", "sendAs"}))
       \cup GmailAt(5,   "PUT", {label} \cup settings({"autoForwarding", "imap", "language", "vacation"}))
       \cup GmailAt(15,  "PUT", {draft})
       \cup GmailAt(100, "PUT", {setting(<<"pop">>), sendAs})
       \cup GmailAt(5,   "PATCH", {label})
       \cup GmailAt(100, "PATCH", {sendAs})
       \cup GmailAt(5,   "DELETE", {label, sendAs} \cup {item(c) : c \in shared})
       \cup GmailAt(10,  "DELETE", {draft, message})
       \cup GmailAt(20,  "DELETE", {thread})

\* Requests that none of the three APIs counts.
UnmeteredRequests ==
    {Request("POST", "oauth2.googleapis.com", << <<"token">> >>, {}, NoMeter, 0),
     Request("GET", "www.googleapis.com", << <<"calendar">>, <<"v3">>, <<"calendars">>, Id >>, {},
             NoMeter, 0)}

Weight(meter, arrival) == IF arrival.request.meter = meter THEN arrival.request.price ELSE 0

Weights(meter, arrivals) == [k \in 1..Len(arrivals) |-> Weight(meter, arrivals[k])]

\* What a meter has counted after each of the arrivals.
Counted(meter, arrivals) == Sums(Weights(meter, arrivals), Len(arrivals))

\* No meter counts more than its limit within its window.
MetersKeep(meters, arrivals) ==
    \A m \in DOMAIN meters :
        LET counted == Counted(m, arrivals)
        IN \A i, j \in 1..Len(arrivals) :
              (i <= j /\ arrivals[j].at - arrivals[i].at < meters[m].window)
                  => counted[j] - counted[i - 1] <= meters[m].limit
=============================================================================
