---------------------------- MODULE UpstreamCheck ----------------------------
(***************************************************************************)
(* scripts/check_upstream_methods.py: does a price table still agree with  *)
(* what Google publishes?  A discovery document is a function from         *)
(* resources, nested ones included, to their methods; a method is its verb *)
(* and its path.                                                           *)
(***************************************************************************)
EXTENDS Profiles

Method(verb, template) == [verb |-> verb, template |-> template]

\* A document that could not be fetched.
CONSTANT Unreachable

PATH_PREFIX == [gmail |-> << <<"gmail">>, <<"v1">>, <<"users">>, <<Placeholder>> >>,
                drive |-> <<>>]

EXPECTED_METHOD_COUNT == [gmail |-> 79, drive |-> 64]

TABLES == [gmail |-> METHOD_COSTS, drive |-> EXPLICIT_COSTS]

Settings(verbs, rest) == {Method(verb, << <<"settings">> >> \o rest) : verb \in verbs}

\* The Gmail methods that have no price.  Drive has no such list.
UNPRICED_BASELINE ==
    LET id   == <<Placeholder>>
        cse  == << <<"cse">>, <<"identities">> >>
        keys == << <<"cse">>, <<"keypairs">> >>
        mime == << <<"sendAs">>, id, <<"smimeInfo">> >>
    IN Settings({"GET", "POST"}, cse) \cup Settings({"DELETE", "GET", "PATCH"}, cse \o <<id>>)
       \cup Settings({"GET", "POST"}, keys) \cup Settings({"GET"}, keys \o <<id>>)
       \cup UNION {Settings({"POST"}, keys \o << <<Placeholder, verb>> >>) :
                     verb \in {"disable", "enable", "obliterate"}}
       \cup Settings({"GET", "POST"}, mime) \cup Settings({"DELETE", "GET"}, mime \o <<id>>)
       \cup Settings({"POST"}, mime \o <<id, <<"setDefault">> >>)

methods_in(document) == UNION {document[resource] : resource \in DOMAIN document}

\* The methods with the prefix of the API taken off their paths.
Normalised(methods, prefix) ==
    {IF prefix # <<>> /\ Under(m.template, prefix)
     THEN Method(m.verb, SubSeq(m.template, Len(prefix) + 1, Len(m.template)))
     ELSE m : m \in methods}

Priced(table) == {Method(e.method, e.template) : e \in ToSet(table)}

\* Bug: nobody looks for prices of methods that are gone.
StaleIsFine(table, upstream) == {}

Stale(table, upstream) == Priced(table) \ upstream

\* Bug: only new methods are looked for, not those that found a price.
OnlyNew(unpriced) == {unpriced \ UNPRICED_BASELINE}

\* The two differences from the recorded list.
Differences(unpriced) == {unpriced \ UNPRICED_BASELINE, UNPRICED_BASELINE \ unpriced}

\* Bug: nobody counts.
CountIsFine(api, document) == FALSE

CountDiffers(api, document) == Cardinality(methods_in(document)) # EXPECTED_METHOD_COUNT[api]

\* What compare counts is only ever compared with zero.
compare(api, table, document) ==
    LET upstream == Normalised(methods_in(document), PATH_PREFIX[api])
    IN \/ Stale(table, upstream) # {}
       \/ CountDiffers(api, document)
       \/ /\ api = "gmail"
          /\ \E difference \in Differences(upstream \ Priced(table)) : difference # {}

\* The exit status: whether anything differs or could not be fetched.
main(tables, documents) ==
    IF \E api \in DOMAIN tables :
          \/ documents[api] = Unreachable
          \/ documents[api] # Unreachable /\ compare(api, tables[api], documents[api])
    THEN 1 ELSE 0
=============================================================================
