------------------------------ MODULE PathTable ------------------------------
(***************************************************************************)
(* profiles/matching.py: looking up a price by HTTP method and path.       *)
(*                                                                         *)
(* A path is the sequence of its segments, and a segment the tuple of what *)
(* stands between its colons: A1:B2 is <<"A1", "B2">>.  In a template the  *)
(* part "{}" stands for a placeholder: {id} is <<"{}">> and {id}:disable   *)
(* is <<"{}", "disable">>.                                                 *)
(***************************************************************************)
EXTENDS SequencesExt, LetterCase

CONSTANT None \* Python's None

Placeholder == "{}"

\* The segments of a path in which no colon occurs.
Plain(names) == [i \in DOMAIN names |-> <<names[i]>>]

Entry(method, template, value) ==
    [method |-> method, template |-> template, value |-> value]

\* _compile turns {id} into None, which matches any segment, {id}:verb into a
\* suffix and everything else into a text that must be equal.
MatchesAny(matcher) == matcher = <<Placeholder>>

SegmentMatches(matcher, segment) ==
    \/ MatchesAny(matcher)
    \/ /\ matcher[1] = Placeholder
       /\ Len(segment) > 1 /\ Last(segment) = Last(matcher)
    \/ segment = matcher

TemplateMatches(template, segments) ==
    \A i \in DOMAIN template : SegmentMatches(template[i], segments[i])

\* Entries are grouped by method and number of segments.
Shape(method, segments) == <<upper(method), Len(segments)>>

Candidates(entries, shape) ==
    {i \in DOMAIN entries : Shape(entries[i].method, entries[i].template) = shape}

Specificity(template) == Cardinality({i \in DOMAIN template : ~MatchesAny(template[i])})

\* Bug: candidates stay in the order of the table.
InTableOrder(entries, i, j) == i < j

\* The order of the stable sort: more literals first, then the order of the table.
MostSpecificFirst(entries, i, j) ==
    LET literals(k) == Specificity(entries[k].template)
    IN literals(i) > literals(j) \/ (literals(i) = literals(j) /\ i < j)

\* Candidates in the order that the sort of __init__ leaves them in: at each place
\* the one with as many before it.
Sorted(entries, candidates) ==
    LET Before(i) == {j \in candidates : MostSpecificFirst(entries, j, i)}
    IN [n \in 1..Cardinality(candidates) |->
           CHOOSE i \in candidates : Cardinality(Before(i)) = n - 1]

lookup(entries, method, segments) ==
    LET sorted == Sorted(entries, Candidates(entries, Shape(method, segments)))
        hits   == {n \in DOMAIN sorted : TemplateMatches(entries[sorted[n]].template, segments)}
    IN IF hits = {} THEN None ELSE entries[sorted[Min(hits)]].value

\* What a lookup promises: the value of the matching template with the most
\* literals, the earliest of equals, or None, but only if nothing matches.
FindsTheBest(entries, method, segments) ==
    LET fits    == {i \in DOMAIN entries :
                      /\ upper(entries[i].method) = upper(method)
                      /\ Len(entries[i].template) = Len(segments)
                      /\ TemplateMatches(entries[i].template, segments)}
        Rank(i) == Specificity(entries[i].template)
        found   == lookup(entries, method, segments)
    IN IF fits = {} THEN found = None
       ELSE \E best \in fits :
               /\ found = entries[best].value
               /\ \A i \in fits : Rank(i) < Rank(best) \/ (Rank(i) = Rank(best) /\ i >= best)

\* Bug: the last marker counts.
LastIndex(path, marker) == SelectLastInSeq(path, LAMBDA segment : segment = marker)

FirstIndex(path, marker) == SelectInSeq(path, LAMBDA segment : segment = marker)

\* What follows a marker and the identifier after it, or None if nothing does.
path_segments(path, after) ==
    LET index == FirstIndex(path, after)
    IN IF index = 0 \/ index + 2 > Len(path) THEN None
       ELSE SubSeq(path, index + 2, Len(path))
=============================================================================
