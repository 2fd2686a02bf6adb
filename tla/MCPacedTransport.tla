--------------------------- MODULE MCPacedTransport ---------------------------
(***************************************************************************)
(* PacedTransport for TLC: what clients send and what Google answers.      *)
(***************************************************************************)
EXTENDS PacedTransport, TLC

CONSTANTS a, b

Google == INSTANCE GoogleApi

Reply(status, body, hint) == [status |-> status, body |-> body, hint |-> hint]

Slow   == Reply(429, NoReasons, 3)
Quick  == Reply(429, NoReasons, None)
Vague  == Reply(429, NoReasons, NotANumber)
Drive  == Reply(403, Because("userratelimitexceeded"), None)
Daily  == Reply(403, Because("dailylimitexceeded"), None)
Broken == Reply(503, NoReasons, None)
Fine   == Reply(200, NoReasons, None)
Odd    == Reply(403, ScalarErrors, None)

AllAnswers == {Slow, Vague, Drive, Daily, Broken, Fine, Odd}
RateLimits == {Slow, Quick, Fine}
RetryOrNot == {Slow, Fine}
Unreadable == {Odd, Vague, Fine}

\* A limiter with lowered limits; that of Drive is below the cost of a listing.
SmallLimits == <<Google!with_limits(Google!SHEETS, [read |-> 2, write |-> 1]),
                 Google!with_limits(Google!DRIVE, [units |-> 60])>>

SmallMeters ==
    [m \in {<<"sheets", "read">>, <<"sheets", "write">>, <<"drive", "units">>} |->
        [limit  |-> CASE m[2] = "read" -> 2 [] m[2] = "write" -> 1 [] m[2] = "units" -> 60,
         window |-> Minute]]

Values == << <<"x">>, <<"values">>, <<"A1", "B2">> >>

Read    == Google!Sheets("get", Values, "read")
Filter  == Google!Sheets("POST", << <<"x", "getByDataFilter">> >>, "read")
Write   == Google!Sheets("POST", << <<"x">>, <<"values">>, <<"A1", "append">> >>, "write")
Listing == Google!Drive("GET", << <<"files">> >>, {}, 100)
Token   == CHOOSE r \in Google!UnmeteredRequests : r.method = "POST"

SendsOfAll     == {<<Read>>, <<Write>>, <<Token>>, <<Listing>>, <<Read, Write>>}
SendsOfReads   == {<<Read>>}
SendsOfPairs   == {<<Filter>>, <<Read, Write>>}
SendsOfBatches == {<<Read>>, <<Read, Read, Read>>}
SendsOfBoth    == {<<Write>>, <<Read, Write>>}

AnyOrder == Permutations(Sender)

\* The limiter covers the meters, so that what is promised under this condition is
\* promised of the runs.
ASSUME LimiterCoversMeters == Limiter!CoversTheMeters

\* Nothing is held up once it is paid for: time passes only while every send that
\* can leave has left.
PaidUp(s) == pc[s] = "acquire" /\ paid[s] = Len(Due(s))

PromptNext == \/ (\A s \in Sender : ~PaidUp(s)) /\ Tick
              \/ \E s \in Sender : Step(s)

PromptSpec == Init /\ [][PromptNext]_vars
=============================================================================
