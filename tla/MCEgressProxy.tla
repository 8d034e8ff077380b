--------------------------- MODULE MCEgressProxy ----------------------------
(* An instance of EgressProxy for TLC.  The port "1" stands for port 80.   *)
EXTENDS EgressProxy

Name     == <<"h">>       \* resolves to a public or to a private address
Loopback == <<"1">>       \* a literal
Fixture  == <<"h", "h">>
MCRunId  == <<"h", "1">>

Header(name, value) == [name |-> name, value |-> value]

Authorization(user) ==
    Header("proxy-authorization", [scheme |-> "basic", decoded |-> user \o <<":", "h">>])

RequestHead(method, form, authority, lines) ==
    [large |-> FALSE, method |-> method, version |-> TRUE, lines |-> lines,
     target |-> [form |-> form, authority |-> authority, long |-> FALSE]]

\* A tunnel to a name, a request whose first host header is a fixture, and one with the
\* credentials of another run.
MCRequests ==
    {RequestHead("CONNECT", "other", Name \o <<":", "1">>, <<None, Authorization(MCRunId)>>),
     RequestHead("GET", "origin", <<>>,
                 <<Header("host", Fixture), Header("content-length", <<" ", "1">>),
                   Header("host", Loopback), Authorization(MCRunId)>>),
     RequestHead("GET", "absolute", Name, <<Authorization(Name)>>)}

Loopbacks == {Loopback}
Fixtures == {Fixture}
=============================================================================
