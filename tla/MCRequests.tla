----------------------------- MODULE MCRequests -----------------------------
EXTENDS RequestsProofs

Http  == [NoUrl EXCEPT !.scheme = <<"http">>, !.host = <<"a">>]
Https == [Http EXCEPT !.scheme = <<"https">>]
IPv6  == [Http EXCEPT !.host = <<"[", ":", ":", "1", "]">>]

MCHomes == {Http, [Http EXCEPT !.port = <<"80">>], [Https EXCEPT !.port = <<"443">>], IPv6}

MCProxyUrl == [Http EXCEPT !.host = <<"p">>, !.port = <<"1">>]

(* Each component is given and not given; a path alone; no scheme. *)
MCTargets ==
    {[Http EXCEPT !.path = <<"/", "x">>],
     [Https EXCEPT !.query = <<"q", "?", "/">>],
     [IPv6 EXCEPT !.port = <<"80">>, !.path = <<"/">>, !.fragment = <<"f", "?">>],
     [NoUrl EXCEPT !.path = <<"/", "x">>],
     [NoUrl EXCEPT !.host = <<"a">>, !.port = <<"80">>]}

MCLocations ==
    {[Https EXCEPT !.path = <<"/">>],
     [Http EXCEPT !.port = <<"1">>, !.auth = <<"u", ":", "1">>, !.path = <<"/", "@">>],
     [Http EXCEPT !.port = <<"a">>],
     [NoUrl EXCEPT !.path = <<"/", "y">>, !.query = <<"q">>]}

MCCallerDicts ==
    {"X" :> <<"caller">>, "Content-Type" :> <<"caller">> @@ "Host" :> <<"caller">>}

MCDefaultDict == "X" :> <<"default">> @@ "Y" :> <<"default">>

MCProxyDict == "Authorization" :> <<"proxy">>

Field(name, form, filename, type, data) ==
    [name |-> name, form |-> form, filename |-> filename, type |-> type, data |-> data]

(* The first data has an empty line, and one that looks like a delimiter. *)
MCFieldLists ==
    {<< >>,
     <<Field("n", "data", "", "", << <<"--", "b">>, << >> >>),
       Field("m", "file", "i.png", "", << >>),
       Field("cafe-acute", "typed", "q\"", "text/plain", << <<"v">> >>)>>}

MCUnquotable == {"cafe-acute", "q\""}
MCKnownTypes == "i.png" :> "image/png"

Line(field, spelling, value) ==
    [name |-> [field |-> field, spelling |-> spelling], value |-> value]

MCResponseLines ==
    {<< >>,
     <<Line("set-cookie", "Set-Cookie", <<"c1">>), Line("x", "X", <<"v">>),
       Line("set-cookie", "set-cookie", <<"c2">>)>>,
     <<Line("accept", "Accept", <<"v1", "v2">>), Line("accept", "Accept", <<"v3">>)>>}

(* The theorems about URLs and about the proxy's headers are about such a *)
(* caller and proxy.                                                      *)
ASSUME InstanceIsWellFormed ==
    UrlsAreWellFormed /\ ProxyNamesApart /\ "Host" \notin DOMAIN ProxyDict
=============================================================================
