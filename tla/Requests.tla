------------------------------ MODULE Requests ------------------------------
(***************************************************************************)
(* What a request says on the wire, and to whom: RequestMethods of         *)
(* yieldfrom_t/urllib3/request.py, PoolManager.urlopen and                 *)
(* ProxyManager.urlopen, and what HTTPConnectionPool.urlopen does with     *)
(* URLs and headers; what comes back of the response's headers.            *)
(*                                                                         *)
(* One request at a time.  Requests share nothing here but the header      *)
(* dicts, and no step writes one that another could see (DictsUntouched).  *)
(* Connections and retries are ConnectionPool's and PoolManager's.         *)
(***************************************************************************)
EXTENDS Urls, HeaderDict, Multipart

CONSTANTS
    Clients,       \* "pool", "manager", "proxy": whose methods are called
    Homes,         \* URLs that a pool is made from
    ProxyUrl,      \* of a ProxyManager
    Targets,       \* URLs that callers ask for
    Locations,     \* where responses redirect to
    CallerDicts,   \* headers that a caller may pass
    DefaultDict,   \* headers that a client was made with
    ProxyDict,     \* proxy_headers
    FieldLists,    \* fields that a caller may pass
    Boundaries,    \* multipart_boundary, or what uuid4 gives
    ResponseLines, \* header lines of a response
    HopBound,      \* redirects followed
    Absent,        \* no headers argument
    Null           \* headers=None

(* A proxy that is itself reached by TLS is left out: see the README. *)
ASSUME RequestConstants ==
    /\ Clients \subseteq {"pool", "manager", "proxy"}
    /\ DOMAIN ProxyUrl = DOMAIN NoUrl /\ ProxyUrl.scheme = <<"http">>
    /\ None # <<"https">>
    /\ {None, Absent, Null} \cap {"defaults", "caller", "proxy", "managed", "kw", "copy"} = {}
    /\ Absent # Null
    /\ HopBound \in Nat

(* The redirects that Join is about: urljoin takes a path that begins with *)
(* two slashes for a host, resolves dots in one, and leaves out an empty   *)
(* query or fragment.                                                      *)
ASSUME LocationsJoin ==
    \A u \in Locations :
        /\ u.query # << >> /\ u.fragment # << >>
        /\ u.host = None =>
              /\ u.path # None
              /\ \A i \in DOMAIN u.path : /\ u.path[i] \notin {".", ".."}
                                          /\ i = 2 => u.path[i] # "/"

NoDict == [name \in {} |-> << >>]

VARIABLES
    client,   \* whose method is called
    home,     \* the pool, if the client is one
    dicts,    \* the dicts there are, by who made them
    at,       \* where the call is
    asked,    \* what its caller passed
    call,     \* the arguments of the urlopen calls under way
    meant,    \* the URLs meant: the one asked for, then the redirects
    message,  \* what was sent last
    answer    \* the response to it

vars == <<client, home, dicts, at, asked, call, meant, message, answer>>

(***************************************************************************)
(*   called    manager.urlopen called                                      *)
(*   pooled    pool.urlopen called                                         *)
(*   open      past its checks: it asks for a connection                   *)
(*   refused   HostChangedError                                            *)
(*   raised    LocationValueError, LocationParseError or ValueError        *)
(***************************************************************************)
Places == {"idle", "called", "pooled", "open", "sent", "answered", "refused", "raised"}

(* Dicts that others hold: self.headers, the caller's, the proxy's, and *)
(* the headers of a manager's pools, which it makes without any.        *)
Shared == {"defaults", "caller", "proxy", "managed"}

(* Made for the call: by request() or _set_proxy_headers, by pool.urlopen. *)
Own == {"kw", "copy"}

NoCall    == [text |-> None, method |-> None, body |-> None, kw |-> Absent,
              pool |-> None, line |-> None, headers |-> Absent]
NoAsked   == [way |-> None, given |-> FALSE, fields |-> << >>, boundary |-> None]
NoMessage == [peer |-> None, tunnel |-> None, connect |-> NoDict, method |-> None,
              line |-> None, headers |-> NoDict, body |-> None]
NoAnswer  == [status |-> None, lines |-> << >>, headers |-> NoHeaders, location |-> NoUrl]

Init ==
    /\ client \in Clients
    /\ home \in IF client = "pool" THEN Homes ELSE {NoUrl}
    /\ \E caller \in CallerDicts :
          dicts = [defaults |-> DefaultDict, caller |-> caller, proxy |-> ProxyDict,
                   managed |-> NoDict, kw |-> NoDict, copy |-> NoDict]
    /\ at = "idle" /\ asked = NoAsked /\ call = NoCall
    /\ meant = << >> /\ message = NoMessage /\ answer = NoAnswer
-----------------------------------------------------------------------------
(***************************************************************************)
(* RequestMethods.                                                         *)
(***************************************************************************)

(* {name: value}, and d.update(e) *)
Entry(name, value) == [n \in {name} |-> value]

Updated(d, e) ==
    [name \in DOMAIN d \cup DOMAIN e |-> IF name \in DOMAIN e THEN e[name] ELSE d[name]]

UrlEncode(fields) ==
    FlattenSeq([i \in DOMAIN fields |->
        <<fields[i].name, "=">> \o FlattenSeq(fields[i].data) \o <<"&">>])

(* What a caller means by the URL it passes. *)
Meant(target) ==
    IF target.host # None THEN target
    ELSE [home EXCEPT !.path = target.path, !.query = target.query, !.fragment = target.fragment]

(* A pool takes paths too; a ProxyManager's `url must be absolute'. *)
Usable(target) ==
    CASE client = "pool"    -> target.scheme # None \/ target.host = None
      [] client = "manager" -> target.host # None
      [] client = "proxy"   -> target.scheme # None

(* The client's own urlopen is called. *)
Urlopen(text, method, body, headers) ==
    /\ call' = [NoCall EXCEPT
                   !.text = text, !.method = method, !.body = body, !.kw = headers,
                   !.pool = IF client = "pool" THEN PoolOfUrl(Text(home)) ELSE None,
                   !.line = text, !.headers = headers]
    /\ at' = IF client = "pool" THEN "pooled" ELSE "called"
    /\ UNCHANGED <<client, home, message, answer>>

HeadersArgument(given, otherwise) == IF given THEN "caller" ELSE otherwise

AskUrlopen(target, given) ==
    /\ at = "idle" /\ Usable(target)
    /\ Urlopen(Text(target), "GET", None, HeadersArgument(given, Absent))
    /\ asked' = [NoAsked EXCEPT !.way = "urlopen", !.given = given]
    /\ meant' = <<Meant(target)>>
    /\ UNCHANGED dicts

(* request() with GET: it passes headers=None on.  The fields go behind    *)
(* whatever the URL ends in, so callers who pass some give a plain path.   *)
RequestEncodeUrl(target, given, fields) ==
    /\ at = "idle" /\ Usable(target)
    /\ fields # << >> => target.query = None /\ target.fragment = None
    /\ Urlopen(Text(target) \o IF fields = << >> THEN << >> ELSE <<"?">> \o UrlEncode(fields),
               "GET", None, HeadersArgument(given, Null))
    /\ asked' = [NoAsked EXCEPT !.way = "encode_url", !.given = given, !.fields = fields]
    /\ meant' = <<IF fields = << >> THEN Meant(target)
                  ELSE [Meant(target) EXCEPT !.query = UrlEncode(fields)]>>
    /\ UNCHANGED dicts

MultipartType(boundary) == <<"multipart/form-data", boundary>>

EncodeBodyInPlace(headers, type) ==
    dicts' = [dicts EXCEPT ![headers] = Updated(@, Entry("Content-Type", type)),
                           !["kw"] = Updated(Entry("Content-Type", type), dicts[headers])]

(* headers_: what is given takes precedence over the type of the body. *)
EncodeBodyHeaders(headers, type) ==
    dicts' = [dicts EXCEPT !["kw"] = Updated(Entry("Content-Type", type), dicts[headers])]

(* request() with POST; encode_multipart=False is boundary = None. *)
RequestEncodeBody(target, given, fields, boundary) ==
    /\ at = "idle" /\ Usable(target)
    /\ EncodeBodyHeaders(HeadersArgument(given, "defaults"),
                         IF boundary = None THEN <<"application/x-www-form-urlencoded">>
                         ELSE MultipartType(boundary))
    /\ Urlopen(Text(target), "POST",
               IF boundary = None THEN <<UrlEncode(fields)>> ELSE Encode(fields, boundary), "kw")
    /\ asked' = [way |-> "encode_body", given |-> given, fields |-> fields, boundary |-> boundary]
    /\ meant' = <<Meant(target)>>
-----------------------------------------------------------------------------
(***************************************************************************)
(* The managers.                                                           *)
(***************************************************************************)
Proxy == [ProxyUrl EXCEPT !.port = Or(@, PortByScheme(ProxyUrl.scheme))]

SetProxyHeadersOnly(text, headers) ==
    Updated(Entry("Accept", <<"*/*">>), Entry("Host", Netloc(Parse(text))))

(* _set_proxy_headers: `Only sets headers not provided by the user.' *)
SetProxyHeaders(text, headers) ==
    LET netloc == Netloc(Parse(text))
        host   == IF Or(netloc, None) = None THEN NoDict ELSE Entry("Host", netloc)
    IN  Updated(Updated(Entry("Accept", <<"*/*">>), host), headers)

(* The request is for a plain proxy: it is sent the whole URL. *)
PlainProxied(u) == client = "proxy" /\ u.scheme = <<"http">>

ManagerPool(u) ==
    IF client = "proxy" /\ u.scheme # <<"https">> THEN ManagedPool(Proxy) ELSE ManagedPool(u)

NoHostIn(u) == Or(u.host, None) = None /\ ~(client = "proxy" /\ u.scheme # <<"https">>)

(* urlopen of a manager, up to its call of the pool's. *)
Manage ==
    LET u     == Parse(call.text)
        given == IF call.kw = Absent THEN "defaults" ELSE call.kw
        kw    == IF PlainProxied(u) THEN "kw" ELSE given
    IN
    /\ at = "called"
    /\ IF Malformed(call.text) \/ NoHostIn(u)
       THEN at' = "raised" /\ UNCHANGED <<call, dicts>>
       ELSE /\ at' = "pooled"
            /\ call' = [call EXCEPT !.pool = ManagerPool(u), !.kw = kw, !.headers = kw,
                            !.line = IF PlainProxied(u) THEN call.text ELSE RequestUri(u)]
            /\ dicts' = IF ~PlainProxied(u) THEN dicts
                        ELSE [dicts EXCEPT !["kw"] =
                                 SetProxyHeaders(call.text, IF given = Null THEN NoDict ELSE dicts[given])]
    /\ UNCHANGED <<client, home, asked, meant, message, answer>>
-----------------------------------------------------------------------------
(***************************************************************************)
(* The pool's urlopen.                                                     *)
(***************************************************************************)

(* Pools of a ProxyManager know the proxy and its headers. *)
PoolProxyHeaders == IF client = "proxy" THEN dicts["proxy"] ELSE NoDict

PoolHeaders == IF client = "pool" THEN "defaults" ELSE "managed"

MergeInPlace(headers) ==
    IF call.pool.scheme = <<"http">>
    THEN /\ dicts' = [dicts EXCEPT ![headers] = Updated(@, PoolProxyHeaders)]
         /\ call' = [call EXCEPT !.headers = headers]
    ELSE UNCHANGED dicts /\ call' = [call EXCEPT !.headers = headers]

(* "We have to copy the headers dict so we can safely change it." *)
MergeProxyHeaders(headers) ==
    IF call.pool.scheme = <<"http">>
    THEN /\ dicts' = [dicts EXCEPT !["copy"] = Updated(dicts[headers], PoolProxyHeaders)]
         /\ call' = [call EXCEPT !.headers = "copy"]
    ELSE UNCHANGED dicts /\ call' = [call EXCEPT !.headers = headers]

(* Only a pool that is called directly asserts that it is on its host. *)
Open ==
    LET parsed == client = "pool" /\ ~BeginsAtSlash(call.line) IN
    /\ at = "pooled"
    /\ CASE parsed /\ Malformed(call.line) ->
              at' = "raised" /\ UNCHANGED <<call, dicts>>
         [] parsed /\ ~Malformed(call.line) /\ ~IsSameHost(call.pool, call.line) ->
              at' = "refused" /\ UNCHANGED <<call, dicts>>
         [] OTHER ->
              /\ at' = "open"
              /\ MergeProxyHeaders(IF call.headers \in {Absent, Null} THEN PoolHeaders
                                   ELSE call.headers)
    /\ UNCHANGED <<client, home, asked, meant, message, answer>>

(* http.client fills in the port. *)
Address(pool) == [host |-> pool.host, port |-> Or(pool.port, PortByScheme(pool.scheme))]

(* An HTTPS pool that has a proxy connects to it and sets up a tunnel. *)
Tunnelled(pool) == client = "proxy" /\ pool.scheme = <<"https">>

Peer(pool) == IF Tunnelled(pool) THEN Address(ManagedPool(Proxy)) ELSE Address(pool)

(* conn.request, on a connection that _new_conn and _prepare_conn made now *)
(* or for an earlier request.                                              *)
Send ==
    LET tunnelled == Tunnelled(call.pool) IN
    /\ at = "open"
    /\ at' = "sent"
    /\ message' = [peer    |-> Peer(call.pool),
                   tunnel  |-> IF tunnelled THEN Address(call.pool) ELSE None,
                   connect |-> IF tunnelled THEN PoolProxyHeaders ELSE NoDict,
                   method  |-> call.method,
                   line    |-> call.line,
                   headers |-> dicts[call.headers],
                   body    |-> call.body]
    /\ UNCHANGED <<client, home, dicts, asked, call, meant, answer>>
-----------------------------------------------------------------------------
(***************************************************************************)
(* Responses and redirects.                                                *)
(***************************************************************************)

(* from_httplib and HTTPResponse.__init__ *)
ResponseHeaders(lines) == Update(NoHeaders, FromLines(lines))

Location == [field |-> "location", spelling |-> "Location"]

Respond(status, lines, location) ==
    /\ at = "sent"
    /\ at' = "answered"
    /\ answer' = [status |-> status, lines |-> lines, headers |-> ResponseHeaders(lines),
                  location |-> location]
    /\ UNCHANGED <<client, home, dicts, asked, call, meant, message>>

Answers == \E lines \in ResponseLines : Respond("ok", lines, NoUrl)

(* 303 is see_other; the other redirect statuses are alike. *)
Redirects(location) ==
    /\ Len(meant) <= HopBound
    /\ \E status \in {"redirect", "see_other"} :
          Respond(status, <<[name |-> Location, value |-> Text(location)]>>, location)

(* get_redirect_location *)
RedirectLocation ==
    IF answer.status \in {"redirect", "see_other"} THEN Item(answer.headers, Location) ELSE None

(* urljoin, for locations that are URLs or absolute paths. *)
Join(base, location) ==
    LET slashes == SchemeEnd(base) + 2
        path    == FirstOf(After(base, slashes), {"/", "?", "#"})
    IN  IF SchemeEnd(location) # 0 \/ SchemeEnd(base) = 0 THEN location
        ELSE (IF path = 0 THEN base ELSE Before(base, slashes + path)) \o location

(* What RFC 3986 resolves it to. *)
Resolved(base, location) ==
    IF location.host # None THEN location
    ELSE [base EXCEPT !.path = location.path, !.query = location.query,
                      !.fragment = location.fragment]

(* A pool goes on with its copy of the headers, a manager with kw; the     *)
(* body goes along, also where 303 turns the method into GET.              *)
Follow ==
    /\ at = "answered" /\ RedirectLocation # None
    /\ LET method == IF answer.status = "see_other" THEN "GET" ELSE call.method IN
       IF client = "pool"
       THEN /\ call' = [call EXCEPT !.method = method, !.text = RedirectLocation,
                                    !.line = RedirectLocation]
            /\ at' = "pooled"
       ELSE /\ call' = [call EXCEPT !.method = method, !.text = Join(@, RedirectLocation)]
            /\ at' = "called"
    /\ meant' = Append(meant, Resolved(Last(meant), answer.location))
    /\ message' = NoMessage /\ answer' = NoAnswer
    /\ UNCHANGED <<client, home, dicts, asked>>

(* No response, and retries are left: the pool's urlopen calls itself. *)
TryAgain ==
    /\ at = "sent"
    /\ at' = "pooled"
    /\ message' = NoMessage
    /\ UNCHANGED <<client, home, dicts, asked, call, meant, answer>>

(* The caller has its response, a redirect too if it passed redirect=False, *)
(* or an exception.                                                         *)
Return ==
    /\ at \in {"answered", "refused", "raised"}
    /\ at' = "idle"
    /\ dicts' = [ref \in DOMAIN dicts |-> IF ref \in Own THEN NoDict ELSE dicts[ref]]
    /\ asked' = NoAsked /\ call' = NoCall /\ meant' = << >>
    /\ message' = NoMessage /\ answer' = NoAnswer
    /\ UNCHANGED <<client, home>>
-----------------------------------------------------------------------------
Next ==
    \/ \E target \in Targets, given \in BOOLEAN :
          \/ AskUrlopen(target, given)
          \/ \E fields \in FieldLists :
                \/ RequestEncodeUrl(target, given, fields)
                \/ \E boundary \in Boundaries \cup {None} :
                      RequestEncodeBody(target, given, fields, boundary)
    \/ Manage \/ Open \/ Send
    \/ Answers \/ \E location \in Locations : Redirects(location)
    \/ Follow \/ TryAgain \/ Return

Spec == Init /\ [][Next]_vars
-----------------------------------------------------------------------------
TypeOK ==
    /\ at \in Places
    /\ client \in Clients
    /\ DOMAIN dicts = Shared \cup Own
    /\ call.kw \in DOMAIN dicts \cup {Absent, Null}
    /\ at = "open" => call.headers \in DOMAIN dicts
    /\ at = "open" => (call.headers = "copy") = (call.pool.scheme = <<"http">>)
    /\ Len(meant) <= HopBound + 1
    /\ (at = "idle") = (meant = << >>)
    /\ (message # NoMessage) = (at \in {"sent", "answered"})

(* Where a URL is, by RFC 3986 and the default ports, brackets left off. *)
Endpoint(u) ==
    LET scheme == Or(u.scheme, <<"http">>) IN
    [scheme |-> scheme,
     host   |-> IF Head(u.host) = "[" THEN SubSeq(u.host, 2, Len(u.host) - 1) ELSE u.host,
     port   |-> IF u.port # None THEN u.port ELSE IF scheme = <<"https">> THEN <<"443">> ELSE <<"80">>]

AddressOf(u) == [host |-> Endpoint(u).host, port |-> Endpoint(u).port]

Resource(u) == Or(u.path, <<"/">>) \o IF u.query = None THEN << >> ELSE <<"?">> \o u.query

WithoutFragment(text) ==
    LET hash == FirstOf(text, {"#"}) IN IF hash = 0 THEN text ELSE Before(text, hash)

(***************************************************************************)
(* A manager takes apart what it is given, and what urljoin makes of       *)
(* redirects, into the URL that is meant (an empty path may be none); put  *)
(* together again it is the same text (url.py:47-50, "should more or less  *)
(* round-trip").                                                           *)
(***************************************************************************)
ParsesAsMeant ==
    at = "called" /\ Last(meant).scheme # None /\ ~Malformed(call.text) =>
        /\ [Parse(call.text) EXCEPT !.path = Or(@, None)] = Last(meant)
        /\ Text(Parse(call.text)) = call.text

(***************************************************************************)
(* Whoever is asked, over redirects, each message goes to the host and     *)
(* port of the URL meant, or through the proxy to them, and asks there for *)
(* its path and query: the whole URL at a plain proxy (poolmanager.py:137  *)
(* and 178-183).                                                           *)
(***************************************************************************)
ReachesTarget ==
    at = "sent" =>
        LET u      == Last(meant)
            line   == WithoutFragment(message.line)
            secure == Endpoint(u).scheme = <<"https">>
            whole  == WithoutFragment(Text(u))
        IN CASE client = "pool" ->
                  /\ message.peer = AddressOf(u) /\ message.tunnel = None
                  /\ line \in {Resource(u), whole}
             [] client = "manager" ->
                  /\ message.peer = AddressOf(u) /\ message.tunnel = None
                  /\ line = Resource(u)
             [] client = "proxy" /\ secure ->
                  /\ message.peer = AddressOf(ProxyUrl) /\ message.tunnel = AddressOf(u)
                  /\ line = Resource(u)
             [] client = "proxy" /\ ~secure ->
                  /\ message.peer = AddressOf(ProxyUrl) /\ message.tunnel = None
                  /\ line = whole

(***************************************************************************)
(* A pool that is called directly sends nothing meant for another host,    *)
(* scheme or port, redirects included, and refuses nothing else, whichever *)
(* of them names the default port (connectionpool.py:380-397).  It does    *)
(* refuse its own host if that is an IPv6 address: its brackets are gone.  *)
(***************************************************************************)
StaysOnHost ==
    client = "pool" =>
        /\ at \in {"open", "sent"} => Endpoint(Last(meant)) = Endpoint(home)
        /\ at = "refused" => \/ Endpoint(Last(meant)) # Endpoint(home)
                             \/ Head(home.host) = "["

(***************************************************************************)
(* Requests share the header dicts of their client, their caller and the   *)
(* proxy: none is changed for one, "without those changes being reflected  *)
(* in anyone else's copy" (connectionpool.py:498-500).                     *)
(***************************************************************************)
DictsUntouched == [][\A ref \in Shared : dicts'[ref] = dicts[ref]]_vars

(***************************************************************************)
(* "Headers to include with all requests, unless other headers are given   *)
(* explicitly" (request.py:40-42, poolmanager.py:42-44).                   *)
(***************************************************************************)
ChosenHeaders == IF asked.given THEN dicts["caller"] ELSE dicts["defaults"]

(* request() with fields in the body makes the Content-Type itself. *)
EncodedHeaders == IF asked.way = "encode_body" THEN {"Content-Type"} ELSE {}

MadeHeaders ==
    EncodedHeaders \cup (IF client = "proxy" THEN {"Accept", "Host"} \cup DOMAIN ProxyDict ELSE {})

(* Every header that was chosen goes along unchanged, but for those that   *)
(* the proxy's or the body's are to replace.                               *)
Include(chosen) ==
    \A name \in DOMAIN chosen \ (DOMAIN ProxyDict \cup EncodedHeaders) :
        name \in DOMAIN message.headers /\ message.headers[name] = chosen[name]

(***************************************************************************)
(* What was chosen goes along, after any redirects and retries, and no     *)
(* header that was neither chosen nor made.  GET by request() of a manager *)
(* without headers is excepted: HeadersAsDocumented is about it.           *)
(***************************************************************************)
HeadersAsChosen ==
    at = "sent" =>
        /\ asked.given \/ asked.way # "encode_url" \/ client = "pool" => Include(ChosenHeaders)
        /\ DOMAIN message.headers \subseteq DOMAIN ChosenHeaders \cup MadeHeaders

BodyType ==
    IF asked.boundary = None THEN <<"application/x-www-form-urlencoded">>
    ELSE MultipartType(asked.boundary)

(* "Headers to include with all requests, unless other headers are given   *)
(* explicitly" (poolmanager.py:42-44, request.py:40-42).                   *)
DefaultsIncluded == ~asked.given => Include(DefaultDict)

(* "if headers are supplied, the 'Content-Type' header will be overwritten *)
(* because it depends on the dynamic random boundary string"               *)
(* (request.py:122-125).                                                   *)
ContentTypeOverwritten ==
    asked.way = "encode_body" /\ asked.given => message.headers["Content-Type"] = BodyType

(***************************************************************************)
(* What the docs say of the headers of each request.  Both are refuted: a  *)
(* manager has no defaults for the headers=None that request() passes on   *)
(* with GET, and a Content-Type that is supplied is put over the body's.   *)
(***************************************************************************)
HeadersAsDocumented == at = "sent" => DefaultsIncluded /\ ContentTypeOverwritten

(***************************************************************************)
(* proxy_headers are sent to the proxy with each plain request, and only   *)
(* with CONNECT for the others: never to the target, whatever redirects    *)
(* lead from the one to the other (poolmanager.py:188-192).                *)
(***************************************************************************)
ProxyHeadersGoToProxy ==
    at = "sent" /\ client = "proxy" =>
        LET plain == message.tunnel = None IN
        /\ \A name \in DOMAIN ProxyDict :
              (name \in DOMAIN message.headers /\ message.headers[name] = ProxyDict[name]) = plain
        /\ message.connect = IF plain THEN NoDict ELSE ProxyDict

(***************************************************************************)
(* The Host that a ProxyManager sets names the host and port of the URL    *)
(* asked for.  It is kept over redirects: this holds until one of them     *)
(* leads elsewhere (poolmanager.py:238-251).                               *)
(***************************************************************************)
HostNamesTarget ==
    at = "sent" /\ "Host" \in DOMAIN message.headers \ DOMAIN ChosenHeaders
    /\ (\A i \in DOMAIN meant : Endpoint(meant[i]) = Endpoint(Last(meant))
                               /\ meant[i].port = Last(meant).port) =>
        message.headers["Host"] =
            Last(meant).host \o IF Last(meant).port = None THEN << >> ELSE <<":">> \o Last(meant).port

(***************************************************************************)
(* A server that takes the boundary from the Content-Type finds the fields *)
(* in the body as they were passed: unless the caller or the client has a  *)
(* Content-Type of its own, or a boundary that is fixed occurs in the data *)
(* (request.py:122-125).                                                   *)
(***************************************************************************)
FieldsArrive ==
    LET lines == UNION {Range(asked.fields[i].data) : i \in DOMAIN asked.fields} IN
    at = "sent" /\ asked.boundary # None /\ "Content-Type" \notin DOMAIN ChosenHeaders
    /\ {Delimiter(asked.boundary), LastDelimiter(asked.boundary)} \cap lines = {} =>
        Decode(message.body, message.headers["Content-Type"][2])
            = [i \in DOMAIN asked.fields |-> Given(asked.fields[i])]

(***************************************************************************)
(* All lines of a response are there, in whatever spelling: a field gives  *)
(* its values in their order, joined or (if none is a list) as a list, and *)
(* iterating gives each field once, as first spelt (_collections.py:101).  *)
(***************************************************************************)
HeadersSurvive ==
    \A line \in Range(answer.lines) :
        LET same   == LinesOf(answer.lines, line.name.field)
            values == [i \in DOMAIN same |-> same[i].value]
        IN  /\ Item(answer.headers, line.name) = FlattenSeq(values)
            /\ (\A i \in DOMAIN values : Len(values[i]) = 1) =>
                  GetList(answer.headers, line.name) = values
            /\ {name \in Names(answer.headers) : name.field = line.name.field} = {same[1].name}
            /\ Equal(answer.headers, FromLines(answer.lines))
=============================================================================
