-------------------------------- MODULE Urls --------------------------------
(***************************************************************************)
(* parse_url and Url of yieldfrom_t/urllib3/util/url.py, and how pools and *)
(* managers tell hosts apart by them.                                      *)
(*                                                                         *)
(* A text is a sequence of tokens: delimiters, digits and names.  So is    *)
(* every component of a Url, which is None if it is not given.             *)
(***************************************************************************)
EXTENDS Integers, Sequences, SequencesExt

CONSTANT None

(* The delimiters that parse_url looks for, and whatever else. *)
Token == STRING \cup {":", "/", "?", "#", "@", "[", "]"}

ASSUME NoneIsNoText == None \notin Seq(Token)

Digits == {"1", "80", "443"}

NoUrl == [scheme |-> None, auth |-> None, host |-> None, port |-> None,
          path |-> None, query |-> None, fragment |-> None]

(* x or y, for components: Python takes an empty text for false. *)
Or(x, y) == IF x = None \/ x = << >> THEN y ELSE x

FirstOf(text, delims) == SelectInSeq(text, LAMBDA c : c \in delims)

Before(text, i) == SubSeq(text, 1, i - 1)
After(text, i)  == SubSeq(text, i + 1, Len(text))
-----------------------------------------------------------------------------
(***************************************************************************)
(* url: the text of a Url.                                                 *)
(***************************************************************************)
Part(before, component, after) ==
    IF component = None THEN << >> ELSE before \o component \o after

Text(u) ==
    Part(<< >>, u.scheme, <<":", "/", "/">>) \o Part(<< >>, u.auth, <<"@">>)
    \o Part(<< >>, u.host, << >>) \o Part(<<":">>, u.port, << >>)
    \o Part(<< >>, u.path, << >>) \o Part(<<"?">>, u.query, << >>)
    \o Part(<<"#">>, u.fragment, << >>)

RequestUriOfPath(u) == Or(u.path, <<"/">>)

RequestUri(u) == Or(u.path, <<"/">>) \o Part(<<"?">>, u.query, << >>)

NetlocOfHost(u) == u.host

Netloc(u) == IF u.port = None THEN u.host ELSE u.host \o <<":">> \o u.port
-----------------------------------------------------------------------------
(***************************************************************************)
(* parse_url takes one component after the other off the text: what is     *)
(* taken is in url, what is left in rest.                                  *)
(***************************************************************************)
Start(text) == [url |-> NoUrl, rest |-> text, malformed |-> FALSE]

SchemeEnd(text) ==
    SelectInSeq([i \in 1..Len(text) - 2 |-> SubSeq(text, i, i + 2)],
                LAMBDA s : s = <<":", "/", "/">>)

(* What precedes the first `://', wherever that is. *)
TakeScheme(s) ==
    LET i == SchemeEnd(s.rest) IN
    IF i = 0 THEN s
    ELSE [s EXCEPT !.url.scheme = Before(s.rest, i), !.rest = SubSeq(@, i + 3, Len(@))]

TakePathAtSlash(s) ==
    LET i == FirstOf(s.rest, {"/"}) IN
    IF i = 0 THEN s
    ELSE [s EXCEPT !.url.path = SubSeq(s.rest, i, Len(s.rest)), !.rest = Before(@, i)]

(* The authority ends where the path, the query or the fragment begins. *)
TakePath(s) ==
    LET i == FirstOf(s.rest, {"/", "?", "#"}) IN
    IF i = 0 THEN s
    ELSE [s EXCEPT !.url.path = SubSeq(s.rest, i, Len(s.rest)), !.rest = Before(@, i)]

(* Up to the last @ of the authority. *)
TakeAuth(s) ==
    LET i == SelectLastInSeq(s.rest, LAMBDA c : c = "@") IN
    IF i = 0 THEN s ELSE [s EXCEPT !.url.auth = Before(s.rest, i), !.rest = After(@, i)]

(* An IPv6 host; a bracket that is not closed raises ValueError. *)
TakeBracketed(s) ==
    LET i == FirstOf(s.rest, {"]"}) IN
    CASE s.rest = << >> \/ Head(s.rest) # "[" -> s
      [] s.rest # << >> /\ Head(s.rest) = "[" /\ i = 0 -> [s EXCEPT !.malformed = TRUE]
      [] OTHER -> [s EXCEPT !.url.host = SubSeq(s.rest, 1, i), !.rest = After(@, i)]

(* The host, unless it is there, and the port, which is blank or a number *)
(* (LocationParseError).                                                  *)
TakePort(s) ==
    LET i    == FirstOf(s.rest, {":"})
        port == After(s.rest, i)
    IN  IF i = 0 THEN [s EXCEPT !.url.host = Or(@, Or(s.rest, None))]
        ELSE [s EXCEPT !.url.host = Or(@, Before(s.rest, i)), !.url.port = Or(port, None),
                       !.malformed = @ \/ \E j \in DOMAIN port : port[j] \notin Digits]

TakeFragment(s) ==
    LET path == Or(s.url.path, << >>)
        i    == FirstOf(path, {"#"})
    IN  IF i = 0 THEN s
        ELSE [s EXCEPT !.url.fragment = After(path, i), !.url.path = Before(path, i)]

TakeQuery(s) ==
    LET path == Or(s.url.path, << >>)
        i    == FirstOf(path, {"?"})
    IN  IF i = 0 THEN s
        ELSE [s EXCEPT !.url.query = After(path, i), !.url.path = Before(path, i)]

Parsed(text) ==
    TakeQuery(TakeFragment(TakePort(TakeBracketed(TakeAuth(TakePath(TakeScheme(Start(text))))))))

Parse(text) == Parsed(text).url

Malformed(text) == Parsed(text).malformed
-----------------------------------------------------------------------------
(***************************************************************************)
(* Pools, by scheme, host and port.                                        *)
(***************************************************************************)
PortByScheme(scheme) == IF scheme = <<"https">> THEN <<"443">> ELSE <<"80">>

(* http.client does not like brackets: the pool's own host has none at *)
(* either end.                                                         *)
Strip(host) ==
    LET kept == {i \in 1..Len(host) : host[i] \notin {"[", "]"}} IN
    IF kept = {} THEN << >> ELSE SubSeq(host, Min(kept), Max(kept))

Pool(scheme, host, port) == [scheme |-> scheme, host |-> Strip(host), port |-> port]

(* get_host, of a URL that is parsed; connection_from_url. *)
GetHost(u) == [scheme |-> Or(u.scheme, <<"http">>), host |-> u.host, port |-> u.port]

PoolAt(given) == Pool(given.scheme, given.host, given.port)

PoolOfUrl(text) == PoolAt(GetHost(Parse(text)))

(* connection_from_host, which fills in the port. *)
ManagedPool(u) ==
    LET scheme == Or(u.scheme, <<"http">>) IN
    Pool(scheme, u.host, Or(u.port, PortByScheme(scheme)))

AtPoolsHost(pool, given) == given.scheme = pool.scheme /\ given.host = pool.host

(* A default port that only one of them names makes no difference. *)
AtPool(pool, given) ==
    LET default == PortByScheme(given.scheme)
        port    == CASE pool.port # None /\ given.port = None -> default
                     [] pool.port = None /\ given.port = default -> None
                     [] OTHER -> given.port
    IN  given.scheme = pool.scheme /\ given.host = pool.host /\ port = pool.port

BeginsAtSlash(text) == text # << >> /\ Head(text) = "/"

(* A text that begins with a slash is taken for a path of the pool's host. *)
IsSameHost(pool, text) ==
    \/ BeginsAtSlash(text)
    \/ AtPool(pool, GetHost(Parse(text)))
=============================================================================
