# Verification of yieldfrom_t.urllib3

TLA+ modules, TLC configurations and TLAPS proofs for the trollius port of
urllib3 in `yieldfrom_t/urllib3/`: a connection pool, retry policy, pool manager
and response object used by coroutines of one event loop. Paths below are
relative to `yieldfrom_t/urllib3/`.

## 1. The system

| Component | State | Operations | Talks to |
|---|---|---|---|
| `Retry` (`util/retry.py`) | immutable counts `total, connect, read, redirect`, backoff data | `from_int, increment, is_exhausted, get_backoff_time, sleep` | called by both `urlopen`s; each increment makes a new object |
| `HTTPConnectionPool` (`connectionpool.py`) | `pool`, a LIFO queue of connections and `None` placeholders, or `None` once closed | `urlopen, _get_conn, _put_conn, _make_request, close` | tasks suspended in it; connections; `Retry`; `HTTPResponse` |
| `HTTPResponse` (`response.py`) | the stream, the decoder, the cached body, the connection it still holds | `init, read, data, stream, readinto, release_conn, close` | `_put_conn` of the pool, http.client's response |
| `PoolManager`, `ProxyManager` (`poolmanager.py`) | `pools` by (scheme, host, port) | `connection_from_host, clear, urlopen` with redirects | the container, pools' `urlopen` and `close` |
| `RecentlyUsedContainer` (`_collections.py`) | an `OrderedDict` under a lock | get, set with eviction, delete, clear | calls `dispose_func` (pool `close`) outside the lock |
| HTTPS connections (`connection.py`) | socket, tunnel, what is to be checked of the peer | `connect`, `set_cert` | made by `_new_conn` of the HTTPS pool |
| `Timeout` (`util/timeout.py`) | three values and a clock | `connect_timeout, read_timeout, start_connect, clone` | cloned for each attempt |
| `HTTPHeaderDict` (`_collections.py`) | case-insensitive multi-map | `add, getlist, update, ...` | headers of a response |
| `Url`, `is_same_host` (`util/url.py`, `connectionpool.py:380-397`) | none | `parse_url, get_host` | `urlopen` with `assert_same_host`, managers |
| `RequestMethods` (`request.py`), `fields`, `filepost` | default headers, shared by all requests | encode fields into a URL or a body, call `urlopen` | `urlopen` of pools and managers |

How they interact. A caller's coroutine calls `PoolManager.urlopen`, which looks
a pool up (making, and perhaps evicting, one) and calls the pool's `urlopen`.
That takes an element of the queue, a connection or a placeholder for one, makes
the request, and in its `finally` clause puts the connection, or a placeholder
if the connection is gone, back. Errors, forced retries and redirects are
recursive calls with a smaller `Retry`; the manager follows redirects to other
hosts itself. A response that was not preloaded keeps the connection until it
is read to the end or released.

What is hard here:

* **Interleaving.** Coroutines are suspended at every `yield From`, and trollius
  starts the operand of one as a task of its own, so also *between* the call of
  a coroutine and its first line. A pool can be closed, a manager cleared, a slot
  taken by another task, at all of these points.
* **Three places release a connection**: the `finally` clause, the response at
  its end, the caller. Each slot must go back exactly once.
* **Failure.** Each attempt may fail before it has a slot (pool timeout), with
  one, while sending, receiving or preloading, or be cancelled anywhere; each
  `except` clause treats the connection differently.
* **Retries** mix four counters with `None` (no limit) and `False` (do not retry,
  let it through).
* **Shared dicts.** The headers of a client, a caller and a proxy are ordinary
  dicts that many requests use; each request adds some of its own, and redirects
  lead it between places that want different ones.
* **Resources**: the queue may be full or closed when a connection comes back,
  the manager's container may overflow, a pooled connection may be dead.

### What makes each component correct

* `Retry`: no more retries than any limit allows; `MaxRetryError` only when one
  is used up; backoff never shrinks.
* Pool: a connection serves one request at a time; at most `maxsize` in use if
  `block`; slots conserved; no socket left open outside the pool; a closed pool
  lends nothing; requests end.
* Response: the reads give the body, whichever calls are mixed; the end gives the
  connection back; `data` keeps its value.
* Requests: each message goes to the host, port and resource that are meant, with
  the headers that were chosen and the body that was given; what is for the proxy
  stays with the proxy; no dict that others hold is changed.
* Manager: bounded number of pools, none leaked, none handed out that it closed;
  LRU eviction; redirects bounded.

## 2. Modules

| Module | Models | Role |
|---|---|---|
| `RetryPolicy` | `util/retry.py` | operators: `Incremented` (`increment`), `IsExhausted`, `Verdict` (which of retry / `MaxRetryError` / re-raise), `FromInt`, `BackoffTime` |
| `RetryBudget` | one request's sequence of `increment` calls | state machine over `RetryPolicy` |
| `ConnectionPool` | `connectionpool.py`, `util/connection.py` and the release of responses | tasks, queue, sockets; EXTENDS `RetryPolicy`, so that each task carries a `Retry` |
| `ConnectionLending` | what a blocking pool promises | abstract specification, implemented by `ConnectionPool` (`Lending`, `LendsOneAtATime`) |
| `RecentlyUsed` | `_collections.py:26-98` | operators on an ordered dict |
| `PoolManager` | `poolmanager.py` | tasks, pools and redirects; EXTENDS `RecentlyUsed` and `RetryPolicy` |
| `ResponseBody` | `response.py` | one response, its stream and decoder |
| `Urls` | `util/url.py`, the pools' identity and `is_same_host` | operators on texts of tokens |
| `HeaderDict` | `_collections.py:101-199` | operators: `Add`, `Update`, `Item`, `GetList`, `Names` |
| `Multipart` | `fields.py`, `filepost.py` | `Encode`, with a reference `Decode` that finds parts by their delimiter |
| `Requests` | `request.py`, `urlopen` of both managers, and what the pool's `urlopen` does with URLs and headers | one request after the other, with redirects; EXTENDS `Urls`, `HeaderDict`, `Multipart` |
| `Timeouts` | `util/timeout.py`, and its use in `_get_timeout` and `_make_request` | attempts of several tasks that share a `Timeout` |
| `MC*` | - | instances for TLC; `MCBothPools` has two pools, one that blocks and one that grows |
| `RetryBudgetProofs`, `ConnectionPoolProofs`, `PoolManagerProofs`, `ResponseBodyProofs`, `RequestsProofs`, `TimeoutsProofs` | - | theorems about these modules, and their proofs |
| `UrlsProofs` | - | what `Urls` makes of the text of any URL; extended by `RequestsProofs` |
| `SequenceLemmas` | - | lemmas on sequences, joins of them, and functions defined by recursion |

### State and actions against the code

**ConnectionPool.** `queue` is `self.pool.queue` (last in, first out), `closed` is
`self.pool is None`, `conn[t]` is the local `conn` of `urlopen` or `_connection`
of the response a caller holds, `pc[t]` is the `yield From` a task is suspended
at, `sock[c]` the socket behind a connection: `none`, `idle`, `busy` (a response is
outstanding) or `dropped` (readable between requests, which
`is_connection_dropped` takes for closed). `Request`, `Enter`, `TakeSlot`,
`PoolTimeoutFires` are `urlopen` up to the end of `_get_conn`; `Send`, `Receive`,
`ReceiveHead`, `Preload` are `_make_request` and `from_httplib`; each `Fail*`
stands for a group of `except` clauses together with the `finally` clause;
`Cancel` is `CancelledError` thrown in at a suspension point. `Put` is `_put_conn`,
and `Answered` is everything after the `finally` clause: redirect, forced retry
or return. The recursive call is a jump back to `start`, because the outer
frames only pass the result on.

**PoolManager.** `pools` is the `OrderedDict`, `status[p]` says whether the pool is
open, closed by the manager, or shut by a user. `Find` and `Make` are
`connection_from_host`, which holds the container's lock from lookup to
insertion; `Make` also closes the evicted pool, and fails when its user has
already closed it (the second `close()` raises `AttributeError`). `since` is history:
the keys looked up after each key was, which says what *least recently used* means
without a look at the order of the dict. `Enter` is the
later moment at which the pool's `_get_conn` looks at its queue. `Redirect`
handles a redirect after the pool's `urlopen` has returned. `KeyOf` is
`ProxyManager.connection_from_host`: plain HTTP shares the proxy's pool.

**ResponseBody.** `pos` and `ended` are http.client's position and `isclosed()`;
`decoder` is `_decoder`, with `trying` for `_first_try`; `body` is `_body`. The
stream is a sequence of tokens: header bytes, content bytes 1..n, and one bad byte.
A zlib object rejects a header only once it has both bytes of it, which is what
makes the fallback of `DeflateDecoder` interesting. `Stream` is a whole iteration of
`stream(amt)`, `ReadInto` is `readinto`, which goes past `read()`: `taken` is what it took.

**Requests.** `dicts` are the header dicts by who made them: the client's own, the
caller's, the proxy's, those of a manager's pools, and the two a call makes for
itself (`kw` by `request()` or `_set_proxy_headers`, `copy` by the pool). `call` has the
arguments of the calls under way, which name a dict and do not copy it, so that
an update in place shows. `AskUrlopen`, `RequestEncodeUrl` and `RequestEncodeBody` are
the ways to ask; `Manage` is `PoolManager.urlopen` or `ProxyManager.urlopen` up to the
call of the pool's, `Open` the pool's up to `_get_conn`, `Send` `conn.request`; `Follow`
a redirect by whoever follows it, with `urljoin` in a manager; `TryAgain` the pool's
recursive call after an error. `meant` is history: what RFC 3986 says the URL is,
against which the messages are judged. `Urls` takes a text apart as `parse_url` does,
token by token in the code's order (scheme, path, auth, host, port, fragment,
query); the properties take the records it should find, so that the model does not
check the parser against itself. One request is under way at a time: the dicts are
all that requests share here, and `DictsUntouched` says none is written.

**Timeouts.** `given` are the objects callers and pools have, `started` their
`_start_connect` and those of the clones, `own[t]` and `object[t]` the clone of the
attempt, `timeout[t]` is `conn.timeout`, `since[t]` and `begun[t]` when the wait and the
attempt began. `Begin` is `_make_request` up to its first `yield From`, `Sent` the
lines between `conn.request` and `conn.getresponse`. A connection that is open
already, and the tunnel of a proxied one, are in `sending`: no timeout of the code
applies there. `Answered`, `TimesOut` and `Fails` end the attempt; a retry is another
`Begin` with the same object.

**RetryBudget.** `initial` is what the caller passed, `granted` counts the retries
by kind of event; `Increment` is one failed attempt or answer, `Answer` the final
response.

## 3. Runs

TLC must find no error in these:

| Run | Question | Bounds |
|---|---|---|
| `retry_budget` | Are all limits honoured under any order of events? | totals 0, 1, 3, `False`; limits by kind below, at and above them, `None` and `False` |
| `pools` | Are slots, sockets and connections conserved when tasks share two slots of a blocking pool, and errors, retries, redirects, a dead peer and `close()` interfere? Do extra connections of a pool that does not block get closed? | blocking: 3 tasks, maxsize 2, one retry or `retries=False`; not blocking: 2 tasks, maxsize 2, `pool_timeout` set, one retry; 5 connections, preloading |
| `pool_streaming` | With three places that release, does the pool implement `ConnectionLending`? Is nothing lent after `close()`? | 2 tasks, maxsize 1, all four (`preload_content`, `release_conn`), behind a proxy; callers release early or forget |
| `pool_cancelled` | With cancellation at any point and a `pool_timeout` that may fire, is a slot ever lost, and does each request end? | 2 tasks, maxsize 1, `pool_timeout` possible, fairness |
| `manager` | Bounded, leak-free LRU of pools; redirects bounded by the total | 2 tasks, 2 pools kept, 3 hosts of which 2 have pools of their own and one goes through the proxy's, 4 pool identities, `retries=1`, `clear()` and user `close()` |
| `response_body` | Are `read`, `stream`, `readinto` and `data` faithful for every cut of the stream and every mix? Does the end release the connection? | bodies of up to 3 bytes, reads of 0, 1, 2 or all bytes, 5 encodings |
| `requests` | Does each message go where it is meant to, with the headers and fields that were chosen, over redirects and retries? Are shared dicts left alone? Do a response's headers survive? | a pool, a manager and a proxy manager; 4 homes of the pool (default port named or not, HTTPS, IPv6); 5 targets that have each component of a URL or not; 4 redirect locations, `HopBound` 2 redirects; 2 caller dicts, one with `Host` and `Content-Type`; no fields, or three with a name and a filename that must be quoted and data that looks like a delimiter; 2 boundaries or url-encoding; 3 lists of response lines |
| `timeouts` | Is every attempt's clock its own? Do the waits keep the total and their own limits? | 2 tasks with one `Timeout`; limits 1, 3, none, the system's (2); totals 0, 2, none; times up to 4 |

These find what the documentation says and the code does not do; each states a
sentence of the repository and TLC shows the counterexample:

| Run | Sentence | What happens |
|---|---|---|
| `pool_phantom_slot` | "no more than maxsize connections will be used at a time" (connectionpool.py:110) | A request that timed out waiting puts a placeholder back that it never took. |
| `pool_closed_waiters` | "the call will block until a connection has been released" (connectionpool.py:111) | `close()` leaves waiting tasks on a queue nothing reaches. |
| `manager_redirects` | "How many redirects to perform. Limit this to avoid infinite redirect loops." (util/retry.py:67) | A manager never counts a redirect as one. |
| `requests_headers` | "Headers to include with all requests, unless other headers are given explicitly." (poolmanager.py:42-44, request.py:40-42); "if headers are supplied, the 'Content-Type' header will be overwritten" (request.py:122) | `request()` passes `headers=None` on (request.py:70), for which a manager has no defaults: its GET goes out without them. With `Clients = {"pool"}` the same run stops at the other sentence: the Content-Type supplied is put over that of the body (request.py:137-138), and the server loses the boundary. |

### Why the bounds suffice

Two tasks on one slot already give every race for a slot, and a third task on a
second slot every race between a return and two waiters; more tasks only repeat
them (and `Exclusive`, `WithinMaxSize`, `SlotsConserved` and the others are proved
for any number). The connections are as many as slots and tasks together, which
is what `PoolConstants` asks for: `_new_conn` never runs out. One retry lets an
attempt succeed, be retried and be given up; a longer chain repeats the same
steps with a smaller `Retry`, and `RetryBudget` covers the chains themselves up to
three. The manager needs one host more than it keeps pools to evict, and a
second task to have the evicted pool in its hands; `HopBound` only caps a counter,
above the largest value any allowed run reaches. A three-byte body behind a
two-byte header is cut at every position, the header's included. The limits 1 and 3
lie on both sides of the total 2, and four units of time are enough to connect in
the total, send beyond it and wait, or to run two attempts; further attempts start
with a clone of the same object. In `requests` two redirects lead from any of the
kinds of target to any other and back: http and https, the same port and another,
a URL and a path, parsed and malformed. Each delimiter of a URL occurs where it
ends a component and inside one where it does not. Longer chains start again from
`call.text` and `call.kw` alone.

### Fairness and deadlock

`FairSpec` assumes that the event loop and the network finish what they have
begun (weak fairness of `Serve`: an operation ends in an answer or in one of the
errors, since sockets have timeouts or peers that go away), and that a waiting
getter gets its turn: trollius queues serve getters in their order of arrival, so a
task cannot be overtaken for ever (strong fairness of `TakeSlot`, because the slot
comes and goes). Nothing is assumed of `pool_timeout`, an argument of `urlopen` that
a request may leave out: in `pool_cancelled` it may fire or not, and a request must
end without its help. Nothing is assumed of disturbances, and liveness is only claimed (`RequestCompletes`) where responses are
preloaded: a caller that forgets an unread response really keeps its slot.

`CHECK_DEADLOCK FALSE` stands where the system really stops: all tasks waiting
for a closed pool (`BothPools`, `PoolClosedWaiters`), or for a slot that
forgotten responses keep (`PoolStreaming`), a request that has been answered (`MCRetryBudget`), a response
whose construction raised (`MCResponseBody`). In the other pool runs, in the
manager's and in `requests`, the absence of deadlock is checked.

## 4. Proofs

`RetryBudgetProofs`, for any `Starts` made of `Retry` objects that are not already
overdrawn: `BudgetTypeCorrect`, `TotalIsHonoured`, `KindsAreHonoured`, `ExhaustionIsReal`.
The limits alone are not inductive; the invariant `Account` ties the current
count to the initial one (`retry.total + granted = initial.total`, and so for each
kind), from which the limits follow because the current count is never below zero
when a retry is granted. `BackoffIsMonotone` says that each wait is at least as long as
the one before and none longer than the cap. The provers know no powers; `2 ^ n` is what
the library counts the subsets of `1..n` to be, and more numbers have more subsets
(`PowersGrow`). The assumption is `RetryConstants`.

`ConnectionPoolProofs`, from `PoolConstants` alone, so for any number of tasks and
connections and any set of modes, responses and disturbances unless named:

| Theorem | Under | Says |
|---|---|---|
| `TypeCorrect` | - | a task has a connection exactly in `sending`, `receiving`, `reading` and `response` |
| `Exclusivity` | - | no connection is shared, pooled while in use, or pooled twice |
| `PatientWithinMaxSize` | `Patient` | at most `maxsize` in use |
| `NoSlotLost` | all modes release | no slot is lost, timeouts and cancellation included |
| `PatientConservesSlots` | `Patient`, all modes release | exactly `maxsize` slots |
| `ClosedLendsNothing` | `Block` | nothing is lent after `close()` |
| `PatientLends` | `Patient` | the pool implements `ConnectionLending`, step by step |
| `CarefulLeaksNothing` | `Careful` | every open socket is in the pool or in use |
| `PatientFloodsNobody` | `Patient`, `Careful` | no more sockets than `maxsize` |

`Patient` is `Block /\ ~PoolTimeout` and no cancellation. It is needed:
`pool_phantom_slot` is the counterexample with a timeout. The argument has one
case analysis, the lemma `Moves`: under `TypeOK` and `OnlyStreamsHold` (only a
response that urlopen did not release keeps a connection) every step of the
pool is one of a few *moves* of slots: a return, a loan, an extra connection, a
phantom put, a close, or nothing that concerns them. Each invariant
(`Exclusive`, `SlotBound`, `ClosedIsEmpty`, `BorrowersBound`) is then carried over the
moves and not over the eighteen actions again. `WithinMaxSize` is not inductive
after a close, where the queue says nothing of the slots in use; that is what
`ClosedIsEmpty` and `BorrowersBound` are for.

`Careful` is a use in which no connection is forgotten on the way: nobody is
cancelled, and a streaming request gets no redirect, retry or dropped response.
These are the losses listed under *Differences met*, so the theorem says that they
are the only ones. Its lemma `Accounted` follows the sockets through each move: what
leaves the queue or a task has been closed first, or is where the socket goes.
`NoFlood` then needs no invariant of its own: the sockets are where connections are,
and `BorrowersBound` counts those (`AtHand`).

`PoolManagerProofs`, from `ManagerConstants`, for any number of tasks, hosts, pools kept
and pool objects:

| Theorem | Says | By the invariant |
|---|---|---|
| `ManagerTypeCorrect`, `ManagerCapacity` | types; at most `num_pools` pools are kept | both at once: a pool to make one from is left because of the capacity |
| `TotalLimitsRedirects` | a request follows no more redirects than its total allows | `BudgetKept`: followed and left together are at most the total |
| `LeastRecentlyUsedGoes` | the pool evicted has the key that was looked up longest ago | `InOrderOfUse`: the order of the dict is the order of `since` |
| `CachedStayUsable` | a pool that is handed out was not closed by the manager | itself, with types and capacity |
| `ForgottenAreClosed` | a pool that leaves the container is closed, unless a shut one stops `clear()` | `CachedPoolsUsable`: what stops `clear()` is shut by a user, not closed twice |

The lemmas before them say what `RecentlyUsed`'s operators do to an ordered dict: a
lookup keeps keys and values and moves one to the end (`GotKeeps`), an insertion adds
one and takes out the first beyond the limit.

`ResponseBodyProofs`, from `BodyConstants`, for any body, any amounts and any order of
calls. Three theorems assume that the program's `None` is no decoder:

* `BodyTypeCorrect`, `BodyIsFaithful`: what was returned, with what the decoder still
  has, is the decoding of what was read off the wire (`Delivered`, `Decodes`), and what is
  cached is its end. The bytes returned say nothing of what the decoder holds, hence
  the invariant `BodyInv`. The core is `DeflateDecoder`: while it tries, it keeps what it
  was fed, and the fallback feeds the same to a raw decoder.
* `TellsWhatWasRead`: `tell()` is the position less what `readinto` took.
* `EndReturnsConnection`: the step that reaches the end releases the connection.
* `DataStaysWhatItWas`: `data` that was seen stays, if nobody caches over it: it is then
  in `body` (`DataIsCached`).

`SequenceLemmas` is where data of any length is reasoned about. The provers know no
induction over an operator, but the integers they know: of a set of numbers with a
member there is a least one (`LeastNumber`), so what holds at the start and is handed
on holds all the way (`Upwards`), for the set of the numbers where it fails. A
recursive function is unfolded from the existence of one, which is built
upwards in the same way (`StepByStep`). The lemmas on joins rest on these: `Flattened`,
`SinglesJoined`, and `JoinedInBlocks`, which says where each of the joined sequences is
in the whole.

`TimeoutsProofs`, from `TimeoutConstants` (the settings are made of what
`_validate_timeout` accepts): `TimeoutTypeCorrect`, `FreshClocks`, `TotalIsKept`,
`EachIsKept`, for any number of tasks and objects. The properties speak of the time
waited; what makes them inductive is `Attempt`, that `conn.timeout` is the value the
clone gave when the wait began and the clone's clock the time the attempt began,
and `Punctual`, that no wait outlasts `conn.timeout`. The latter rests on the
guard of `Tick`: http.client and the loop are taken to enforce the timeout they are
given, on time.

`RequestsProofs`, from `RequestConstants`, for any URLs, dicts, fields and number of
redirects:

* `DictsAreUntouched`: every step writes only dicts of the call's own
  (`StepsLeaveShared`), with no further assumption.
* `ProxyHeadersStayWithProxy`: plain requests carry the proxy's headers, and no
  message through a tunnel does. It assumes that these headers have names of their
  own (`ProxyNamesApart`: a caller who passes `Proxy-Authorization` itself sends it
  where it wants) and that the program's `None` is no address. The property is not
  inductive: what a redirect from http to https starts with is `kw`, so the
  invariant says which dicts never hold one of those names (`DictsApart`) and that the
  copy, which does, is only used by calls to a pool of http (`CallApart`).
* `RequestTypeCorrect`: a call names only dicts that exist, and has a copy of them
  exactly where it is plain (`CallNamed`). It assumes `NoneIsNoAddress` too.
* `ChosenHeadersAreSent`: each message has the headers that were given, or else the
  client's, and none but those and the ones the code makes, after any number of redirects
  and retries; no assumption. `HeadersAsChosen` takes `ChosenHeaders` from the
  documentation ("unless other headers are given explicitly") and makes three exceptions:
  the names of the proxy's own headers, the Content-Type of a body that `request()`
  encodes, and the headers of a manager's GET by `request()` without any. The last two are
  where the code does not do as it says: `requests_headers` refutes both sentences.
  The property speaks of the message sent; the invariant (`ChosenInv`) says of each
  dict a call can name that it *fits* what is wanted, the type of a body underneath
  the headers passed (`CallAsChosen`), that a manager's pools have no headers and that
  no pool called directly has a manager. What the code passes on (`PassedHeaders`) is
  `ChosenHeaders` but for that GET, where it is nothing.
* `FieldsAreReceived`: whatever a caller passes as fields is what a server decodes. It
  assumes that fields have names and files a type (`FieldsAreForms`: the code leaves empty
  ones out, so they cannot arrive), and that no `Content-Type` is among the proxy's
  headers. The body is kept through redirects (`BodyKept`) and `Wanted` has its type; the
  rest is a lemma, `DecodesAsGiven`, that decoding inverts encoding: the lines that
  are delimiters are the first ones of the blocks and the last line of all
  (`CutsAreStarts`), so the parts found are the blocks (`PartsAreBlocks`), and the first
  empty line of a part ends its headers (`DataAfterEmptyLine`).
* `ResponseHeadersSurvive`: whatever lines a response has (`LinesAreHeaders`: names and
  lists of words), each field gives all its values in order. The lemma is about
  `FromLines`, line by line (`HeadersOfLines`, `LinesAreKept`).

The other four theorems of `RequestsProofs` are about URLs, and rest on `UrlsProofs`:

* `TextIsParsed`: `parse_url` takes the text of a URL apart into that URL. It is for every
  record whose components keep RFC 3986's delimiters apart (`IsUrl`): no component holds the
  delimiter that ends it or an earlier one, a host is a name or an IPv6 address in
  brackets. An `@` or a `:` may stand in the auth, `/` and `?` in a query, anything in a
  fragment. Each `Take` of the code is a step of the proof: what the text before it is
  free of says where the search ends (`FirstCut`, `AuthTaken`). A text without a scheme must
  not have a `://` further on (`SchemeShows`): the code takes what precedes it for a scheme,
  as *Differences met* says.
* `StripBares`, `BaredTellApart`: a pool's host is the URL's without brackets, and tells as
  much: a name has no colon and an address has one.
* `JoinedText`: `urljoin` of a full URL and a path is the text of what the path resolves to.

With these, for any sets of homes, targets and redirects and any number of hops:

| Theorem | Says |
|---|---|
| `ManagersParseAsMeant` | a manager takes apart what is meant, after any redirects |
| `PoolsStayOnHost` | a pool sends nothing meant for another scheme, host or port, and refuses nothing else but IPv6 |
| `MessagesReachTarget` | each message goes to the host, port and resource meant, directly, by a tunnel or by the proxy |
| `HostIsNamed` | the `Host` of a proxied request names its target, as long as no redirect leads elsewhere |

They assume `UrlsAreWellFormed`: homes, the proxy, targets, with their fields or without,
and redirects are URLs in that sense, of http, https or no scheme; homes and the proxy
name theirs, and redirects are full URLs or absolute paths, which is what `Join` models. Then
`LinesAreHeaders`, so that a response's location is the one the server gave; and, for
`HostIsNamed`, no `Host` among the proxy's headers. `MCRequests` assumes the same of its
instance (`InstanceIsWellFormed`), so TLC evaluates these hypotheses on each run.

None of the four is inductive: each speaks of the URL that is parsed or the message
that is sent, and what is sent is decided several steps and a parse earlier. The
invariant `UrlInv` follows a call: every URL in `meant` may be asked for (`MeantInv`), a
manager's `call.text` is the text of the last of them (`ManagerText`), its pool and request
line are those of this URL (`ManagerLine`); a pool called directly is still the home's,
asks for a text of the URL meant, with its scheme and host or without (`PoolLine`), and
was asked for nothing elsewhere (`PoolHost`); and the message is to the call's pool with the
call's line (`SentToPool`). `HostInv` says the same of the `Host`: in each dict that the
call can name it is that of some URL meant so far (`HostFits`). TLC checked these
invariants on the instance of `requests` before they were proved.

Only model-checked are `RequestCompletes`, the statement under fairness, and the absence of
deadlock: liveness and `ENABLED` are beyond the prover. `WaitEnds`,
`RedirectLimitHonoured` and `HeadersAsDocumented` are refuted, and `WithinMaxSize` is where the pool may time out.
Everything else that a run checks is stated by a theorem, under the hypotheses named
above; `GrowingLeaksNothing` is the instance of `NoSocketLeak`, which `CarefulLeaksNothing`
states, in the second pool of `pools`.

## 5. Abstractions and what is left out

* `num_connections`, `num_requests` and logging: counters nothing reads.
* In `ConnectionPool` a host check fails or not: the answer `foreign` is a redirect to
  another host, and `HostChangedError` the end of the request. `Requests` says when.
* http.client, the event loop, zlib and the network are external, modelled as
  the code uses them. `wait_for(pool.get())` hands an element over atomically;
  cancellation between the hand-over and the assignment to `conn` is modelled
  (`Cancel`, `known`).
* The stream of a response that http.client has detached from its connection
  (`Connection: close`) is not counted as the connection's socket.
* `Timeouts` times the waits for a connection and for the head of an answer, as
  `_make_request` sets them; reads of the body are not timed.
* In `ResponseBody` one task uses a response, one call at a time.
* In `Requests` texts are made of tokens: delimiters, digits and names; a caller's
  header names are spelt one way. Encodings of characters, quoting of fields and
  percent-encoding are what they do to the fields (`Unquotable`), not to characters.
  `urljoin` is modelled for redirects to URLs and to absolute paths that it leaves as they
  are: `LocationsJoin` excludes a path that begins with `//`, which urljoin takes for
  another host, dots in one, and an empty query or fragment. TLC evaluates it on
  `MCLocations`. (A pool that is called directly joins nothing, and takes a redirect to
  `//host/path` for a path of its own host: connectionpool.py:385, 600.)
* Callers give `request()` with fields and GET a URL without query and fragment: the code puts
  `?` and the fields behind whatever the URL ends in (request.py:84).
* `CONNECT` and its headers are given with each message through a tunnel. The code
  sends them on new connections only, with the same headers.

### Not modelled

| What | Why |
|---|---|
| TLS contexts, certificates, host names in them (`connection.py:60-306`, `util/ssl_.py`, `set_cert`) | The checks are the ssl module's; the code passes constants to it and keeps one flag, `is_verified`, which only a warning reads. |
| The steps inside `connect()` and `_tunnel()` | They keep no state beyond the socket, which `ConnectionPool` has. Their failures are those of `Send`. |
| A proxy reached by TLS | An HTTPS pool for the proxy's own host makes a tunnel to it through it; `RequestConstants` excludes it. |
| Threads | The package is a port to coroutines; only the container has a lock, and no other component could be used from several threads. |
| `RequestField` objects with headers of their own | `render_headers` only formats what the caller gives. |
| `util/request.py`, `util/response.py`, `util/connection.py` beyond `is_connection_dropped` | Functions of constants or of http.client's own state. |
| `packages/`, `exceptions.py`, `__init__.py` | Vendored copies, class declarations, logging set-up. |
| `setup.py`, `hide_from_setup/` (a dummy server, tests) | Not part of the program. |
| `time.sleep` in `Retry.sleep` (util/retry.py:178) | It stops the whole loop: a delay, not another order. |
| `wait_for` cancelled while it is handed an element (connectionpool.py:209) | What then happens to the element is decided in trollius. |
| A clock that is set back (util/timeout.py:191) | No text of the repository says what should happen. |

### Differences met

These are places where the code differs from its documentation, or from what a
caller may expect, and that no run of its own states.

* Pool: `block=False` without `pool_timeout` waits for a connection
  (connectionpool.py:209, against 197-198). With `preload_content=False` an error that
  is retried loses its slot (connectionpool.py:570, against the comment at 551), and
  so does a redirect that is followed: the first response, which has the
  connection, is out of every caller's reach (connectionpool.py:600, against
  474-476). For a proxied HTTPS pool `conn.connect()` makes a coroutine
  and drops it (connectionpool.py:692); `_validate_conn` connects later, with TLS to the
  proxy before `CONNECT` (connection.py:215). A pool of an IPv6 address refuses its own
  URLs, because its host has lost the brackets that `get_host` leaves
  (connectionpool.py:397; `StaysOnHost` says so).
* Manager: it keeps handing out a pool its user has closed, and `clear()` stops at it
  (poolmanager.py:110, _collections.py:94). With `retries=False` a pool returns the
  redirect, as its doc says (connectionpool.py:443-445, 595-597), but a manager, which follows
  redirects itself, lets the `MaxRetryError` of its `increment` through
  (poolmanager.py:172). After a redirect to another host a proxied request has the first
  one's `Host`, although no user provided it (poolmanager.py:249-250, against 240-241;
  `HostNamesTarget` says until when it is right). 303 turns POST into GET and keeps the
  body (poolmanager.py:165).
* URLs: a `://` in a query of a URL without a scheme is taken for its scheme; a bracket that is
  not closed raises `ValueError`; port 0 counts as none; fragments go to a
  proxy, and to the server of a pool that is given a whole URL.
* Requests: a fixed boundary may occur in the data (`FieldsArrive` excludes it).
* Headers: `getlist` splits values that contain `, ` (_collections.py:162-165).
* Retry and timeouts: the first retry is never delayed, whatever `backoff_factor`
  (util/retry.py:163). `read_timeout` without a clock raises nothing if both limits
  are given (util/timeout.py:233, against 218-221); a `total` of `DEFAULT_TIMEOUT` passes
  validation and fails in `min` (util/timeout.py:209).
* Response: `readinto` is not counted by `tell()` (response.py:369, against 150), does not
  decode, and does not release the connection at the end; `stream(0)` of a body that is not empty does not end
  (response.py:282-285); `read(cache_content=True)` a second time caches nothing over the
  body.

## 6. Plan

Done: the retry policy, the pool with its abstract specification, the manager with
its container, the response body with all its readers, timeouts, and requests:
URLs, headers and fields; and for each the proofs of section 4. What is left:

1. A reader that is cancelled within `read()`, and one that shares the response.
2. `RequestField` objects.
