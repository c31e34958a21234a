--------------------------- MODULE RequestsProofs ---------------------------
(***************************************************************************)
(* Proofs, for any clients, URLs, headers and fields: a request leaves the *)
(* header dicts alone that others hold, it is sent with the headers that   *)
(* were chosen, what is for the proxy does not reach the target, the       *)
(* headers of its response are all there, the fields of its body are       *)
(* found in it, and it goes to the host of the URL that is meant and asks  *)
(* there for its path and query.                                           *)
(***************************************************************************)
EXTENDS Requests, UrlsProofs

(* Calls make and drop dicts of their own only. *)
DictsNamed == DOMAIN dicts = Shared \cup Own

(* dict.copy() and update(), of one that is the call's own: the others, *)
(* which are there before, are there afterwards and the same.           *)
LEMMA OwnDictWritten ==
    ASSUME NEW d, DOMAIN d = Shared \cup Own, NEW own \in Own, NEW value
    PROVE  LET e == [d EXCEPT ![own] = value] IN
           /\ DOMAIN e = Shared \cup Own
           /\ \A ref \in Shared : e[ref] = d[ref]
  BY DEF Shared, Own

(* Each action keeps the names of the dicts and what is in the shared ones. *)
LEMMA StepsLeaveShared ==
    ASSUME DictsNamed, [Next]_vars
    PROVE  DictsNamed' /\ \A ref \in Shared : dicts'[ref] = dicts[ref]
  <1> DEFINE Left == DictsNamed' /\ \A ref \in Shared : dicts'[ref] = dicts[ref]
  <1> SUFFICES Left
    OBVIOUS
  <1>1. ASSUME UNCHANGED dicts PROVE Left
    BY <1>1 DEF DictsNamed
  <1>2. ASSUME NEW own \in Own, NEW value, dicts' = [dicts EXCEPT ![own] = value] PROVE Left
    BY <1>2, OwnDictWritten DEF DictsNamed
  <1>3. ASSUME NEW target \in Targets, NEW given \in BOOLEAN, AskUrlopen(target, given)
        PROVE  Left
    BY <1>1, <1>3 DEF AskUrlopen
  <1>4. ASSUME NEW target \in Targets, NEW given \in BOOLEAN, NEW fields \in FieldLists,
               RequestEncodeUrl(target, given, fields)
        PROVE  Left
    BY <1>1, <1>4 DEF RequestEncodeUrl
  <1>5. ASSUME NEW target \in Targets, NEW given \in BOOLEAN, NEW fields \in FieldLists,
               NEW boundary \in Boundaries \cup {None},
               RequestEncodeBody(target, given, fields, boundary)
        PROVE  Left
    <2>1. PICK value : dicts' = [dicts EXCEPT !["kw"] = value]
      BY <1>5 DEF RequestEncodeBody, EncodeBodyHeaders
    <2> QED BY <2>1, <1>2 DEF Own
  <1>6. CASE Manage
    <2>1. UNCHANGED dicts \/ \E value : dicts' = [dicts EXCEPT !["kw"] = value]
      BY <1>6 DEF Manage
    <2>2. CASE UNCHANGED dicts
      BY <2>2, <1>1
    <2>3. ASSUME NEW value, dicts' = [dicts EXCEPT !["kw"] = value] PROVE Left
      BY <2>3, <1>2 DEF Own
    <2> QED BY <2>1, <2>2, <2>3
  <1>7. CASE Open
    <2>1. UNCHANGED dicts \/ \E value : dicts' = [dicts EXCEPT !["copy"] = value]
      BY <1>7 DEF Open, MergeProxyHeaders
    <2>2. CASE UNCHANGED dicts
      BY <2>2, <1>1
    <2>3. ASSUME NEW value, dicts' = [dicts EXCEPT !["copy"] = value] PROVE Left
      BY <2>3, <1>2 DEF Own
    <2> QED BY <2>1, <2>2, <2>3
  <1>8. CASE Send
    BY <1>8, <1>1 DEF Send
  <1>9. CASE Answers
    BY <1>9, <1>1 DEF Answers, Respond
  <1>10. ASSUME NEW location \in Locations, Redirects(location) PROVE Left
    BY <1>10, <1>1 DEF Redirects, Respond
  <1>11. CASE Follow
    BY <1>11, <1>1 DEF Follow
  <1>12. CASE TryAgain
    BY <1>12, <1>1 DEF TryAgain
  <1>13. CASE Return
    <2>1. dicts' = [ref \in DOMAIN dicts |-> IF ref \in Own THEN NoDict ELSE dicts[ref]]
      BY <1>13 DEF Return
    <2> QED BY <2>1 DEF DictsNamed, Shared, Own
  <1>14. CASE UNCHANGED vars
    BY <1>14, <1>1 DEF vars
  <1> HIDE DEF Left
  <1> QED
    BY <1>3, <1>4, <1>5, <1>6, <1>7, <1>8, <1>9, <1>10, <1>11, <1>12, <1>13, <1>14 DEF Next

(***************************************************************************)
(* Whatever is requested, by whom, and however often it is redirected and  *)
(* tried again: the headers of clients, callers, pools and proxies are     *)
(* those that they were made with (connectionpool.py:498-503,              *)
(* poolmanager.py:226-236, request.py:137-138).                            *)
(***************************************************************************)
THEOREM DictsAreUntouched == Spec => DictsUntouched
  <1>1. Init => DictsNamed
    <2> SUFFICES ASSUME Init PROVE DictsNamed
      OBVIOUS
    <2>1. PICK caller \in CallerDicts :
             dicts = [defaults |-> DefaultDict, caller |-> caller, proxy |-> ProxyDict,
                      managed |-> NoDict, kw |-> NoDict, copy |-> NoDict]
      BY DEF Init
    <2> QED BY <2>1 DEF DictsNamed, Shared, Own
  <1>2. DictsNamed /\ [Next]_vars => DictsNamed' /\ [\A ref \in Shared : dicts'[ref] = dicts[ref]]_vars
    BY StepsLeaveShared
  <1> QED BY <1>1, <1>2, PTL DEF Spec, DictsUntouched
-----------------------------------------------------------------------------
(* No name of a header for the proxy is among the others. *)
Apart(d) == DOMAIN d \cap DOMAIN ProxyDict = {}

ProxyNamesApart ==
    /\ Apart(DefaultDict)
    /\ \A caller \in CallerDicts : Apart(caller)
    /\ {"Accept", "Host", "Content-Type"} \cap DOMAIN ProxyDict = {}

(* None is the None of the program, not a host with its port. *)
NoneIsNoAddress == \A host, port : [host |-> host, port |-> port] # None

Carries(d) ==
    \A name \in DOMAIN ProxyDict : name \in DOMAIN d /\ d[name] = ProxyDict[name]

(* Only the pool's copy for a plain request carries them: neither the dict *)
(* a redirect starts again with, kw, nor one that others hold.             *)
DictsApart ==
    /\ DictsNamed
    /\ dicts["proxy"] = ProxyDict
    /\ \A ref \in {"defaults", "caller", "managed", "kw"} : Apart(dicts[ref])

Arguments == {"defaults", "caller", "kw", Absent, Null}

(* Which dict the calls under way have, and when it is the copy. *)
CallApart ==
    /\ DOMAIN call = DOMAIN NoCall
    /\ call.kw \in Arguments
    /\ client = "proxy" =>
          /\ at \in {"pooled", "open", "sent"} =>
                /\ call.pool.scheme \in {<<"http">>, <<"https">>}
                /\ call.headers \in Arguments \cup {"managed", "copy"}
                /\ call.headers = "copy" => call.pool.scheme = <<"http">>
          /\ at = "open" =>
                /\ call.headers \notin {Absent, Null}
                /\ call.pool.scheme = <<"http">> =>
                      call.headers = "copy" /\ Carries(dicts["copy"])

ProxyInv == DictsApart /\ CallApart /\ ProxyHeadersGoToProxy

(* d.update(e) has the names of both, and e's values. *)
LEMMA UpdatedDict ==
    ASSUME NEW d, NEW e
    PROVE  /\ DOMAIN Updated(d, e) = DOMAIN d \cup DOMAIN e
           /\ \A name \in DOMAIN e : Updated(d, e)[name] = e[name]
  BY DEF Updated

(* What is put together of parts without the proxy's names has none. *)
LEMMA UpdatedApart ==
    ASSUME NEW d, NEW e, Apart(d), Apart(e)
    PROVE  Apart(Updated(d, e))
  <1>1. DOMAIN Updated(d, e) = DOMAIN d \cup DOMAIN e
    BY UpdatedDict
  <1> QED BY <1>1 DEF Apart

(* A header that the library sets itself is none of the proxy's. *)
LEMMA SingleApart ==
    ASSUME ProxyNamesApart, NEW name \in {"Accept", "Host", "Content-Type"}, NEW value
    PROVE  Apart(Entry(name, value))
  BY DEF Apart, ProxyNamesApart, Entry

(* The empty dict has no header of the proxy. *)
LEMMA NoDictApart == Apart(NoDict)
  BY DEF Apart, NoDict

(* dict.update(proxy_headers): the copy has every header of the proxy. *)
LEMMA CopyCarries ==
    ASSUME NEW d
    PROVE  Carries(Updated(d, ProxyDict))
  <1> DEFINE copy == Updated(d, ProxyDict)
  <1>1. /\ DOMAIN copy = DOMAIN d \cup DOMAIN ProxyDict
        /\ \A name \in DOMAIN ProxyDict : copy[name] = ProxyDict[name]
    BY UpdatedDict, Zenon
  <1> HIDE DEF copy
  <1>2. Carries(copy)
    BY <1>1 DEF Carries
  <1> QED BY <1>2 DEF copy

(* _set_proxy_headers adds Accept and Host. *)
LEMMA SetProxyHeadersApart ==
    ASSUME ProxyNamesApart, NEW text, NEW headers, Apart(headers)
    PROVE  Apart(SetProxyHeaders(text, headers))
  <1> DEFINE netloc == Netloc(Parse(text))
             host   == IF Or(netloc, None) = None THEN NoDict ELSE Entry("Host", netloc)
  <1>1. Apart(host)
    BY NoDictApart, SingleApart
  <1>2. Apart(Updated(Entry("Accept", <<"*/*">>), host))
    BY <1>1, SingleApart, UpdatedApart
  <1> HIDE DEF host
  <1>3. Apart(Updated(Updated(Entry("Accept", <<"*/*">>), host), headers))
    BY <1>2, UpdatedApart
  <1> QED BY <1>3 DEF SetProxyHeaders, host

(* The proxy's headers are apart from the others before any call. *)
LEMMA ApartInit ==
    ASSUME ProxyNamesApart, Init
    PROVE  ProxyInv
  <1>1. PICK caller \in CallerDicts :
           dicts = [defaults |-> DefaultDict, caller |-> caller, proxy |-> ProxyDict,
                    managed |-> NoDict, kw |-> NoDict, copy |-> NoDict]
    BY DEF Init
  <1>2. DictsApart
    BY <1>1, NoDictApart DEF DictsApart, DictsNamed, Shared, Own, ProxyNamesApart
  <1>3. at = "idle" /\ call = NoCall
    BY DEF Init
  <1>4. CallApart
    BY <1>3 DEF CallApart, NoCall, Arguments
  <1> QED BY <1>2, <1>3, <1>4 DEF ProxyInv, ProxyHeadersGoToProxy

(* The dicts: only kw and the copy are written, and kw from what is apart. *)
LEMMA DictsStayApart ==
    ASSUME ProxyNamesApart, DictsApart, CallApart, [Next]_vars
    PROVE  DictsApart'
  <1> USE DEF DictsApart
  <1>1. DictsNamed' /\ \A ref \in Shared : dicts'[ref] = dicts[ref]
    BY StepsLeaveShared
  <1> SUFFICES Apart(dicts'["kw"])
    BY <1>1 DEF Shared
  <1>2. ASSUME NEW value, Apart(value), dicts' = [dicts EXCEPT !["kw"] = value]
        PROVE  Apart(dicts'["kw"])
    BY <1>2 DEF DictsNamed, Own
  <1>3. ASSUME NEW value, dicts' = [dicts EXCEPT !["copy"] = value]
        PROVE  Apart(dicts'["kw"])
    BY <1>3 DEF DictsNamed, Own
  <1>4. ASSUME NEW target \in Targets, NEW given \in BOOLEAN, NEW fields \in FieldLists,
               NEW boundary \in Boundaries \cup {None},
               RequestEncodeBody(target, given, fields, boundary)
        PROVE  Apart(dicts'["kw"])
    <2> DEFINE type == IF boundary = None THEN <<"application/x-www-form-urlencoded">>
                       ELSE MultipartType(boundary)
               headers == HeadersArgument(given, "defaults")
               value == Updated(Entry("Content-Type", type), dicts[headers])
    <2>1. dicts' = [dicts EXCEPT !["kw"] = value]
      BY <1>4 DEF RequestEncodeBody, EncodeBodyHeaders
    <2>2. Apart(dicts[headers])
      BY DEF HeadersArgument
    <2>3. Apart(value)
      BY <2>2, SingleApart, UpdatedApart
    <2> QED BY <2>1, <2>3, <1>2
  <1>5. CASE Manage
    <2> DEFINE given == IF call.kw = Absent THEN "defaults" ELSE call.kw
               headers == IF given = Null THEN NoDict ELSE dicts[given]
               value == SetProxyHeaders(call.text, headers)
    <2>1. UNCHANGED dicts \/ dicts' = [dicts EXCEPT !["kw"] = value]
      BY <1>5 DEF Manage
    <2>2. Apart(headers)
      BY NoDictApart DEF CallApart, Arguments
    <2>3. Apart(value)
      BY <2>2, SetProxyHeadersApart
    <2> QED BY <2>1, <2>3, <1>2
  <1>6. CASE Open
    BY <1>6, <1>3 DEF Open, MergeProxyHeaders
  <1>7. CASE Return
    BY <1>7, NoDictApart DEF Return, DictsNamed, Own
  <1>8. CASE UNCHANGED dicts
    BY <1>8
  <1> QED
    BY <1>4, <1>5, <1>6, <1>7, <1>8 DEF Next, AskUrlopen, RequestEncodeUrl, Send, Answers,
       Redirects, Respond, Follow, TryAgain, vars

(* The pools of a ProxyManager are for http, the proxy's, or for https. *)
LEMMA ManagerPoolScheme ==
    ASSUME client = "proxy", NEW u
    PROVE  ManagerPool(u).scheme \in {<<"http">>, <<"https">>}
  <1>1. Proxy.scheme = <<"http">>
    BY RequestConstants DEF Proxy, NoUrl
  <1>2. ManagedPool(Proxy).scheme = <<"http">>
    BY <1>1 DEF ManagedPool, Pool, Or
  <1>3. ASSUME u.scheme = <<"https">> PROVE ManagedPool(u).scheme = <<"https">>
    BY <1>3, RequestConstants DEF ManagedPool, Pool, Or
  <1> QED BY <1>2, <1>3 DEF ManagerPool

(* A pool of http has the proxy's headers in its copy, however often the *)
(* call is tried again.                                                   *)
LEMMA CallStaysApart ==
    ASSUME DictsApart, CallApart, [Next]_vars
    PROVE  CallApart'
  <1> USE DEF CallApart, Arguments
  <1>1. ASSUME NEW text, NEW method, NEW body, NEW headers \in {"caller", "kw", Absent, Null},
               Urlopen(text, method, body, headers)
        PROVE  CallApart'
    BY <1>1 DEF Urlopen, NoCall
  <1>2. ASSUME NEW target \in Targets, NEW given \in BOOLEAN, AskUrlopen(target, given)
        PROVE  CallApart'
    BY <1>1, <1>2 DEF AskUrlopen, HeadersArgument
  <1>3. ASSUME NEW target \in Targets, NEW given \in BOOLEAN, NEW fields \in FieldLists,
               RequestEncodeUrl(target, given, fields)
        PROVE  CallApart'
    BY <1>1, <1>3 DEF RequestEncodeUrl, HeadersArgument
  <1>4. ASSUME NEW target \in Targets, NEW given \in BOOLEAN, NEW fields \in FieldLists,
               NEW boundary \in Boundaries \cup {None},
               RequestEncodeBody(target, given, fields, boundary)
        PROVE  CallApart'
    BY <1>1, <1>4 DEF RequestEncodeBody
  <1>5. CASE Manage
    <2> DEFINE u     == Parse(call.text)
               given == IF call.kw = Absent THEN "defaults" ELSE call.kw
               kw    == IF PlainProxied(u) THEN "kw" ELSE given
               line  == IF PlainProxied(u) THEN call.text ELSE RequestUri(u)
               pool  == ManagerPool(u)
    <2>1. \/ at' = "raised" /\ UNCHANGED <<client, call>>
          \/ /\ at' = "pooled" /\ client' = client
             /\ call' = [call EXCEPT !.pool = pool, !.kw = kw, !.headers = kw, !.line = line]
      BY <1>5 DEF Manage
    <2>2. /\ kw \in Arguments
          /\ client = "proxy" => pool.scheme \in {<<"http">>, <<"https">>}
      BY ManagerPoolScheme
    <2> HIDE DEF kw, line, pool
    <2>3. CASE at' = "raised" /\ UNCHANGED <<client, call>>
      BY <2>3
    <2>4. CASE /\ at' = "pooled" /\ client' = client
               /\ call' = [call EXCEPT !.pool = pool, !.kw = kw, !.headers = kw, !.line = line]
      <3>1. /\ DOMAIN call' = DOMAIN NoCall
            /\ call'.pool = pool /\ call'.kw = kw /\ call'.headers = kw
        BY <2>4 DEF NoCall
      <3>2. kw # "copy"
        BY <2>2, RequestConstants
      <3> QED BY <3>1, <3>2, <2>2, <2>4
    <2> QED BY <2>1, <2>3, <2>4
  <1>6. CASE Open
    <2> DEFINE headers == IF call.headers \in {Absent, Null} THEN PoolHeaders ELSE call.headers
    <2>1. CASE at' \in {"raised", "refused"}
      BY <2>1, <1>6 DEF Open
    <2>2. CASE at' = "open"
      <3>1. MergeProxyHeaders(headers) /\ at = "pooled" /\ client' = client
        BY <2>2, <1>6 DEF Open
      <3>2. call' = call \/ \E h : call' = [call EXCEPT !.headers = h]
        BY <3>1 DEF MergeProxyHeaders
      <3>3. DOMAIN call' = DOMAIN NoCall /\ call'.kw = call.kw /\ call'.pool = call.pool
        BY <3>2 DEF NoCall
      <3> SUFFICES ASSUME client = "proxy"
                   PROVE  /\ call'.headers \in {"defaults", "caller", "kw", "managed", "copy"}
                          /\ call'.headers = "copy" => call.pool.scheme = <<"http">>
                          /\ call.pool.scheme = <<"http">> =>
                                call'.headers = "copy" /\ Carries(dicts'["copy"])
        BY <2>2, <3>1, <3>3, RequestConstants DEF Carries
      <3>4. /\ headers \in {"defaults", "caller", "kw", "managed", "copy"}
            /\ headers = "copy" => call.pool.scheme = <<"http">>
        BY <3>1 DEF PoolHeaders
      <3> HIDE DEF headers
      <3>5. CASE call.pool.scheme = <<"http">>
        <4> DEFINE value == Updated(dicts[headers], ProxyDict)
        <4>1. dicts' = [dicts EXCEPT !["copy"] = value] /\ call' = [call EXCEPT !.headers = "copy"]
          BY <3>1, <3>5 DEF MergeProxyHeaders, PoolProxyHeaders, DictsApart
        <4>2. Carries(value)
          BY CopyCarries
        <4> HIDE DEF value
        <4>3. dicts'["copy"] = value /\ call'.headers = "copy"
          BY <4>1 DEF DictsApart, DictsNamed, Own, NoCall
        <4> QED BY <4>2, <4>3, <3>5
      <3>6. CASE call.pool.scheme # <<"http">>
        <4>1. call' = [call EXCEPT !.headers = headers]
          BY <3>1, <3>6 DEF MergeProxyHeaders
        <4>2. call'.headers = headers
          BY <4>1 DEF NoCall
        <4> QED BY <4>2, <3>4, <3>6
      <3> QED BY <3>5, <3>6
    <2> QED BY <2>1, <2>2, <1>6 DEF Open
  <1>7. CASE Send
    BY <1>7 DEF Send
  <1>8. CASE Answers \/ \E location \in Locations : Redirects(location)
    BY <1>8 DEF Answers, Redirects, Respond
  <1>9. CASE Follow
    <2>1. /\ client' = client /\ (client = "proxy" => at' = "called")
          /\ at' \in {"called", "pooled"}
      BY <1>9 DEF Follow
    <2>2. DOMAIN call' = DOMAIN NoCall /\ call'.kw = call.kw
      BY <1>9 DEF Follow, NoCall
    <2> QED BY <2>1, <2>2
  <1>10. CASE TryAgain
    BY <1>10 DEF TryAgain
  <1>11. CASE Return
    BY <1>11 DEF Return, NoCall
  <1>12. CASE UNCHANGED vars
    BY <1>12 DEF vars, Carries
  <1> HIDE DEF CallApart
  <1> QED
    BY <1>2, <1>3, <1>4, <1>5, <1>6, <1>7, <1>8, <1>9, <1>10, <1>11, <1>12 DEF Next

(* What is sent has them if it goes to the proxy, and else not. *)
LEMMA SentApart ==
    ASSUME NoneIsNoAddress, DictsApart, CallApart, ProxyHeadersGoToProxy, [Next]_vars
    PROVE  ProxyHeadersGoToProxy'
  <1> SUFFICES ASSUME at' = "sent", client' = "proxy", Send
               PROVE  LET plain == message'.tunnel = None IN
                      /\ \A name \in DOMAIN ProxyDict :
                            (name \in DOMAIN message'.headers
                             /\ message'.headers[name] = ProxyDict[name]) = plain
                      /\ message'.connect = IF plain THEN NoDict ELSE ProxyDict
    BY DEF ProxyHeadersGoToProxy, Next, AskUrlopen, RequestEncodeUrl, RequestEncodeBody, Urlopen,
       Manage, Open, Answers, Redirects, Respond, Follow, TryAgain, Return, vars
  <1>1. at = "open" /\ client = "proxy"
    BY DEF Send
  <1>2. /\ message'.headers = dicts[call.headers]
        /\ message'.tunnel = IF Tunnelled(call.pool) THEN Address(call.pool) ELSE None
        /\ message'.connect = IF Tunnelled(call.pool) THEN ProxyDict ELSE NoDict
    BY <1>1 DEF Send, PoolProxyHeaders, DictsApart
  <1>3. CASE call.pool.scheme = <<"http">>
    <2>1. ~Tunnelled(call.pool) /\ Carries(dicts[call.headers])
      BY <1>1, <1>3 DEF CallApart, Tunnelled
    <2> QED BY <1>2, <2>1 DEF Carries
  <1>4. CASE call.pool.scheme = <<"https">>
    <2>1. Tunnelled(call.pool) /\ Address(call.pool) # None
      <3> DEFINE host == call.pool.host
                 port == Or(call.pool.port, PortByScheme(call.pool.scheme))
      <3>1. Address(call.pool) = [host |-> host, port |-> port]
        BY DEF Address
      <3> HIDE DEF host, port
      <3>2. [host |-> host, port |-> port] # None
        BY Zenon DEF NoneIsNoAddress
      <3> QED BY <3>1, <3>2, <1>1, <1>4 DEF Tunnelled
    <2>2. call.headers \in {"defaults", "caller", "kw", "managed"}
      BY <1>1, <1>4 DEF CallApart, Arguments
    <2>3. Apart(dicts[call.headers])
      BY <2>2 DEF DictsApart
    <2> QED BY <1>2, <2>1, <2>3 DEF Apart
  <1> QED BY <1>1, <1>3, <1>4 DEF CallApart

(***************************************************************************)
(* proxy_headers, say the credentials for the proxy, go to the proxy and   *)
(* to no target, over any redirects between http and https and any         *)
(* retries, if no other header has one of their names (poolmanager.py:     *)
(* 188-192, connectionpool.py:498-503, 636-637).                           *)
(***************************************************************************)
THEOREM ProxyHeadersStayWithProxy ==
    ASSUME ProxyNamesApart, NoneIsNoAddress
    PROVE  Spec => []ProxyHeadersGoToProxy
  <1>1. Init => ProxyInv
    BY ApartInit
  <1>2. ProxyInv /\ [Next]_vars => ProxyInv'
    BY DictsStayApart, CallStaysApart, SentApart DEF ProxyInv
  <1>3. ProxyInv => ProxyHeadersGoToProxy
    BY DEF ProxyInv
  <1> QED BY <1>1, <1>2, <1>3, PTL DEF Spec
-----------------------------------------------------------------------------
(***************************************************************************)
(* Which header dict a call has.                                           *)
(***************************************************************************)
Calling == {"pooled", "open", "sent", "answered"}

CallNamed ==
    /\ DOMAIN call = DOMAIN NoCall
    /\ call.kw \in Arguments
    /\ at \in Calling => /\ call.headers \in Arguments \cup {"managed", "copy"}
                         /\ call.headers = "copy" => call.pool.scheme = <<"http">>
    /\ at = "open" => /\ call.headers \notin {Absent, Null}
                      /\ (call.headers = "copy") = (call.pool.scheme = <<"http">>)

(* Names of dicts are neither None nor missing. *)
LEMMA NamesDiffer ==
    /\ {Absent, Null} \cap {"defaults", "caller", "proxy", "managed", "kw", "copy"} = {}
    /\ Absent # Null
    BY RequestConstants

(* A call of urlopen comes with a dict that others hold, or with kw. *)
LEMMA UrlopenNamed ==
    ASSUME NEW text, NEW method, NEW body, NEW headers \in {"caller", "kw", Absent, Null},
           Urlopen(text, method, body, headers)
    PROVE  CallNamed' /\ at' \in {"called", "pooled"}
<1> DEFINE pool == IF client = "pool" THEN PoolOfUrl(Text(home)) ELSE None
<1>1. /\ call' = [NoCall EXCEPT !.text = text, !.method = method, !.body = body, !.kw = headers,
                                !.pool = pool, !.line = text, !.headers = headers]
      /\ at' \in {"called", "pooled"}
    BY DEF Urlopen
<1> HIDE DEF pool
<1>2. DOMAIN call' = DOMAIN NoCall /\ call'.kw = headers /\ call'.headers = headers
    BY <1>1 DEF NoCall
<1> QED
    BY <1>1, <1>2, NamesDiffer DEF CallNamed, Arguments

(* The copy is made for pools of http only, and asked for only by them. *)
LEMMA OpenNames ==
    ASSUME CallNamed, Open, at' = "open"
    PROVE  CallNamed'
<1> DEFINE headers == IF call.headers \in {Absent, Null} THEN PoolHeaders ELSE call.headers
<1>1. MergeProxyHeaders(headers) /\ at = "pooled"
    BY DEF Open
<1>2. /\ headers \in {"defaults", "caller", "kw", "managed", "copy"}
      /\ headers = "copy" => call.pool.scheme = <<"http">>
    BY <1>1 DEF PoolHeaders, CallNamed, Calling, Arguments
<1> HIDE DEF headers
<1>3. \/ call.pool.scheme = <<"http">> /\ call' = [call EXCEPT !.headers = "copy"]
      \/ call.pool.scheme # <<"http">> /\ call' = [call EXCEPT !.headers = headers]
    BY <1>1 DEF MergeProxyHeaders
<1>4. /\ DOMAIN call' = DOMAIN NoCall /\ call'.kw = call.kw /\ call'.pool = call.pool
      /\ \/ call.pool.scheme = <<"http">> /\ call'.headers = "copy"
         \/ call.pool.scheme # <<"http">> /\ call'.headers = headers
    BY <1>3 DEF CallNamed, NoCall
<1> QED
    BY <1>2, <1>4, NamesDiffer DEF CallNamed, Arguments

(* The fields of a call keep their names. *)
LEMMA CallStaysNamed ==
    ASSUME CallNamed, [Next]_vars
    PROVE  CallNamed'
<1>1. ASSUME NEW target \in Targets, NEW given \in BOOLEAN, AskUrlopen(target, given)
      PROVE  CallNamed'
    BY <1>1, UrlopenNamed DEF AskUrlopen, HeadersArgument
<1>2. ASSUME NEW target \in Targets, NEW given \in BOOLEAN, NEW fields \in FieldLists,
             RequestEncodeUrl(target, given, fields)
      PROVE  CallNamed'
    BY <1>2, UrlopenNamed DEF RequestEncodeUrl, HeadersArgument
<1>3. ASSUME NEW target \in Targets, NEW given \in BOOLEAN, NEW fields \in FieldLists,
             NEW boundary \in Boundaries \cup {None},
             RequestEncodeBody(target, given, fields, boundary)
      PROVE  CallNamed'
    BY <1>3, UrlopenNamed DEF RequestEncodeBody
<1>4. CASE Manage
  <2> DEFINE u     == Parse(call.text)
             given == IF call.kw = Absent THEN "defaults" ELSE call.kw
             kw    == IF PlainProxied(u) THEN "kw" ELSE given
             line  == IF PlainProxied(u) THEN call.text ELSE RequestUri(u)
             pool  == ManagerPool(u)
  <2>1. \/ at' = "raised" /\ UNCHANGED call
        \/ /\ at' = "pooled"
           /\ call' = [call EXCEPT !.pool = pool, !.kw = kw, !.headers = kw, !.line = line]
      BY <1>4 DEF Manage
  <2>2. kw \in Arguments
      BY DEF CallNamed, Arguments
  <2> HIDE DEF kw, line, pool
  <2>3. CASE at' = "raised" /\ UNCHANGED call
      BY <2>3 DEF CallNamed, Calling
  <2>4. CASE /\ at' = "pooled"
             /\ call' = [call EXCEPT !.pool = pool, !.kw = kw, !.headers = kw, !.line = line]
    <3>1. DOMAIN call' = DOMAIN NoCall /\ call'.kw = kw /\ call'.headers = kw
        BY <2>4 DEF CallNamed, NoCall
    <3>2. kw # "copy"
        BY <2>2, NamesDiffer DEF Arguments
    <3> QED
        BY <2>2, <2>4, <3>1, <3>2 DEF CallNamed
  <2> QED
      BY <2>1, <2>3, <2>4
<1>5. CASE Open
  <2>1. CASE at' \in {"raised", "refused"}
    <3>1. UNCHANGED call
        BY <1>5, <2>1 DEF Open
    <3> QED
        BY <2>1, <3>1 DEF CallNamed, Calling
  <2> QED
      BY <1>5, <2>1, OpenNames DEF Open
<1>6. CASE Send
    BY <1>6 DEF Send, CallNamed, Calling
<1>7. CASE Answers \/ \E location \in Locations : Redirects(location)
    BY <1>7 DEF Answers, Redirects, Respond, CallNamed, Calling
<1>8. CASE Follow
  <2>1. /\ at = "answered" /\ at' \in {"called", "pooled"}
        /\ DOMAIN call' = DOMAIN NoCall /\ call'.kw = call.kw /\ call'.headers = call.headers
        /\ call'.pool = call.pool
      BY <1>8 DEF Follow, CallNamed, NoCall
  <2> QED
      BY <2>1 DEF CallNamed, Calling
<1>9. CASE TryAgain
    BY <1>9 DEF TryAgain, CallNamed, Calling
<1>10. CASE Return
    BY <1>10 DEF Return, CallNamed, NoCall, Calling, Arguments
<1>11. CASE UNCHANGED vars
    BY <1>11 DEF vars, CallNamed
<1> QED
    BY <1>1, <1>2, <1>3, <1>4, <1>5, <1>6, <1>7, <1>8, <1>9, <1>10, <1>11 DEF Next

(* Redirects are followed up to the bound, and a message is there from    *)
(* when it is sent until the call goes on.                                *)
HopsCounted ==
    /\ at \in Places /\ client \in Clients
    /\ \E S : meant \in Seq(S)
    /\ (at = "idle") = (meant = << >>)
    /\ Len(meant) <= HopBound + 1
    /\ at = "answered" /\ answer.status \in {"redirect", "see_other"} => Len(meant) <= HopBound
    /\ (message # NoMessage) = (at \in {"sent", "answered"})

(* No redirect has been followed before a call ... *)
LEMMA HopsInit ==
    ASSUME Init
    PROVE  HopsCounted
<1>1. << >> \in Seq({}) /\ Len(<< >>) = 0
    BY EmptySeq
<1>2. meant = << >> /\ at = "idle" /\ message = NoMessage /\ client \in Clients
    BY DEF Init
<1>3. 0 <= HopBound + 1
    BY RequestConstants
<1> QED
    BY <1>1, <1>2, <1>3 DEF HopsCounted, Places

(* ... and each one that is followed is counted. *)
LEMMA HopsStep ==
    ASSUME NoneIsNoAddress, HopsCounted, [Next]_vars
    PROVE  HopsCounted'
<1> USE DEF HopsCounted
<1>1. HopBound \in Nat
    BY RequestConstants
<1>2. ASSUME NEW u, meant' = <<u>>, at' \in {"called", "pooled"}, at = "idle",
             client' = client, message' = message
      PROVE  HopsCounted'
  <2>1. <<u>> \in Seq({u}) /\ Len(<<u>>) = 1 /\ <<u>> # << >>
      OBVIOUS
  <2>2. 1 <= HopBound + 1
      BY <1>1
  <2>3. client' \in Clients /\ message' = NoMessage
      BY <1>2
  <2>4. \E S : meant' \in Seq(S)
      BY <1>2, <2>1
  <2>5. Len(meant') = 1 /\ meant' # << >>
      BY <1>2, <2>1
  <2> HIDE DEF HopsCounted
  <2> QED
      BY <1>2, <2>2, <2>3, <2>4, <2>5 DEF HopsCounted, Places
<1>3. ASSUME NEW target \in Targets, NEW given \in BOOLEAN,
             \/ AskUrlopen(target, given)
             \/ \E fields \in FieldLists :
                   \/ RequestEncodeUrl(target, given, fields)
                   \/ \E boundary \in Boundaries \cup {None} :
                         RequestEncodeBody(target, given, fields, boundary)
      PROVE  HopsCounted'
    BY <1>2, <1>3 DEF AskUrlopen, RequestEncodeUrl, RequestEncodeBody, Urlopen
<1>4. CASE Manage
    BY <1>4 DEF Manage, Places
<1>5. CASE Open
    BY <1>5 DEF Open, Places
<1>6. CASE Send
  <2>1. message'.peer # None
    <3>1. message'.peer = Peer(call.pool)
        BY <1>6 DEF Send
    <3>2. \A pool : Address(pool) # None
        BY Zenon DEF Address, NoneIsNoAddress
    <3> QED
        BY <3>1, <3>2 DEF Peer
  <2>2. message' # NoMessage
      BY <2>1 DEF NoMessage
  <2> QED
      BY <1>6, <2>2 DEF Send, Places
<1>7. CASE Answers
    BY <1>7 DEF Answers, Respond, Places
<1>8. ASSUME NEW location \in Locations, Redirects(location) PROVE HopsCounted'
    BY <1>8 DEF Redirects, Respond, Places
<1>9. CASE Follow
  <2>1. /\ at = "answered" /\ answer.status \in {"redirect", "see_other"}
        /\ at' \in {"called", "pooled"} /\ client' = client /\ message' = NoMessage
        /\ meant' = Append(meant, Resolved(Last(meant), answer.location))
      BY <1>9 DEF Follow, RedirectLocation
  <2> DEFINE u == Resolved(Last(meant), answer.location)
  <2>2. PICK S : meant \in Seq(S)
      OBVIOUS
  <2> HIDE DEF u
  <2>3. meant \in Seq(S \cup {u})
      BY <2>2, SeqMonotonic
  <2>4. /\ Append(meant, u) \in Seq(S \cup {u}) /\ Append(meant, u) # << >>
        /\ Len(Append(meant, u)) = Len(meant) + 1 /\ Len(meant) \in Nat
      BY <2>3, AppendProperties, LenProperties
  <2>5. meant' = Append(meant, u)
      BY <2>1 DEF u
  <2> QED
      BY <1>1, <2>1, <2>4, <2>5 DEF Places
<1>10. CASE TryAgain
    BY <1>10 DEF TryAgain, Places
<1>11. CASE Return
  <2>1. << >> \in Seq({}) /\ Len(<< >>) = 0
      BY EmptySeq
  <2> QED
      BY <1>1, <1>11, <2>1 DEF Return, Places
<1>12. CASE UNCHANGED vars
    BY <1>12 DEF vars
<1> HIDE DEF HopsCounted
<1> QED
    BY <1>3, <1>4, <1>5, <1>6, <1>7, <1>8, <1>9, <1>10, <1>11, <1>12 DEF Next

(* The names of the dicts and of the call's fields, before any call. *)
LEMMA NamedInit ==
    ASSUME Init
    PROVE  DictsNamed /\ CallNamed
<1>1. PICK caller \in CallerDicts :
         dicts = [defaults |-> DefaultDict, caller |-> caller, proxy |-> ProxyDict,
                  managed |-> NoDict, kw |-> NoDict, copy |-> NoDict]
    BY DEF Init
<1>2. DictsNamed
    BY <1>1 DEF DictsNamed, Shared, Own
<1>3. at = "idle" /\ call = NoCall
    BY DEF Init
<1>4. CallNamed
    BY <1>3 DEF CallNamed, NoCall, Arguments, Calling
<1> QED
    BY <1>2, <1>4

(***************************************************************************)
(* A call that is past its checks has a dict of headers, the copy if and   *)
(* only if its pool is one for http; redirects stay within the bound, and  *)
(* a message is there just while it is sent and answered.                  *)
(***************************************************************************)
THEOREM RequestTypeCorrect ==
    ASSUME NoneIsNoAddress
    PROVE  Spec => []TypeOK
<1>1. DictsNamed /\ CallNamed /\ HopsCounted => TypeOK
  <2> SUFFICES ASSUME DictsNamed, CallNamed, HopsCounted PROVE TypeOK
      OBVIOUS
  <2>1. call.kw \in DOMAIN dicts \cup {Absent, Null}
      BY DEF CallNamed, DictsNamed, Arguments, Shared, Own
  <2>2. at = "open" => /\ call.headers \in DOMAIN dicts
                       /\ (call.headers = "copy") = (call.pool.scheme = <<"http">>)
      BY DEF CallNamed, DictsNamed, Arguments, Calling, Shared, Own
  <2> QED
      BY <2>1, <2>2 DEF TypeOK, HopsCounted, DictsNamed
<1>2. Init => DictsNamed /\ CallNamed /\ HopsCounted
    BY NamedInit, HopsInit
<1>3. DictsNamed /\ CallNamed /\ HopsCounted /\ [Next]_vars
         => (DictsNamed /\ CallNamed /\ HopsCounted)'
    BY StepsLeaveShared, CallStaysNamed, HopsStep
<1> QED
    BY <1>1, <1>2, <1>3, PTL DEF Spec
-----------------------------------------------------------------------------
(***************************************************************************)
(* The headers of a call.  All that are chosen, proxy_headers aside, are   *)
(* in the dict it goes on with, and nothing is that was not chosen or made *)
(* for it.                                                                 *)
(***************************************************************************)
Fits(d, chosen, made) ==
    /\ \A name \in DOMAIN chosen \ DOMAIN ProxyDict :
          name \in DOMAIN d /\ d[name] = chosen[name]
    /\ DOMAIN d \subseteq DOMAIN chosen \cup made

(* What a client gets for headers.  For the None that request() with GET  *)
(* passes on without any, a manager has no defaults (request.py:70).      *)
PassedHeaders ==
    CASE asked.given -> dicts["caller"]
      [] ~asked.given /\ asked.way = "encode_url" /\ client # "pool" -> NoDict
      [] OTHER -> dicts["defaults"]

(* The type of a body, if there is one, goes into the dict first, under *)
(* the headers that are passed.                                         *)
Wanted == IF asked.way = "encode_body" THEN Updated(Entry("Content-Type", BodyType), PassedHeaders)
          ELSE PassedHeaders

AsChosen(d) == Fits(d, Wanted, MadeHeaders)

(* What a manager, and what a pool makes of its argument. *)
ManagerDict(headers) ==
    CASE headers = Absent -> dicts["defaults"]
      [] headers = Null -> NoDict
      [] OTHER -> dicts[headers]

PoolDict(headers) ==
    IF headers \in {Absent, Null} THEN dicts[PoolHeaders] ELSE dicts[headers]

CallAsChosen ==
    /\ client # "pool" /\ at \in Calling \cup {"called"} => AsChosen(ManagerDict(call.kw))
    /\ at \in Calling => AsChosen(PoolDict(call.headers))

(* A manager's pools have no headers of their own; the proxy's are as given. *)
ManagedEmpty == dicts["managed"] = NoDict /\ dicts["proxy"] = ProxyDict

(* A pool that is called directly has no manager. *)
PoolsUnmanaged == at = "called" => client # "pool"

ChosenInv == DictsNamed /\ CallNamed /\ ManagedEmpty /\ PoolsUnmanaged /\ CallAsChosen

(* What is given takes precedence over headers that are made. *)
LEMMA MadeUnderneath ==
    ASSUME NEW d, NEW e, NEW chosen, NEW made, Fits(d, chosen, made), DOMAIN e \subseteq made
    PROVE  Fits(Updated(e, d), chosen, made)
BY DEF Fits, Updated

(* The proxy's headers take precedence over what is chosen, no other does. *)
LEMMA ProxyOnTop ==
    ASSUME NEW d, NEW e, NEW chosen, NEW made, Fits(d, chosen, made),
           DOMAIN e \subseteq DOMAIN ProxyDict \cap made
    PROVE  Fits(Updated(d, e), chosen, made)
BY DEF Fits, Updated

(* What a manager at a plain proxy makes of what it is given. *)
LEMMA ProxyHeadersFit ==
    ASSUME NEW text, NEW d, NEW chosen, NEW made, Fits(d, chosen, made),
           {"Accept", "Host"} \subseteq made
    PROVE  Fits(SetProxyHeaders(text, d), chosen, made)
<1> DEFINE netloc == Netloc(Parse(text))
           host   == IF Or(netloc, None) = None THEN NoDict ELSE Entry("Host", netloc)
           accept == Entry("Accept", <<"*/*">>)
<1>1. DOMAIN host \subseteq {"Host"} /\ DOMAIN accept = {"Accept"}
    BY DEF NoDict, Entry
<1> HIDE DEF host, accept
<1>2. DOMAIN Updated(accept, host) = DOMAIN accept \cup DOMAIN host
    BY UpdatedDict
<1>3. Fits(Updated(Updated(accept, host), d), chosen, made)
    BY <1>1, <1>2, MadeUnderneath
<1> QED
    BY <1>3 DEF SetProxyHeaders, host, accept

(* While a call is under way its headers are chosen once and for all. *)
LEMMA ChosenStay ==
    ASSUME DictsNamed, [Next]_vars, UNCHANGED <<asked, client>>
    PROVE  Wanted' = Wanted /\ MadeHeaders' = MadeHeaders
<1>1. dicts'["caller"] = dicts["caller"] /\ dicts'["defaults"] = dicts["defaults"]
    BY StepsLeaveShared DEF Shared
<1> QED
    BY <1>1 DEF PassedHeaders, EncodedHeaders, MadeHeaders, Wanted, BodyType

(* A call of urlopen whose dict is as chosen, for who takes it. *)
LEMMA UrlopenChosen ==
    ASSUME NEW text, NEW method, NEW body, NEW headers \in {"caller", "kw", Absent, Null},
           Urlopen(text, method, body, headers),
           client # "pool" => AsChosen(ManagerDict(headers))',
           client = "pool" => AsChosen(PoolDict(headers))'
    PROVE  CallAsChosen'
<1>1. /\ call'.kw = headers /\ call'.headers = headers /\ client' = client
      /\ at' = IF client = "pool" THEN "pooled" ELSE "called"
    BY DEF Urlopen, NoCall
<1> QED
    BY <1>1 DEF CallAsChosen, AsChosen, ManagerDict, PoolDict, PoolHeaders, Calling

(* Three ways to ask, and what a client does without headers of the call's. *)
LEMMA AskedChosen ==
    ASSUME NEW target \in Targets, NEW given \in BOOLEAN, AskUrlopen(target, given)
    PROVE  CallAsChosen'
<1> DEFINE headers == HeadersArgument(given, Absent)
<1>1. /\ asked'.way = "urlopen" /\ asked'.given = given
      /\ UNCHANGED <<dicts, client>>
    BY DEF AskUrlopen, Urlopen, NoAsked
<1>2. PassedHeaders' = dicts'[IF given THEN "caller" ELSE "defaults"]
    BY <1>1 DEF PassedHeaders
<1>3. ManagerDict(headers)' = PassedHeaders'
    BY <1>2, NamesDiffer DEF ManagerDict, HeadersArgument
<1>4. client = "pool" => PoolDict(headers)' = PassedHeaders'
    BY <1>1, <1>2, NamesDiffer DEF PoolDict, PoolHeaders, HeadersArgument
<1>5. Fits(PassedHeaders', Wanted', MadeHeaders')
    BY <1>1 DEF Fits, Wanted
<1>6. headers \in {"caller", "kw", Absent, Null}
    BY DEF HeadersArgument
<1> HIDE DEF headers
<1>7. /\ client # "pool" => AsChosen(ManagerDict(headers))'
      /\ client = "pool" => AsChosen(PoolDict(headers))'
    BY <1>3, <1>4, <1>5 DEF AsChosen
<1> QED
    BY <1>6, <1>7, UrlopenChosen DEF AskUrlopen, headers

(* request() with GET passes None on: a pool has its headers, a manager none. *)
LEMMA EncodeUrlChosen ==
    ASSUME NEW target \in Targets, NEW given \in BOOLEAN, NEW fields \in FieldLists,
           RequestEncodeUrl(target, given, fields)
    PROVE  CallAsChosen'
<1> DEFINE headers == HeadersArgument(given, Null)
<1>1. /\ asked'.way = "encode_url" /\ asked'.given = given
      /\ UNCHANGED <<dicts, client>>
    BY DEF RequestEncodeUrl, Urlopen, NoAsked
<1>2. PassedHeaders' = IF given THEN dicts'["caller"]
                       ELSE IF client = "pool" THEN dicts'["defaults"] ELSE NoDict
    BY <1>1 DEF PassedHeaders
<1>3. client # "pool" => ManagerDict(headers)' = PassedHeaders'
    BY <1>2, NamesDiffer DEF ManagerDict, HeadersArgument
<1>4. client = "pool" => PoolDict(headers)' = PassedHeaders'
    BY <1>1, <1>2, NamesDiffer DEF PoolDict, PoolHeaders, HeadersArgument
<1>5. Fits(PassedHeaders', Wanted', MadeHeaders')
    BY <1>1 DEF Fits, Wanted
<1>6. headers \in {"caller", "kw", Absent, Null}
    BY DEF HeadersArgument
<1> HIDE DEF headers
<1>7. /\ client # "pool" => AsChosen(ManagerDict(headers))'
      /\ client = "pool" => AsChosen(PoolDict(headers))'
    BY <1>3, <1>4, <1>5 DEF AsChosen
<1> QED
    BY <1>6, <1>7, UrlopenChosen DEF RequestEncodeUrl, headers

(* With POST, the type of the body goes underneath what is chosen. *)
LEMMA EncodeBodyChosen ==
    ASSUME NEW target \in Targets, NEW given \in BOOLEAN, NEW fields \in FieldLists,
           NEW boundary \in Boundaries \cup {None}, DictsNamed,
           RequestEncodeBody(target, given, fields, boundary)
    PROVE  CallAsChosen'
<1> DEFINE from == HeadersArgument(given, "defaults")
<1>1. dicts' = [dicts EXCEPT !["kw"] = Updated(Entry("Content-Type", BodyType'), dicts[from])]
    BY DEF RequestEncodeBody, EncodeBodyHeaders, BodyType
<1>2. asked'.way = "encode_body" /\ asked'.given = given
    BY DEF RequestEncodeBody
<1> DEFINE type == BodyType'
<1> HIDE DEF type
<1>3. dicts'["kw"] = Updated(Entry("Content-Type", type), dicts[from]) /\ dicts'[from] = dicts[from]
    BY <1>1 DEF DictsNamed, Shared, Own, HeadersArgument, type
<1>4. PassedHeaders' = dicts[from]
    BY <1>2, <1>3 DEF PassedHeaders, HeadersArgument
<1>5. Wanted' = dicts'["kw"] /\ "Content-Type" \in MadeHeaders'
    BY <1>2, <1>3, <1>4 DEF Wanted, EncodedHeaders, MadeHeaders, type
<1> HIDE DEF from, type
<1>7. Fits(dicts'["kw"], Wanted', MadeHeaders')
    BY <1>5 DEF Fits
<1>8. ManagerDict("kw")' = dicts'["kw"] /\ PoolDict("kw")' = dicts'["kw"]
    BY NamesDiffer DEF ManagerDict, PoolDict
<1>9. AsChosen(ManagerDict("kw"))' /\ AsChosen(PoolDict("kw"))'
    BY <1>7, <1>8 DEF AsChosen
<1> QED
    BY <1>9, UrlopenChosen DEF RequestEncodeBody

(***************************************************************************)
(* A manager passes the dict on that it has, or makes kw of it for a plain *)
(* proxy.  headers=None it leaves to its pools, who have none.             *)
(***************************************************************************)
LEMMA ManageChosen ==
    ASSUME ChosenInv, Manage
    PROVE  CallAsChosen'
<1> DEFINE u     == Parse(call.text)
           given == IF call.kw = Absent THEN "defaults" ELSE call.kw
           kw    == IF PlainProxied(u) THEN "kw" ELSE given
           line  == IF PlainProxied(u) THEN call.text ELSE RequestUri(u)
           pool  == ManagerPool(u)
           plain == PlainProxied(u)
<1>1. CASE at' = "raised"
    BY <1>1 DEF CallAsChosen, Calling
<1>2. CASE at' # "raised"
  <2>1. /\ at = "called" /\ at' = "pooled" /\ UNCHANGED <<asked, client>>
        /\ call' = [call EXCEPT !.pool = pool, !.kw = kw, !.headers = kw, !.line = line]
        /\ dicts' = IF ~plain THEN dicts
                    ELSE [dicts EXCEPT !["kw"] =
                             SetProxyHeaders(call.text, IF given = Null THEN NoDict ELSE dicts[given])]
      BY <1>2 DEF Manage
  <2>2. ManagerDict(call.kw) = IF given = Null THEN NoDict ELSE dicts[given]
      BY NamesDiffer DEF ManagerDict
  <2>3. plain => client = "proxy"
      BY DEF PlainProxied
  <2>4. given \in Arguments /\ given # Absent
      BY NamesDiffer DEF ChosenInv, CallNamed, Arguments
  <2>5. kw = IF plain THEN "kw" ELSE given
      OBVIOUS
  <2> HIDE DEF kw, line, pool, given, plain
  <2>6. call'.kw = kw /\ call'.headers = kw
      BY <2>1 DEF ChosenInv, CallNamed, NoCall
  <2>7. Wanted' = Wanted /\ MadeHeaders' = MadeHeaders
      BY <2>1, ChosenStay DEF ChosenInv, Next
  <2>8. Fits(ManagerDict(call.kw), Wanted, MadeHeaders)
      BY <2>1 DEF ChosenInv, PoolsUnmanaged, CallAsChosen, AsChosen
  <2>9. CASE plain
    <3>1. {"Accept", "Host"} \subseteq MadeHeaders
        BY <2>3, <2>9 DEF MadeHeaders
    <3>2. Fits(SetProxyHeaders(call.text, ManagerDict(call.kw)), Wanted, MadeHeaders)
        BY <2>8, <3>1, ProxyHeadersFit
    <3>3. dicts'["kw"] = SetProxyHeaders(call.text, ManagerDict(call.kw))
        BY <2>1, <2>2, <2>9 DEF ChosenInv, DictsNamed, Shared, Own
    <3>4. ManagerDict(call.kw)' = dicts'["kw"] /\ PoolDict(call.headers)' = dicts'["kw"]
        BY <2>5, <2>6, <2>9, NamesDiffer DEF ManagerDict, PoolDict
    <3> QED
        BY <2>7, <3>2, <3>3, <3>4 DEF CallAsChosen, AsChosen
  <2>10. CASE ~plain
    <3>1. UNCHANGED dicts /\ kw = given
        BY <2>1, <2>5, <2>10
    <3>2. ManagerDict(call.kw)' = ManagerDict(call.kw)
        BY <2>2, <2>4, <2>6, <3>1, NamesDiffer DEF ManagerDict
    <3>3. PoolDict(call.headers)' = ManagerDict(call.kw)
      <4>1. CASE given = Null
        <5>1. PoolDict(call.headers)' = dicts["managed"]
            BY <2>1, <2>6, <3>1, <4>1 DEF PoolDict, PoolHeaders, ChosenInv, PoolsUnmanaged
        <5> QED
            BY <2>2, <4>1, <5>1 DEF ChosenInv, ManagedEmpty
      <4>2. CASE given # Null
          BY <2>2, <2>4, <2>6, <3>1, <4>2 DEF PoolDict
      <4> QED
          BY <4>1, <4>2
    <3> QED
        BY <2>7, <2>8, <3>2, <3>3 DEF CallAsChosen, AsChosen
  <2> QED
      BY <2>9, <2>10
<1> QED
    BY <1>1, <1>2

(* A pool goes on with the dict it has, or with a copy that has the *)
(* proxy's headers besides.                                         *)
LEMMA OpenChosen ==
    ASSUME ChosenInv, Open
    PROVE  CallAsChosen'
<1> DEFINE headers == IF call.headers \in {Absent, Null} THEN PoolHeaders ELSE call.headers
<1>1. CASE at' \in {"raised", "refused"}
    BY <1>1 DEF CallAsChosen, Calling
<1>2. CASE at' = "open"
  <2>1. MergeProxyHeaders(headers) /\ at = "pooled" /\ UNCHANGED <<asked, client>>
      BY <1>2 DEF Open
  <2>2. PoolDict(call.headers) = dicts[headers]
      BY DEF PoolDict
  <2>3. headers \notin {Absent, Null}
      BY NamesDiffer DEF PoolHeaders
  <2> HIDE DEF headers
  <2>4. Wanted' = Wanted /\ MadeHeaders' = MadeHeaders
      BY <2>1, ChosenStay DEF ChosenInv, Next
  <2>5. /\ Fits(dicts[headers], Wanted, MadeHeaders)
        /\ client # "pool" => Fits(ManagerDict(call.kw), Wanted, MadeHeaders)
      BY <2>1, <2>2 DEF ChosenInv, CallAsChosen, AsChosen, Calling
  <2>6. call.kw \in Arguments /\ DOMAIN call = DOMAIN NoCall
      BY DEF ChosenInv, CallNamed
  <2>7. CASE call.pool.scheme = <<"http">>
    <3>1. /\ dicts' = [dicts EXCEPT !["copy"] = Updated(dicts[headers], PoolProxyHeaders)]
          /\ call' = [call EXCEPT !.headers = "copy"]
        BY <2>1, <2>7 DEF MergeProxyHeaders
    <3>2. call'.kw = call.kw /\ call'.headers = "copy"
        BY <2>6, <3>1 DEF NoCall
    <3>3. dicts'["copy"] = Updated(dicts[headers], PoolProxyHeaders)
        BY <3>1 DEF ChosenInv, DictsNamed, Shared, Own
    <3>4. DOMAIN PoolProxyHeaders \subseteq DOMAIN ProxyDict \cap MadeHeaders
        BY DEF PoolProxyHeaders, ChosenInv, ManagedEmpty, MadeHeaders, NoDict
    <3>5. Fits(dicts'["copy"], Wanted, MadeHeaders)
        BY <2>5, <3>3, <3>4, ProxyOnTop
    <3>6. PoolDict(call.headers)' = dicts'["copy"]
        BY <3>2, NamesDiffer DEF PoolDict
    <3>7. ManagerDict(call.kw)' = ManagerDict(call.kw)
        BY <2>6, <3>1, <3>2, NamesDiffer DEF ManagerDict, Arguments, ChosenInv, DictsNamed, Shared, Own
    <3> QED
        BY <2>1, <2>4, <2>5, <3>5, <3>6, <3>7 DEF CallAsChosen, AsChosen
  <2>8. CASE call.pool.scheme # <<"http">>
    <3>1. UNCHANGED dicts /\ call' = [call EXCEPT !.headers = headers]
        BY <2>1, <2>8 DEF MergeProxyHeaders
    <3>2. call'.kw = call.kw /\ call'.headers = headers
        BY <2>6, <3>1 DEF NoCall
    <3>3. PoolDict(call.headers)' = dicts[headers] /\ ManagerDict(call.kw)' = ManagerDict(call.kw)
        BY <2>3, <3>1, <3>2 DEF PoolDict, ManagerDict
    <3> QED
        BY <2>1, <2>4, <2>5, <3>3 DEF CallAsChosen, AsChosen
  <2> QED
      BY <2>7, <2>8
<1> QED
    BY <1>1, <1>2 DEF Open

(* An answer, a redirect and another try leave the dicts of the call alone. *)
LEMMA GoesOnChosen ==
    ASSUME ChosenInv, [Next]_vars, at # "called",
           UNCHANGED <<dicts, asked, client>>,
           call'.kw = call.kw, call'.headers = call.headers,
           at' \in Calling => at \in Calling,
           at' = "called" => at \in Calling
    PROVE  CallAsChosen'
<1>1. Wanted' = Wanted /\ MadeHeaders' = MadeHeaders
    BY ChosenStay DEF ChosenInv
<1>2. /\ ManagerDict(call.kw)' = ManagerDict(call.kw)
      /\ PoolDict(call.headers)' = PoolDict(call.headers)
    BY DEF ManagerDict, PoolDict, PoolHeaders
<1> QED
    BY <1>1, <1>2 DEF ChosenInv, CallAsChosen, AsChosen

(* Each action keeps the call's headers the ones that were chosen ... *)
LEMMA CallStaysAsChosen ==
    ASSUME ChosenInv, [Next]_vars
    PROVE  CallAsChosen'
<1>1. ASSUME NEW target \in Targets, NEW given \in BOOLEAN,
             \/ AskUrlopen(target, given)
             \/ \E fields \in FieldLists :
                   \/ RequestEncodeUrl(target, given, fields)
                   \/ \E boundary \in Boundaries \cup {None} :
                         RequestEncodeBody(target, given, fields, boundary)
      PROVE  CallAsChosen'
    BY <1>1, AskedChosen, EncodeUrlChosen, EncodeBodyChosen DEF ChosenInv
<1>2. CASE Manage \/ Open
    BY <1>2, ManageChosen, OpenChosen
<1>3. CASE Send \/ TryAgain
  <2>1. /\ at # "called" /\ UNCHANGED <<dicts, asked, client, call>>
        /\ at \in Calling /\ at' # "called"
      BY <1>3 DEF Send, TryAgain, Calling
  <2> QED
      BY <2>1, GoesOnChosen
<1>4. CASE Answers \/ \E location \in Locations : Redirects(location)
  <2>1. /\ at # "called" /\ UNCHANGED <<dicts, asked, client, call>>
        /\ at \in Calling /\ at' # "called"
      BY <1>4 DEF Answers, Redirects, Respond, Calling
  <2> QED
      BY <2>1, GoesOnChosen
<1>5. CASE Follow
  <2>1. /\ at = "answered" /\ UNCHANGED <<dicts, asked, client>>
        /\ call'.kw = call.kw /\ call'.headers = call.headers
      BY <1>5 DEF Follow, ChosenInv, CallNamed, NoCall
  <2> QED
      BY <2>1, GoesOnChosen DEF Calling
<1>6. CASE Return
    BY <1>6 DEF Return, CallAsChosen, Calling
<1>7. CASE UNCHANGED vars
  <2>1. UNCHANGED <<at, dicts, asked, client, call>>
      BY <1>7 DEF vars
  <2>2. Wanted' = Wanted /\ MadeHeaders' = MadeHeaders
      BY <2>1, ChosenStay DEF ChosenInv
  <2>3. /\ ManagerDict(call.kw)' = ManagerDict(call.kw)
        /\ PoolDict(call.headers)' = PoolDict(call.headers)
      BY <2>1 DEF ManagerDict, PoolDict, PoolHeaders
  <2> QED
      BY <2>1, <2>2, <2>3 DEF ChosenInv, CallAsChosen, AsChosen
<1> QED
    BY <1>1, <1>2, <1>3, <1>4, <1>5, <1>6, <1>7 DEF Next

(* No client's method hands a pool to a manager, nor a manager its dicts. *)
LEMMA ClientsKeepTo ==
    ASSUME ChosenInv, [Next]_vars
    PROVE  ManagedEmpty' /\ PoolsUnmanaged'
<1>1. ManagedEmpty'
    BY StepsLeaveShared DEF ChosenInv, ManagedEmpty, Shared
<1>2. ASSUME NEW target \in Targets, NEW given \in BOOLEAN,
             \/ AskUrlopen(target, given)
             \/ \E fields \in FieldLists :
                   \/ RequestEncodeUrl(target, given, fields)
                   \/ \E boundary \in Boundaries \cup {None} :
                         RequestEncodeBody(target, given, fields, boundary)
      PROVE  PoolsUnmanaged'
    BY <1>2 DEF AskUrlopen, RequestEncodeUrl, RequestEncodeBody, Urlopen, PoolsUnmanaged
<1>3. ASSUME Manage \/ Open \/ Send \/ TryAgain \/ Return PROVE PoolsUnmanaged'
    BY <1>3 DEF Manage, Open, Send, TryAgain, Return, PoolsUnmanaged
<1>4. ASSUME Answers \/ \E location \in Locations : Redirects(location) PROVE PoolsUnmanaged'
    BY <1>4 DEF Answers, Redirects, Respond, PoolsUnmanaged
<1>5. ASSUME Follow PROVE PoolsUnmanaged'
    BY <1>5 DEF Follow, PoolsUnmanaged
<1>6. ASSUME UNCHANGED vars PROVE PoolsUnmanaged'
    BY <1>6 DEF vars, ChosenInv, PoolsUnmanaged
<1> QED
    BY <1>1, <1>2, <1>3, <1>4, <1>5, <1>6 DEF Next

(* What is sent are the headers that the call has then, and its body. *)
SentFits == at = "sent" => AsChosen(message.headers) /\ message.body = call.body

(* ... so that a request is sent with them ... *)
LEMMA SentAsChosen ==
    ASSUME ChosenInv, SentFits, [Next]_vars
    PROVE  SentFits'
<1>1. CASE at' # "sent"
    BY <1>1 DEF SentFits
<1>2. CASE UNCHANGED vars
  <2>1. UNCHANGED <<at, asked, client, message, call>>
      BY <1>2 DEF vars
  <2>2. Wanted' = Wanted /\ MadeHeaders' = MadeHeaders
      BY <2>1, ChosenStay DEF ChosenInv
  <2> QED
      BY <2>1, <2>2 DEF SentFits, AsChosen
<1>3. CASE Send
  <2>1. /\ at = "open" /\ UNCHANGED <<dicts, asked, call, client>>
        /\ message'.headers = dicts[call.headers] /\ message'.body = call.body
      BY <1>3 DEF Send
  <2>2. Wanted' = Wanted /\ MadeHeaders' = MadeHeaders
      BY <2>1, <1>3, ChosenStay DEF ChosenInv, Next
  <2>3. PoolDict(call.headers) = dicts[call.headers]
      BY <2>1 DEF ChosenInv, CallNamed, PoolDict
  <2>4. Fits(message'.headers, Wanted, MadeHeaders)
      BY <2>1, <2>3 DEF ChosenInv, CallAsChosen, AsChosen, Calling
  <2> QED
      BY <2>1, <2>2, <2>4 DEF SentFits, AsChosen
<1>4. at' = "sent" => Send \/ UNCHANGED vars
    BY DEF Next, AskUrlopen, RequestEncodeUrl, RequestEncodeBody, Urlopen, Manage, Open,
           Answers, Redirects, Respond, Follow, TryAgain, Return
<1> QED
    BY <1>1, <1>2, <1>3, <1>4

(* What is passed is what is chosen, but for a manager's GET by request(); *)
(* it is among what is wanted.                                             *)
LEMMA SentShows ==
    ASSUME SentFits
    PROVE  HeadersAsChosen
<1>1. DOMAIN Wanted \subseteq DOMAIN PassedHeaders \cup MadeHeaders
    BY DEF Wanted, Updated, Entry, EncodedHeaders, MadeHeaders
<1>2. \A name \in DOMAIN PassedHeaders : name \in DOMAIN Wanted /\ Wanted[name] = PassedHeaders[name]
    BY DEF Wanted, Updated
<1>3. asked.given \/ asked.way # "encode_url" \/ client = "pool" => PassedHeaders = ChosenHeaders
    BY DEF PassedHeaders, ChosenHeaders
<1>4. DOMAIN PassedHeaders \subseteq DOMAIN ChosenHeaders
    BY DEF PassedHeaders, ChosenHeaders, NoDict
<1>5. at = "sent" => Include(PassedHeaders)
    BY <1>2 DEF SentFits, AsChosen, Fits, Include
<1>6. at = "sent" => DOMAIN message.headers \subseteq DOMAIN PassedHeaders \cup MadeHeaders
    BY <1>1 DEF SentFits, AsChosen, Fits
<1> QED
    BY <1>3, <1>4, <1>5, <1>6 DEF HeadersAsChosen

(* ... as it is before any call. *)
LEMMA ChosenInit ==
    ASSUME Init
    PROVE  ChosenInv /\ SentFits
<1>1. PICK caller \in CallerDicts :
         dicts = [defaults |-> DefaultDict, caller |-> caller, proxy |-> ProxyDict,
                  managed |-> NoDict, kw |-> NoDict, copy |-> NoDict]
    BY DEF Init
<1>2. at = "idle"
    BY DEF Init
<1> QED
    BY <1>1, <1>2, NamedInit
    DEF ChosenInv, ManagedEmpty, PoolsUnmanaged, CallAsChosen, SentFits, Calling

(***************************************************************************)
(* Headers that are given, or else the client's, go along with every       *)
(* message as they are, after any redirects and retries: but for the       *)
(* proxy's own names, the Content-Type of a body that request() encodes,   *)
(* and GET by request() of a manager without headers, which loses the      *)
(* defaults (HeadersAsDocumented is refuted).  No header goes along that was  *)
(* neither chosen nor made for the request (request.py:40-42,              *)
(* connectionpool.py:411-413, poolmanager.py:42-44 and 226-252).           *)
(***************************************************************************)
THEOREM ChosenHeadersAreSent == Spec => []HeadersAsChosen
<1>1. Init => ChosenInv /\ SentFits
    BY ChosenInit
<1>2. ChosenInv /\ SentFits /\ [Next]_vars => (ChosenInv /\ SentFits)'
    BY StepsLeaveShared, CallStaysNamed, ClientsKeepTo, CallStaysAsChosen, SentAsChosen
    DEF ChosenInv
<1>3. SentFits => HeadersAsChosen
    BY SentShows
<1> QED
    BY <1>1, <1>2, <1>3, PTL DEF Spec
-----------------------------------------------------------------------------
(* The recursion of LinesOf, as the function it is. *)
Found(lines, field) ==
    CHOOSE found : found =
        [n \in 0..Len(lines) |->
            IF n = 0 THEN << >>
            ELSE IF lines[n].name.field = field THEN Append(found[n-1], lines[n])
            ELSE found[n-1]]

(* The scan for a field's lines, line by line. *)
LEMMA FoundUnfolds ==
    ASSUME NEW lines, Len(lines) \in Nat, NEW field
    PROVE  /\ LinesOf(lines, field) = Found(lines, field)[Len(lines)]
           /\ Found(lines, field)[0] = << >>
           /\ \A n \in 1..Len(lines) :
                 Found(lines, field)[n] =
                     IF lines[n].name.field = field
                     THEN Append(Found(lines, field)[n-1], lines[n])
                     ELSE Found(lines, field)[n-1]
<1> DEFINE N == Len(lines)
           Next1(n, v) == IF lines[n].name.field = field THEN Append(v, lines[n]) ELSE v
           Unfold(f, n) == [k \in 0..n |-> IF k = 0 THEN << >> ELSE Next1(k, f[k-1])]
           T == {m \in 1..N+1 : \E f : f = Unfold(f, m - 1)}
<1>1. LinesOf(lines, field) = Found(lines, field)[N]
    BY DEF LinesOf, Found
<1>2. Found(lines, field) = CHOOSE f : f = Unfold(f, N)
    BY DEF Found
<1> HIDE DEF Next1
<1>3. ASSUME NEW m \in 1..N+1, \A k \in 1..m-1 : k \in T PROVE m \in T
  <2>1. CASE m = 1
    <3> DEFINE f == [k \in 0..0 |-> << >>]
    <3>1. f = Unfold(f, 0)
        OBVIOUS
    <3>2. m - 1 = 0
        BY <2>1
    <3> HIDE DEF f
    <3>3. f = Unfold(f, m - 1)
        BY <3>1, <3>2
    <3> QED
        BY <3>3
  <2>2. CASE m # 1
    <3>1. m - 1 \in 1..m-1 /\ m - 1 \in Nat /\ m - 2 \in Nat
        BY <2>2
    <3>2. PICK f : f = Unfold(f, m - 2)
      <4>1. m - 1 \in T /\ (m - 1) - 1 = m - 2
          BY <1>3, <3>1
      <4> QED
          BY <4>1
    <3> DEFINE g == [k \in 0..m-1 |-> IF k = m - 1 THEN Next1(k, f[k-1]) ELSE f[k]]
    <3>3. \A k \in 0..m-2 : f[k] = IF k = 0 THEN << >> ELSE Next1(k, f[k-1])
        BY <3>2
    <3>4. \A k \in 0..m-2 : g[k] = f[k]
        BY <3>1
    <3>5. ASSUME NEW k \in 0..m-1 PROVE g[k] = IF k = 0 THEN << >> ELSE Next1(k, g[k-1])
      <4>1. CASE k = 0
          BY <3>1, <3>3, <3>4, <4>1
      <4>2. CASE k # 0
        <5>1. k - 1 \in 0..m-2 /\ (k # m - 1 => k \in 0..m-2)
            BY <3>1, <4>2
        <5>2. g[k-1] = f[k-1]
            BY <5>1, <3>4
        <5>3. g[k] = Next1(k, f[k-1])
            BY <5>1, <3>3, <3>4, <4>2
        <5> QED
            BY <4>2, <5>2, <5>3
      <4> QED
          BY <4>1, <4>2
    <3>6. g = [k \in 0..m-1 |-> g[k]]
        OBVIOUS
    <3> HIDE DEF g
    <3>7. g = Unfold(g, m - 1)
        BY <3>5, <3>6
    <3> QED
        BY <3>7
  <2> QED
      BY <2>1, <2>2
<1>4. N + 1 \in T
  <2>1. N + 1 \in Nat /\ N + 1 \in 1..N+1
      OBVIOUS
  <2> HIDE DEF T
  <2>2. \A m \in 1..N+1 : m \in T
      BY <1>3, <2>1, Upwards
  <2> QED
      BY <2>1, <2>2
<1>5. Found(lines, field) = Unfold(Found(lines, field), N)
  <2>1. (N + 1) - 1 = N
      OBVIOUS
  <2>2. \E f : f = Unfold(f, N)
      BY <1>4, <2>1
  <2> QED
      BY <1>2, <2>2
<1> DEFINE h == Found(lines, field)
<1> HIDE DEF h
<1>6. h = Unfold(h, N)
    BY <1>5 DEF h
<1>7. h[0] = << >> /\ \A n \in 1..N : h[n] = Next1(n, h[n-1])
    BY <1>6
<1> QED
    BY <1>1, <1>7 DEF h, Next1

HavingField(S, field) == {line \in S : line.name.field = field}

Lacks(lines, field, n) == \A i \in 1..n : lines[i].name.field # field

(* The lines found among the first n are of the field, and there are some *)
(* if there is one.                                                       *)
LEMMA FoundAreOfField ==
    ASSUME NEW S, NEW lines \in Seq(S), NEW field
    PROVE  \A n \in 0..Len(lines) :
              /\ Found(lines, field)[n] \in Seq(HavingField(S, field))
              /\ Found(lines, field)[n] = << >> <=> Lacks(lines, field, n)
<1> DEFINE N == Len(lines)
           L == {line \in S : line.name.field = field}
           h == Found(lines, field)
           P(k) == /\ h[k] \in Seq(L)
                   /\ h[k] = << >> <=> \A i \in 1..k : lines[i].name.field # field
           T == {m \in 1..N+1 : P(m - 1)}
<1>1. N \in Nat
    BY LenProperties
<1>2. h[0] = << >> /\ \A k \in 1..N : h[k] = IF lines[k].name.field = field
                                            THEN Append(h[k-1], lines[k]) ELSE h[k-1]
    BY <1>1, FoundUnfolds
<1> HIDE DEF h
<1>3. P(0)
  <2>1. << >> \in Seq(L)
      BY EmptySeq
  <2> QED
      BY <1>2, <2>1
<1>4. ASSUME NEW k \in 1..N, P(k - 1) PROVE P(k)
  <2>1. lines[k] \in S
      BY ElementOfSeq
  <2>2. \A i \in 1..k : i = k \/ i \in 1..k-1
      BY <1>1
  <2>3. CASE lines[k].name.field = field
    <3>1. lines[k] \in L
        BY <2>1, <2>3
    <3> HIDE DEF L
    <3>2. Append(h[k-1], lines[k]) \in Seq(L) /\ Append(h[k-1], lines[k]) # << >>
        BY <1>4, <3>1, AppendProperties
    <3>3. h[k] = Append(h[k-1], lines[k])
        BY <1>2, <2>3
    <3>4. ~ \A i \in 1..k : lines[i].name.field # field
        BY <1>1, <2>3
    <3>5. h[k] \in Seq(L) /\ h[k] # << >>
        BY <3>2, <3>3
    <3> QED
        BY <3>4, <3>5
  <2>4. CASE lines[k].name.field # field
    <3>1. h[k] = h[k-1]
        BY <1>2, <2>4
    <3>2. (\A i \in 1..k : lines[i].name.field # field)
              <=> \A i \in 1..k-1 : lines[i].name.field # field
        BY <1>1, <2>2, <2>4
    <3> QED
        BY <1>4, <3>1, <3>2
  <2> QED
      BY <2>3, <2>4
<1> HIDE DEF P
<1>5. ASSUME NEW m \in 1..N+1, \A k \in 1..m-1 : k \in T PROVE m \in T
  <2>1. CASE m = 1
    <3>1. m - 1 = 0
        BY <2>1
    <3> QED
        BY <1>3, <3>1
  <2>2. CASE m # 1
    <3>1. m - 1 \in 1..m-1 /\ m - 1 \in 1..N
        BY <1>1, <2>2
    <3>2. P((m - 1) - 1)
        BY <1>5, <3>1
    <3> QED
        BY <1>4, <3>1, <3>2
  <2> QED
      BY <2>1, <2>2
<1> HIDE DEF T
<1>6. \A m \in 1..N+1 : m \in T
  <2>1. N + 1 \in Nat
      BY <1>1
  <2> QED
      BY <1>5, <2>1, Upwards
<1>7. ASSUME NEW n \in 0..N PROVE P(n)
  <2>1. n + 1 \in 1..N+1 /\ (n + 1) - 1 = n
      BY <1>1
  <2>2. P((n + 1) - 1)
      BY <1>6, <2>1 DEF T
  <2> QED
      BY <2>1, <2>2
<1> QED
    BY <1>7 DEF P, L, h, HavingField, Lacks

(***************************************************************************)
(* A response's header dict has its fields, and for each its lines.        *)
(***************************************************************************)
LEMMA LinesAreKept ==
    ASSUME NEW S, NEW lines \in Seq(S)
    PROVE  FromLines(lines) = [field \in {lines[i].name.field : i \in 1..Len(lines)} |->
                                  LinesOf(lines, field)]
<1> DEFINE N == Len(lines)
           Fields(n) == {lines[i].name.field : i \in 1..n}
           G(n) == [field \in Fields(n) |-> Found(lines, field)[n]]
           Step(n, v) == Add(v, lines[n])
           Unfold(f) == [n \in 0..N |-> IF n = 0 THEN NoHeaders ELSE Step(n, f[n-1])]
           e == [n \in 0..N |-> G(n)]
           h == CHOOSE f : f = Unfold(f)
<1>1. N \in Nat
    BY LenProperties
<1>2. FromLines(lines) = h[N]
    BY DEF FromLines
<1>3. G(0) = NoHeaders
  <2>1. Fields(0) = {}
      OBVIOUS
  <2> QED
      BY <2>1 DEF NoHeaders
<1>4. ASSUME NEW n \in 1..N PROVE G(n) = Step(n, G(n-1))
  <2> DEFINE f == lines[n].name.field
             d == G(n-1)
  <2>1. n - 1 \in 0..N /\ \A i \in 1..n : i = n \/ i \in 1..n-1
      BY <1>1
  <2>2. DOMAIN d = Fields(n-1) /\ Fields(n) = Fields(n-1) \cup {f}
      BY <1>1, <2>1
  <2>3. ASSUME NEW field \in Fields(n)
        PROVE  Found(lines, field)[n] =
                   IF field = f THEN Append(Entries(d, field), lines[n]) ELSE d[field]
    <3>1. Found(lines, field)[n] = IF f = field THEN Append(Found(lines, field)[n-1], lines[n])
                                   ELSE Found(lines, field)[n-1]
        BY <1>1, FoundUnfolds
    <3>2. field \in Fields(n-1) => d[field] = Found(lines, field)[n-1]
        OBVIOUS
    <3>3. field \notin Fields(n-1) => Found(lines, field)[n-1] = << >>
      <4>1. field \notin Fields(n-1) => Lacks(lines, field, n-1)
          BY DEF Lacks
      <4>2. \A k \in 0..N :
               Found(lines, field)[k] = << >> <=> Lacks(lines, field, k)
          BY FoundAreOfField
      <4> QED
          BY <2>1, <4>1, <4>2
    <3> HIDE DEF f, d, Fields
    <3> QED
        BY <2>2, <2>3, <3>1, <3>2, <3>3 DEF Entries
  <2> HIDE DEF d, Fields
  <2>4. G(n) = [field \in DOMAIN d \cup {f} |->
                   IF field = f THEN Append(Entries(d, field), lines[n]) ELSE d[field]]
      BY <2>2, <2>3
  <2> QED
      BY <2>4 DEF Add, d
<1> HIDE DEF G, Step
<1>5. e = Unfold(e)
    BY <1>3, <1>4
<1>6. h = Unfold(h)
    BY <1>5
<1> HIDE DEF h, e
<1>7. h[0] = NoHeaders /\ \A n \in 1..N : h[n] = Step(n, h[n-1])
    BY <1>1, <1>6
<1> DEFINE T == {m \in 1..N+1 : h[m-1] = G(m-1)}
<1>8. ASSUME NEW m \in 1..N+1, \A k \in 1..m-1 : k \in T PROVE m \in T
  <2>1. CASE m = 1
    <3>1. m - 1 = 0
        BY <2>1
    <3> QED
        BY <1>3, <1>7, <3>1
  <2>2. CASE m # 1
    <3>1. m - 1 \in 1..m-1 /\ m - 1 \in 1..N
        BY <1>1, <2>2
    <3>2. h[(m-1)-1] = G((m-1)-1)
        BY <1>8, <3>1
    <3> QED
        BY <1>4, <1>7, <3>1, <3>2
  <2> QED
      BY <2>1, <2>2
<1> HIDE DEF T
<1>9. h[N] = G(N)
  <2>1. N + 1 \in Nat /\ N + 1 \in 1..N+1 /\ (N + 1) - 1 = N
      BY <1>1
  <2>2. N + 1 \in T
      BY <1>8, <2>1, Upwards
  <2>3. h[(N + 1) - 1] = G((N + 1) - 1)
      BY <2>2 DEF T
  <2> QED
      BY <2>1, <2>3
<1>10. G(N) = [field \in Fields(N) |-> LinesOf(lines, field)]
    BY <1>1, FoundUnfolds DEF G
<1> QED
    BY <1>2, <1>9, <1>10

(* The header dict that an HTTPResponse makes of the lines' dict. *)
LEMMA HeadersOfLines ==
    ASSUME NEW F, NEW W, NEW lines \in Seq([name : [field : F, spelling : F], value : Seq(W)]),
           NEW line \in Range(lines)
    PROVE  LET data   == ResponseHeaders(lines)
               same   == LinesOf(lines, line.name.field)
               values == [i \in DOMAIN same |-> same[i].value]
           IN  /\ Item(data, line.name) = FlattenSeq(values)
               /\ (\A i \in DOMAIN values : Len(values[i]) = 1) =>
                     GetList(data, line.name) = values
               /\ {name \in Names(data) : name.field = line.name.field} = {same[1].name}
               /\ Equal(data, FromLines(lines))
<1> DEFINE S      == [name : [field : F, spelling : F], value : Seq(W)]
           N      == Len(lines)
           all    == {lines[i].name.field : i \in 1..N}
           f      == line.name.field
           L      == FromLines(lines)
           data   == ResponseHeaders(lines)
           same   == LinesOf(lines, f)
           values == [i \in DOMAIN same |-> same[i].value]
           Value(field) == FlattenSeq([i \in DOMAIN L[field] |-> L[field][i].value])
<1>1. N \in Nat /\ lines \in Seq(S) /\ DOMAIN lines = 1..N
    BY LenProperties
<1>2. L = [field \in all |-> LinesOf(lines, field)]
    BY <1>1, LinesAreKept
<1>3. f \in all
    BY <1>1 DEF Range
<1> HIDE DEF S, N, f, L
<1>4. ASSUME NEW field \in all
      PROVE  /\ L[field] \in Seq(HavingField(S, field)) /\ L[field] # << >>
             /\ L[field][1] \in HavingField(S, field) /\ L[field][1].name.field = field
  <2>1. L[field] = LinesOf(lines, field)
      BY <1>2
  <2>2. N \in 0..N
      BY <1>1
  <2>3. LinesOf(lines, field) = Found(lines, field)[N]
      BY <1>1, FoundUnfolds DEF N
  <2>4. \A n \in 0..N :
              /\ Found(lines, field)[n] \in Seq(HavingField(S, field))
              /\ Found(lines, field)[n] = << >> <=> Lacks(lines, field, n)
      BY <1>1, FoundAreOfField DEF N
  <2>5. Found(lines, field)[N] \in Seq(HavingField(S, field))
      BY <2>2, <2>4
  <2>6. Found(lines, field)[N] # << >>
    <3>1. PICK i \in 1..N : lines[i].name.field = field
        BY <1>4 DEF all
    <3>2. ~ Lacks(lines, field, N)
        BY <3>1 DEF Lacks
    <3> QED
        BY <2>2, <2>4, <3>2
  <2> DEFINE H == HavingField(S, field)
             s == L[field]
  <2>7. s \in Seq(H) /\ s # << >>
      BY <2>1, <2>3, <2>5, <2>6
  <2>8. s[1] \in H
    <3> HIDE DEF s, H
    <3>1. Len(s) \in Nat /\ Len(s) # 0
        BY <2>7, LenProperties, EmptySeq
    <3>2. 1 \in 1..Len(s)
        BY <3>1
    <3> QED
        BY <2>7, <3>2, ElementOfSeq
  <2> QED
      BY <2>7, <2>8 DEF HavingField
<1>5. \A name : Item(L, name) = Value(name.field)
    BY DEF Item
<1> HIDE DEF Value, all
<1>6. data = [field \in all |-> <<[name |-> L[field][1].name, value |-> Value(field)]>>]
  <2>1. \A field \in all : Item(L, L[field][1].name) = Value(field)
      BY <1>4, <1>5
  <2>2. DOMAIN L = all /\ DOMAIN NoHeaders = {}
      BY <1>2 DEF NoHeaders
  <2>3. data = [field \in DOMAIN NoHeaders \cup DOMAIN L |->
                   IF field \in DOMAIN L
                   THEN <<[name |-> L[field][1].name, value |-> Item(L, L[field][1].name)]>>
                   ELSE NoHeaders[field]]
      BY DEF ResponseHeaders, Update, L
  <2> QED
      BY <2>1, <2>2, <2>3
<1> HIDE DEF data
<1>7. ASSUME NEW name, name.field \in all PROVE Item(data, name) = Value(name.field)
  <2> DEFINE r == [name |-> L[name.field][1].name, value |-> Value(name.field)]
  <2>1. data[name.field] = <<r>> /\ r.value = Value(name.field)
      BY <1>6, <1>7
  <2> HIDE DEF r
  <2>2. [i \in DOMAIN <<r>> |-> <<r>>[i].value] = <<r.value>>
      OBVIOUS
  <2>3. Item(data, name) = FlattenSeq(<<r.value>>)
      BY <2>1, <2>2 DEF Item
  <2> QED
      BY <2>1, <2>3, OneJoined
<1>8. L[f] = same /\ Value(f) = FlattenSeq(values)
    BY <1>2, <1>3 DEF Value
<1>9. Item(data, line.name) = FlattenSeq(values)
    BY <1>3, <1>7, <1>8 DEF f
<1>10. (\A i \in DOMAIN values : Len(values[i]) = 1) => GetList(data, line.name) = values
  <2> SUFFICES ASSUME \A i \in DOMAIN values : Len(values[i]) = 1
               PROVE  GetList(data, line.name) = values
      OBVIOUS
  <2> DEFINE n == Len(same)
  <2>1. same \in Seq(HavingField(S, f)) /\ same # << >>
      BY <1>3, <1>4, <1>8
  <2>2. n \in Nat /\ DOMAIN same = 1..n /\ \A i \in 1..n : same[i] \in S
    <3>1. \A i \in 1..n : same[i] \in HavingField(S, f)
        BY <2>1, ElementOfSeq
    <3> QED
        BY <2>1, <3>1, LenProperties DEF HavingField
  <2>3. values \in [1..n -> Seq(W)]
      BY <2>2 DEF S
  <2>4. values \in Seq(Seq(W)) /\ Len(values) = n /\ DOMAIN values = 1..n
      BY <2>2, <2>3, SeqDef
  <2>5. values # << >>
    <3>1. n # 0
      <4> HIDE DEF same
      <4> QED
          BY <2>1, EmptySeq
    <3> QED
        BY <2>4, <3>1
  <2> HIDE DEF values, n
  <2>6. FlattenSeq(values) = [i \in 1..n |-> values[i][1]]
      BY <2>4, <2>5, SinglesJoined
  <2>7. GetList(data, line.name) = [i \in 1..n |-> <<values[i][1]>>]
    <3> DEFINE joined == Item(data, line.name)
    <3>1. joined = [i \in 1..n |-> values[i][1]]
        BY <1>9, <2>6
    <3> HIDE DEF joined
    <3>2. f \in DOMAIN data
        BY <1>3, <1>6
    <3>3. GetList(data, line.name) = [i \in DOMAIN joined |-> <<joined[i]>>]
        BY <3>2 DEF GetList, joined, f
    <3> QED
        BY <3>1, <3>3
  <2>8. \A i \in 1..n : values[i] = <<values[i][1]>>
    <3> TAKE i \in 1..n
    <3> DEFINE v == values[i]
    <3>1. v \in Seq(W) /\ Len(v) = 1
        BY <2>3, <2>4
    <3> HIDE DEF v
    <3>2. v = <<v[1]>>
        BY <3>1
    <3> QED
        BY <3>2 DEF v
  <2>9. values = [i \in 1..n |-> values[i]]
      BY <2>3
  <2> QED
      BY <2>7, <2>8, <2>9
<1>11. {name \in Names(data) : name.field = f} = {same[1].name}
  <2>1. Names(data) = {L[field][1].name : field \in all}
      BY <1>6 DEF Names
  <2>2. \A field \in all : L[field][1].name.field = field
      BY <1>4
  <2> QED
      BY <1>3, <1>8, <2>1, <2>2
<1>12. Equal(data, L)
  <2>1. DOMAIN data = DOMAIN L
      BY <1>2, <1>6
  <2>2. Update(NoHeaders, L) = data
      BY DEF data, ResponseHeaders, L
  <2> QED
      BY <2>1, <2>2 DEF Equal
<1> QED
    BY <1>9, <1>10, <1>11, <1>12 DEF data, L, f

(* Header lines have a name and a list of words, redirects an URL for it. *)
LinesAreHeaders ==
    \E F, W : /\ \A lines \in ResponseLines :
                    lines \in Seq([name : [field : F, spelling : F], value : Seq(W)])
              /\ \A location \in Locations : Text(location) \in Seq(W)
              /\ {"location", "Location"} \subseteq F

LocationLines(location) == <<[name |-> Location, value |-> Text(location)]>>

(* A response's headers are made of its lines. *)
HeadersRead ==
    \/ answer = NoAnswer
    \/ /\ answer.headers = ResponseHeaders(answer.lines)
       /\ answer.lines \in ResponseLines \cup {LocationLines(location) : location \in Locations}

(* Each action leaves the response's headers read. *)
LEMMA HeadersStayRead ==
    ASSUME HeadersRead, [Next]_vars
    PROVE  HeadersRead'
<1>1. CASE UNCHANGED answer
    BY <1>1 DEF HeadersRead
<1>2. CASE answer' = NoAnswer
    BY <1>2 DEF HeadersRead
<1>3. ASSUME NEW status, NEW lines, NEW location, Respond(status, lines, location),
             lines \in ResponseLines \cup {LocationLines(l) : l \in Locations}
      PROVE  HeadersRead'
    BY <1>3 DEF HeadersRead, Respond
<1>4. CASE Answers
    BY <1>3, <1>4 DEF Answers
<1>5. ASSUME NEW location \in Locations, Redirects(location) PROVE HeadersRead'
  <2>1. PICK status \in {"redirect", "see_other"} :
           Respond(status, LocationLines(location), location)
      BY <1>5 DEF Redirects, LocationLines
  <2> QED
      BY <1>3, <2>1
<1>6. ASSUME NEW target \in Targets, NEW given \in BOOLEAN,
             \/ AskUrlopen(target, given)
             \/ \E fields \in FieldLists :
                   \/ RequestEncodeUrl(target, given, fields)
                   \/ \E boundary \in Boundaries \cup {None} :
                         RequestEncodeBody(target, given, fields, boundary)
      PROVE  UNCHANGED answer
    BY <1>6 DEF AskUrlopen, RequestEncodeUrl, RequestEncodeBody, Urlopen
<1>7. ASSUME Manage \/ Open \/ Send \/ TryAgain PROVE UNCHANGED answer
    BY <1>7 DEF Manage, Open, Send, TryAgain
<1>8. ASSUME Follow \/ Return PROVE answer' = NoAnswer
    BY <1>8 DEF Follow, Return
<1>9. ASSUME UNCHANGED vars PROVE UNCHANGED answer
    BY <1>9 DEF vars
<1> QED
    BY <1>1, <1>2, <1>4, <1>5, <1>6, <1>7, <1>8, <1>9 DEF Next

(***************************************************************************)
(* Of any response, however many lines its header has and however they     *)
(* spell its fields, the header dict gives all values of a field in their  *)
(* order, and each field once, as it was spelt first                       *)
(* (_collections.py:101-186, response.py:82-84 and 300-302).               *)
(***************************************************************************)
THEOREM ResponseHeadersSurvive ==
    ASSUME LinesAreHeaders
    PROVE  Spec => []HeadersSurvive
<1>1. Init => HeadersRead
    BY DEF Init, HeadersRead
<1>2. HeadersRead /\ [Next]_vars => HeadersRead'
    BY HeadersStayRead
<1>3. HeadersRead => HeadersSurvive
  <2> SUFFICES ASSUME HeadersRead, NEW line \in Range(answer.lines)
               PROVE  LET same   == LinesOf(answer.lines, line.name.field)
                          values == [i \in DOMAIN same |-> same[i].value]
                      IN  /\ Item(answer.headers, line.name) = FlattenSeq(values)
                          /\ (\A i \in DOMAIN values : Len(values[i]) = 1) =>
                                GetList(answer.headers, line.name) = values
                          /\ {name \in Names(answer.headers) : name.field = line.name.field}
                                = {same[1].name}
                          /\ Equal(answer.headers, FromLines(answer.lines))
      BY DEF HeadersSurvive
  <2>1. answer # NoAnswer
    <3>1. NoAnswer.lines = << >> /\ Range(<< >>) = {}
        BY DEF NoAnswer, Range
    <3> QED
        BY <3>1
  <2>2. PICK F, W : /\ \A lines \in ResponseLines :
                          lines \in Seq([name : [field : F, spelling : F], value : Seq(W)])
                    /\ \A location \in Locations : Text(location) \in Seq(W)
                    /\ {"location", "Location"} \subseteq F
      BY DEF LinesAreHeaders
  <2>3. answer.lines \in Seq([name : [field : F, spelling : F], value : Seq(W)])
    <3>1. CASE answer.lines \in ResponseLines
        BY <2>2, <3>1
    <3>2. ASSUME NEW location \in Locations, answer.lines = LocationLines(location)
          PROVE  answer.lines \in Seq([name : [field : F, spelling : F], value : Seq(W)])
      <4> DEFINE item == [name |-> Location, value |-> Text(location)]
                 Items == [name : [field : F, spelling : F], value : Seq(W)]
      <4>1. item \in Items
          BY <2>2 DEF Location
      <4>2. answer.lines = <<item>>
          BY <3>2 DEF LocationLines
      <4> HIDE DEF item, Items
      <4>3. answer.lines \in Seq(Items)
          BY <4>1, <4>2
      <4> QED
          BY <4>3 DEF Items
    <3> QED
        BY <2>1, <3>1, <3>2 DEF HeadersRead
  <2>4. LET data   == ResponseHeaders(answer.lines)
            same   == LinesOf(answer.lines, line.name.field)
            values == [i \in DOMAIN same |-> same[i].value]
        IN  /\ Item(data, line.name) = FlattenSeq(values)
            /\ (\A i \in DOMAIN values : Len(values[i]) = 1) =>
                  GetList(data, line.name) = values
            /\ {name \in Names(data) : name.field = line.name.field} = {same[1].name}
            /\ Equal(data, FromLines(answer.lines))
      BY <2>3, HeadersOfLines, Zenon
  <2>5. answer.headers = ResponseHeaders(answer.lines)
      BY <2>1 DEF HeadersRead
  <2> QED
      BY <2>4, <2>5, Zenon
<1> QED
    BY <1>1, <1>2, <1>3, PTL DEF Spec
-----------------------------------------------------------------------------
(***************************************************************************)
(* Fields in a body, and back.  Delimiters are where the blocks of the     *)
(* fields begin, and at the end, so the blocks are the parts that are      *)
(* found; in each the first empty line comes behind the headers.           *)
(***************************************************************************)
Delimiters(boundary) == {Delimiter(boundary), LastDelimiter(boundary)}

(* The recursion of Cuts, as the function it is. *)
CutsUpTo(body, boundary) ==
    CHOOSE cuts : cuts =
        [n \in 0..Len(body) |->
            IF n = 0 THEN << >>
            ELSE IF body[n] \in Delimiters(boundary) THEN Append(cuts[n-1], n) ELSE cuts[n-1]]

(* The scan for a body's delimiters, line by line. *)
LEMMA CutsUnfold ==
    ASSUME NEW body, Len(body) \in Nat, NEW boundary
    PROVE  LET cuts == CutsUpTo(body, boundary) IN
           /\ Cuts(body, boundary) = cuts[Len(body)]
           /\ cuts[0] = << >>
           /\ \A n \in 1..Len(body) :
                 cuts[n] = IF body[n] \in Delimiters(boundary) THEN Append(cuts[n-1], n)
                           ELSE cuts[n-1]
<1> DEFINE N == Len(body)
           V == Seq(Nat)
           isCut == [n \in 1..N |-> body[n] \in Delimiters(boundary)]
           step == [p \in (1..N) \X V |-> IF isCut[p[1]] THEN Append(p[2], p[1]) ELSE p[2]]
           Next1(n, v) == IF body[n] \in Delimiters(boundary) THEN Append(v, n) ELSE v
           Unfold(f) == [n \in 0..N |-> IF n = 0 THEN << >> ELSE Next1(n, f[n-1])]
<1>1. Cuts(body, boundary) = CutsUpTo(body, boundary)[N]
    BY DEF Cuts, CutsUpTo, Delimiters
<1>2. CutsUpTo(body, boundary) = CHOOSE f : f = Unfold(f)
    BY DEF CutsUpTo
<1>3. IsStep(step, N, V)
  <2>1. ASSUME NEW p \in (1..N) \X V
        PROVE  (IF isCut[p[1]] THEN Append(p[2], p[1]) ELSE p[2]) \in V
    <3>1. p[1] \in Nat /\ p[2] \in V
        OBVIOUS
    <3>2. Append(p[2], p[1]) \in V
        BY <3>1, AppendProperties
    <3> QED
        BY <3>1, <3>2
  <2> QED
      BY <2>1 DEF IsStep
<1>4. PICK f : MadeInSteps(f, N, V, << >>, step)
  <2>1. << >> \in V
      BY EmptySeq
  <2> HIDE DEF N, V, step
  <2> QED
      BY <1>3, <2>1, StepByStep DEF N
<1>5. f = Unfold(f)
  <2>1. f \in [0..N -> V] /\ f[0] = << >> /\ \A n \in 1..N : f[n] = step[<<n, f[n-1]>>]
    <3> HIDE DEF N, V, step
    <3> QED
        BY <1>4 DEF MadeInSteps
  <2>2. ASSUME NEW n \in 1..N
        PROVE  f[n] = Next1(n, f[n-1])
    <3>1. n - 1 \in 0..N
        OBVIOUS
    <3>2. f[n-1] \in V
      <4> HIDE DEF V, N
      <4> QED
          BY <2>1, <3>1
    <3> HIDE DEF V
    <3>3. step[<<n, f[n-1]>>] = IF isCut[n] THEN Append(f[n-1], n) ELSE f[n-1]
        BY <3>2
    <3>4. isCut[n] = (body[n] \in Delimiters(boundary))
        OBVIOUS
    <3> HIDE DEF step, isCut, N
    <3> QED
        BY <2>1, <3>3, <3>4
  <2>3. f = [n \in 0..N |-> f[n]]
    <3> HIDE DEF N, V
    <3> QED
        BY <2>1
  <2>4. ASSUME NEW n \in 0..N PROVE f[n] = IF n = 0 THEN << >> ELSE Next1(n, f[n-1])
    <3>1. n = 0 \/ n \in 1..N
        OBVIOUS
    <3> HIDE DEF Next1, N, step, V
    <3> QED
        BY <2>1, <2>2, <3>1
  <2> HIDE DEF step, V, Next1
  <2> QED
      BY <2>3, <2>4
<1>6. CutsUpTo(body, boundary) = Unfold(CutsUpTo(body, boundary))
    BY <1>2, <1>5
<1> DEFINE h == CutsUpTo(body, boundary)
<1> HIDE DEF h, Next1
<1>7. h = Unfold(h)
    BY <1>6 DEF h
<1>8. h[0] = << >> /\ \A n \in 1..N : h[n] = Next1(n, h[n-1])
    BY <1>7
<1> QED
    BY <1>1, <1>8 DEF h, Next1

(* A block starts with the delimiter and has no other. *)
IsBlock(block, boundary) ==
    /\ Len(block) >= 1 /\ block[1] = Delimiter(boundary)
    /\ \A j \in 2..Len(block) : block[j] \notin Delimiters(boundary)

(* A body of blocks is cut where each block starts, and at the last line. *)
LEMMA CutsAreStarts ==
    ASSUME NEW S, NEW blocks \in Seq(Seq(S)), NEW boundary, LastDelimiter(boundary) \in S,
           \A k \in 1..Len(blocks) : IsBlock(blocks[k], boundary),
           NEW ends, EndsOfBlocks(blocks, ends)
    PROVE  LET body == Append(FlattenSeq(blocks), LastDelimiter(boundary)) IN
           Cuts(body, boundary) = [k \in 1..Len(blocks) + 1 |-> ends[k-1] + 1]
<1> DEFINE n == Len(blocks)
           whole == FlattenSeq(blocks)
           last == LastDelimiter(boundary)
           body == Append(whole, last)
           cuts == CutsUpTo(body, boundary)
           Starts(k) == [i \in 1..k |-> ends[i-1] + 1]
           T == {k \in 1..n+1 : cuts[ends[k-1] + 1] = Starts(k)}
<1>1. n \in Nat /\ whole \in Seq(S)
    BY LenProperties, JoinedInBlocks
<1>2. /\ ends \in [0..n -> Nat] /\ ends[0] = 0 /\ ends[n] = Len(whole)
      /\ \A k \in 1..n : /\ ends[k] = ends[k-1] + Len(blocks[k])
                         /\ \A j \in 1..Len(blocks[k]) : whole[ends[k-1] + j] = blocks[k][j]
    BY DEF EndsOfBlocks
<1> HIDE DEF whole
<1>3. /\ Len(whole) \in Nat /\ body \in Seq(S) /\ Len(body) = Len(whole) + 1
      /\ \A i \in 1..Len(whole) : body[i] = whole[i]
      /\ body[Len(whole) + 1] = last
  <2> HIDE DEF last
  <2>1. Append(whole, last) \in Seq(S) /\ Len(Append(whole, last)) = Len(whole) + 1
        /\ \A i \in 1..Len(whole) + 1 :
              Append(whole, last)[i] = IF i <= Len(whole) THEN whole[i] ELSE last
      BY <1>1, AppendProperties DEF last
  <2>2. Len(whole) \in Nat
      BY <1>1, LenProperties
  <2> QED
      BY <2>1, <2>2
<1> HIDE DEF body
<1>4. /\ Cuts(body, boundary) = cuts[Len(body)] /\ cuts[0] = << >>
      /\ \A i \in 1..Len(body) : cuts[i] = IF body[i] \in Delimiters(boundary)
                                          THEN Append(cuts[i-1], i) ELSE cuts[i-1]
  <2>1. Len(body) \in Nat
      BY <1>3
  <2> QED
      BY <2>1, CutsUnfold
<1> HIDE DEF cuts
<1>5. \A k \in 0..n : ends[k] \in Nat /\ ends[k] <= Len(whole)
    BY EndsInside DEF whole
<1>6. ASSUME NEW k \in 1..n+1 PROVE body[ends[k-1] + 1] \in Delimiters(boundary)
  <2>1. CASE k = n + 1
    <3>1. k - 1 = n
        BY <1>1, <2>1
    <3> QED
        BY <1>2, <1>3, <3>1 DEF Delimiters, last
  <2>2. CASE k # n + 1
    <3>1. k \in 1..n /\ k - 1 \in 0..n
        BY <1>1, <2>2
    <3>2. blocks[k] \in Seq(S) /\ Len(blocks[k]) >= 1 /\ blocks[k][1] = Delimiter(boundary)
        BY <3>1, ElementOfSeq DEF IsBlock
    <3>3. Len(blocks[k]) \in Nat
        BY <3>2, LenProperties
    <3>4. whole[ends[k-1] + 1] = blocks[k][1]
      <4>1. 1 \in 1..Len(blocks[k])
          BY <3>2, <3>3
      <4> HIDE DEF n
      <4> QED
          BY <1>2, <3>1, <4>1
    <3>5. ends[k-1] + 1 \in 1..Len(whole)
      <4>1. ends[k-1] \in Nat /\ ends[k] \in Nat /\ ends[k] <= Len(whole)
        <5>1. k \in 0..n
            BY <3>1
        <5> HIDE DEF n
        <5> QED
            BY <1>5, <3>1, <5>1
      <4>2. ends[k] = ends[k-1] + Len(blocks[k])
        <5> HIDE DEF n
        <5> QED
            BY <1>2, <3>1
      <4> DEFINE e == ends[k-1]
                 b == Len(blocks[k])
      <4>3. e \in Nat /\ b \in Nat /\ b >= 1 /\ e + b <= Len(whole)
          BY <3>2, <3>3, <4>1, <4>2
      <4> HIDE DEF e, b
      <4>4. e + 1 \in 1..Len(whole)
          BY <1>3, <4>3
      <4> QED
          BY <4>4 DEF e
    <3> HIDE DEF n
    <3> QED
        BY <1>3, <3>2, <3>4, <3>5 DEF Delimiters
  <2> QED
      BY <2>1, <2>2
<1>7. ASSUME NEW k \in 1..n+1, \A l \in 1..k-1 : l \in T PROVE k \in T
  <2>1. CASE k = 1
    <3>1. k - 1 = 0 /\ ends[k-1] = 0
        BY <1>1, <1>2, <2>1
    <3>2. 1 \in 1..Len(body)
        BY <1>3
    <3>a. body[1] \in Delimiters(boundary)
      <4>1. body[ends[k-1] + 1] \in Delimiters(boundary)
          BY <1>6
      <4>2. ends[k-1] + 1 = 1
          BY <3>1
      <4> QED
          BY <4>1, <4>2
    <3>3. cuts[1] = Append(cuts[0], 1)
      <4>1. cuts[1] = Append(cuts[1-1], 1)
          BY <1>4, <3>2, <3>a
      <4> QED
          BY <4>1
    <3>4. Append(<< >>, 1) = [i \in 1..1 |-> 1]
        OBVIOUS
    <3>5. Starts(1) = [i \in 1..1 |-> 1]
        BY <1>2
    <3>6. ends[k-1] + 1 = 1
        BY <3>1
    <3> QED
        BY <1>4, <2>1, <3>3, <3>4, <3>5, <3>6
  <2>2. CASE k # 1
    <3> DEFINE j == k - 1
               e == ends[j-1] + 1
               b == Len(blocks[j])
    <3>1. j \in 1..k-1 /\ j \in 1..n /\ j \in 0..n /\ j - 1 \in 0..n /\ k = j + 1 /\ j \in Nat
        BY <1>1, <2>2
    <3>2. cuts[e] = Starts(j)
        BY <1>7, <3>1
    <3>3. blocks[j] \in Seq(S) /\ IsBlock(blocks[j], boundary)
        BY <3>1, ElementOfSeq
    <3>4. b \in Nat /\ b >= 1
        BY <3>3, LenProperties DEF IsBlock
    <3>5. ends[j-1] \in Nat /\ ends[j] = ends[j-1] + b /\ ends[j] \in Nat /\ ends[j] <= Len(whole)
      <4> HIDE DEF n, j
      <4> QED
          BY <1>2, <1>5, <3>1
    <3>6. e \in Nat /\ e - 1 + b = ends[j] /\ e - 1 + b <= Len(whole) /\ e - 1 >= 0
      <4> DEFINE x == ends[j-1]
      <4>1. x \in Nat /\ x + b = ends[j] /\ x + b <= Len(whole) /\ e = x + 1
          BY <3>5
      <4> HIDE DEF x, b, e, j
      <4> QED
          BY <1>3, <3>4, <4>1
    <3>7. \A i \in 2..b : whole[e - 1 + i] = blocks[j][i] /\ blocks[j][i] \notin Delimiters(boundary)
      <4>1. \A i \in 1..b : whole[ends[j-1] + i] = blocks[j][i]
        <5> HIDE DEF n, j
        <5> QED
            BY <1>2, <3>1
      <4>2. e - 1 = ends[j-1]
        <5> HIDE DEF j
        <5> QED
            BY <3>5
      <4>3. \A i \in 2..b : i \in 1..b
          BY <3>4
      <4> HIDE DEF j, e, b
      <4> QED
          BY <3>3, <4>1, <4>2, <4>3 DEF IsBlock, b
    <3> DEFINE R == {i \in 1..b : cuts[e - 1 + i] = Starts(j)}
    <3> HIDE DEF e, b
    <3>8. ASSUME NEW i \in 1..b, \A l \in 1..i-1 : l \in R PROVE i \in R
      <4>1. CASE i = 1
        <5>1. e - 1 + i = e
            BY <3>6, <4>1
        <5> QED
            BY <3>2, <5>1
      <4>2. CASE i # 1
        <5>1. /\ i - 1 \in 1..i-1 /\ i \in 2..b /\ e - 1 + i \in 1..Len(body)
              /\ e - 1 + i \in 1..Len(whole) /\ (e - 1 + i) - 1 = e - 1 + (i - 1)
            BY <1>3, <3>4, <3>6, <4>2
        <5>2. body[e - 1 + i] \notin Delimiters(boundary)
          <6>1. body[e - 1 + i] = whole[e - 1 + i]
              BY <1>3, <5>1
          <6> QED
              BY <3>7, <5>1, <6>1
        <5>3. cuts[e - 1 + i] = cuts[(e - 1 + i) - 1]
            BY <1>4, <5>1, <5>2
        <5>4. i - 1 \in R
            BY <3>8, <5>1
        <5> QED
            BY <5>1, <5>3, <5>4
      <4> QED
          BY <4>1, <4>2
    <3> HIDE DEF R
    <3>9. b \in R
      <4>1. \A i \in 1..b : i \in R
          BY <3>4, <3>8, Upwards
      <4> QED
          BY <3>4, <4>1
    <3>10. cuts[ends[j]] = Starts(j)
        BY <3>6, <3>9 DEF R
    <3>11. cuts[ends[j] + 1] = Append(cuts[ends[j]], ends[j] + 1)
      <4>1. ends[j] + 1 \in 1..Len(body) /\ (ends[j] + 1) - 1 = ends[j]
          BY <1>3, <3>5
      <4>2. body[ends[j] + 1] \in Delimiters(boundary)
          BY <1>6
      <4> HIDE DEF j
      <4> QED
          BY <1>4, <4>1, <4>2
    <3>12. Append(Starts(j), ends[j] + 1) = Starts(k)
      <4> DEFINE s == Starts(j)
                 t == Starts(k)
      <4>1. \A i \in 1..k : ends[i-1] + 1 \in Nat
        <5>1. \A i \in 1..k : i - 1 \in 0..n
            BY <1>1
        <5> HIDE DEF n
        <5> QED
            BY <1>5, <5>1
      <4>2. s \in Seq(Nat) /\ Len(s) = j /\ t \in Seq(Nat) /\ Len(t) = k
        <5>1. j \in Nat /\ k \in Nat /\ \A i \in 1..j : i \in 1..k
            BY <3>1
        <5> HIDE DEF j
        <5>2. s \in [1..j -> Nat] /\ t \in [1..k -> Nat]
            BY <4>1, <5>1
        <5> QED
            BY <5>1, <5>2, SeqDef
      <4>3. ends[j] + 1 \in Nat
          BY <3>5
      <4>4. \A i \in 1..j : s[i] = t[i]
          BY <3>1
      <4>5. t[k] = ends[j] + 1
          BY <3>1
      <4> HIDE DEF s, t
      <4>6. /\ Append(s, ends[j] + 1) \in Seq(Nat) /\ Len(Append(s, ends[j] + 1)) = j + 1
            /\ \A i \in 1..j+1 : Append(s, ends[j] + 1)[i] = IF i <= j THEN s[i] ELSE ends[j] + 1
        <5> HIDE DEF j
        <5> QED
            BY <4>2, <4>3, AppendProperties
      <4>7. \A i \in 1..k : Append(s, ends[j] + 1)[i] = t[i]
        <5>1. \A i \in 1..k : i \in 1..j \/ (i = k /\ ~(i <= j))
            BY <3>1
        <5>2. \A i \in 1..j : i <= j /\ i \in 1..j+1
            BY <3>1
        <5> HIDE DEF j
        <5> QED
            BY <3>1, <4>4, <4>5, <4>6, <5>1, <5>2
      <4>8. Append(s, ends[j] + 1) = t
        <5>1. Len(Append(s, ends[j] + 1)) = Len(t)
            BY <3>1, <4>2, <4>6
        <5> HIDE DEF j
        <5> QED
            BY <4>2, <4>6, <4>7, <5>1, SeqEqual
      <4> QED
          BY <4>8 DEF s, t
    <3> QED
        BY <3>10, <3>11, <3>12
  <2> QED
      BY <2>1, <2>2
<1> HIDE DEF T
<1>8. n + 1 \in T
  <2>1. n + 1 \in Nat /\ n + 1 \in 1..n+1
      BY <1>1
  <2> HIDE DEF n
  <2>2. \A k \in 1..n+1 : k \in T
      BY <1>7, <2>1, Upwards
  <2> QED
      BY <2>1, <2>2
<1>9. cuts[Len(body)] = Starts(n + 1)
  <2>1. (n + 1) - 1 = n
      BY <1>1
  <2>2. cuts[ends[n] + 1] = Starts(n + 1)
      BY <1>8, <2>1 DEF T
  <2> QED
      BY <1>2, <1>3, <2>2
<1> QED
    BY <1>4, <1>9 DEF body, whole, last

(* The parts between the cuts are the blocks without their delimiters. *)
LEMMA PartsAreBlocks ==
    ASSUME NEW S, NEW blocks \in Seq(Seq(S)), NEW boundary, LastDelimiter(boundary) \in S,
           \A k \in 1..Len(blocks) : IsBlock(blocks[k], boundary)
    PROVE  LET body == Append(FlattenSeq(blocks), LastDelimiter(boundary)) IN
           Parts(body, boundary) = [k \in 1..Len(blocks) |-> SubSeq(blocks[k], 2, Len(blocks[k]))]
<1> DEFINE n == Len(blocks)
           whole == FlattenSeq(blocks)
           last == LastDelimiter(boundary)
           body == Append(whole, last)
<1>1. PICK ends : EndsOfBlocks(blocks, ends)
    BY JoinedInBlocks
<1>2. Cuts(body, boundary) = [k \in 1..n + 1 |-> ends[k-1] + 1]
    BY <1>1, CutsAreStarts
<1>3. n \in Nat /\ whole \in Seq(S) /\ Len(whole) \in Nat
    BY LenProperties, JoinedInBlocks
<1>4. /\ ends \in [0..n -> Nat]
      /\ \A k \in 1..n : /\ ends[k] = ends[k-1] + Len(blocks[k])
                         /\ \A j \in 1..Len(blocks[k]) : whole[ends[k-1] + j] = blocks[k][j]
    BY <1>1 DEF EndsOfBlocks
<1>5. \A k \in 0..n : ends[k] \in Nat /\ ends[k] <= Len(whole)
    BY <1>1, EndsInside DEF n
<1> HIDE DEF whole
<1>6. \A i \in 1..Len(whole) : body[i] = whole[i]
  <2> HIDE DEF last
  <2>1. \A i \in 1..Len(whole) + 1 :
              Append(whole, last)[i] = IF i <= Len(whole) THEN whole[i] ELSE last
      BY <1>3, AppendProperties DEF last
  <2> QED
      BY <1>3, <2>1
<1> HIDE DEF body
<1>7. Parts(body, boundary) = [k \in 1..n |-> SubSeq(body, ends[k-1] + 2, ends[k])]
  <2> DEFINE cuts == [k \in 1..n+1 |-> ends[k-1] + 1]
  <2>1. Len(cuts) - 1 = n
      BY <1>3
  <2>2. ASSUME NEW k \in 1..n
        PROVE  cuts[k] + 1 = ends[k-1] + 2 /\ cuts[k+1] - 1 = ends[k]
    <3>1. /\ k \in 1..n+1 /\ k + 1 \in 1..n+1 /\ (k + 1) - 1 = k
          /\ k - 1 \in 0..n /\ k \in 0..n
        BY <1>3
    <3>2. cuts[k] = ends[k-1] + 1 /\ cuts[k+1] = ends[k] + 1
        BY <3>1
    <3>3. ends[k-1] \in Nat /\ ends[k] \in Nat
        BY <1>5, <3>1
    <3>4. (ends[k-1] + 1) + 1 = ends[k-1] + 2 /\ (ends[k] + 1) - 1 = ends[k]
      <4> HIDE DEF n, cuts
      <4> QED
          BY <3>3
    <3>5. cuts[k] + 1 = (ends[k-1] + 1) + 1 /\ cuts[k+1] - 1 = (ends[k] + 1) - 1
      <4> HIDE DEF n, cuts
      <4> QED
          BY <3>2, Zenon
    <3> HIDE DEF n, cuts
    <3> QED
        BY <3>4, <3>5, Zenon
  <2> HIDE DEF cuts
  <2> QED
      BY <1>2, <2>1, <2>2 DEF Parts, cuts
<1>8. ASSUME NEW k \in 1..n
      PROVE  SubSeq(body, ends[k-1] + 2, ends[k]) = SubSeq(blocks[k], 2, Len(blocks[k]))
  <2> DEFINE block == blocks[k]
             a == ends[k-1]
             b == Len(blocks[k])
             s == SubSeq(body, a + 2, a + b)
             t == SubSeq(block, 2, b)
  <2>1. block \in Seq(S) /\ b \in Nat /\ b >= 1
      BY <1>3, ElementOfSeq, LenProperties DEF IsBlock
  <2>2. a \in Nat /\ ends[k] = a + b /\ a + b <= Len(whole)
    <3>1. k - 1 \in 0..n /\ k \in 0..n
        BY <1>3
    <3> HIDE DEF n
    <3> QED
        BY <1>4, <1>5, <3>1
  <2>3. \A j \in 1..b : whole[a + j] = block[j] /\ block[j] \in S
    <3>1. \A j \in 1..b : block[j] \in S
        BY <2>1, ElementOfSeq
    <3> HIDE DEF n
    <3> QED
        BY <1>4, <3>1
  <2> HIDE DEF a, b, block
  <2>4. \A j \in 2..b : body[a + j] = block[j] /\ block[j] \in S
    <3>1. ASSUME NEW j \in 2..b PROVE j \in 1..b /\ a + j \in 1..Len(whole)
        BY <1>3, <2>1, <2>2
    <3> QED
        BY <1>6, <2>3, <3>1
  <2>5. /\ s \in Seq(S) /\ Len(s) = b - 1
        /\ \A i \in 1..b-1 : s[i] = body[a + 1 + i]
    <3>1. a + 2 \in Int /\ a + b \in Int
        BY <2>1, <2>2
    <3>2. \A i \in a+2..a+b : body[i] \in S
      <4>1. ASSUME NEW i \in a+2..a+b PROVE body[i] \in S
        <5>1. i - a \in 2..b /\ a + (i - a) = i
            BY <2>1, <2>2
        <5> QED
            BY <2>4, <5>1
      <4> QED
          BY <4>1
    <3>3. /\ s \in Seq(S) /\ Len(s) = IF a + 2 <= a + b THEN (a + b) - (a + 2) + 1 ELSE 0
          /\ \A i \in 1..(a + b) - (a + 2) + 1 : s[i] = body[a + 2 + i - 1]
        BY <3>1, <3>2, SubSeqProperties
    <3>4. (a + b) - (a + 2) + 1 = b - 1 /\ (a + 2 <= a + b <=> 2 <= b) /\ (~(2 <= b) => b - 1 = 0)
        BY <2>1, <2>2
    <3>5. \A i \in 1..b-1 : a + 2 + i - 1 = a + 1 + i
        BY <2>1, <2>2
    <3> HIDE DEF s
    <3> QED
        BY <3>3, <3>4, <3>5
  <2>6. /\ t \in Seq(S) /\ Len(t) = b - 1
        /\ \A i \in 1..b-1 : t[i] = block[1 + i]
    <3>1. 2 \in Int /\ b \in Int /\ \A i \in 2..b : block[i] \in S
        BY <2>1, <2>4
    <3>2. /\ t \in Seq(S) /\ Len(t) = IF 2 <= b THEN b - 2 + 1 ELSE 0
          /\ \A i \in 1..b - 2 + 1 : t[i] = block[2 + i - 1]
        BY <3>1, SubSeqProperties
    <3>3. b - 2 + 1 = b - 1 /\ (~(2 <= b) => b - 1 = 0) /\ \A i \in 1..b-1 : 2 + i - 1 = 1 + i
        BY <2>1
    <3> HIDE DEF t
    <3> QED
        BY <3>2, <3>3
  <2>7. \A i \in 1..b-1 : s[i] = t[i]
    <3>1. ASSUME NEW i \in 1..b-1 PROVE s[i] = t[i]
      <4>1. 1 + i \in 2..b /\ a + 1 + i = a + (1 + i)
          BY <2>1, <2>2
      <4> HIDE DEF s, t
      <4> QED
          BY <2>4, <2>5, <2>6, <4>1
    <3> QED
        BY <3>1
  <2> HIDE DEF s, t
  <2>8. s = t
      BY <2>5, <2>6, <2>7, SeqEqual
  <2> QED
      BY <2>2, <2>8 DEF s, t, a, b, block
<1> QED
    BY <1>7, <1>8 DEF body, whole

(* Up to the first empty line are the headers, and the rest is data. *)
LEMMA DataAfterEmptyLine ==
    ASSUME NEW S, NEW headers \in Seq(S), NEW data \in Seq(S), << >> \in S,
           \A i \in 1..Len(headers) : headers[i] # << >>
    PROVE  LET part == headers \o << << >> >> \o data IN
           /\ part \in Seq(S)
           /\ \A i \in 1..Len(part) :
                 part[i] \in {<< >>} \cup Range(headers) \cup Range(data)
           /\ Received(part) = [headers |-> {headers[i] : i \in 1..Len(headers)}, data |-> data]
<1> DEFINE h == Len(headers)
           d == Len(data)
           empty == << << >> >>
           part == headers \o empty \o data
<1>1. h \in Nat /\ d \in Nat
    BY LenProperties
<1>2. empty \in Seq(S) /\ Len(empty) = 1 /\ empty[1] = << >>
    OBVIOUS
<1> HIDE DEF empty
<1>3. /\ headers \o empty \in Seq(S) /\ Len(headers \o empty) = h + 1
      /\ \A i \in 1..h+1 : (headers \o empty)[i] = IF i <= h THEN headers[i] ELSE empty[i - h]
    BY <1>2, ConcatProperties
<1> DEFINE top == headers \o empty
<1> HIDE DEF top
<1>4. /\ top \in Seq(S) /\ Len(top) = h + 1
      /\ \A i \in 1..h : top[i] = headers[i]
      /\ top[h+1] = << >>
  <2>1. ASSUME NEW i \in 1..h PROVE i \in 1..h+1 /\ i <= h
      BY <1>1
  <2>2. h + 1 \in 1..h+1 /\ ~(h + 1 <= h) /\ (h + 1) - h = 1
      BY <1>1
  <2> HIDE DEF h
  <2> QED
      BY <1>2, <1>3, <2>1, <2>2 DEF top
<1>5. /\ part \in Seq(S) /\ Len(part) = h + 1 + d
      /\ \A i \in 1..h + 1 + d : part[i] = IF i <= h + 1 THEN top[i] ELSE data[i - (h + 1)]
  <2>1. /\ top \o data \in Seq(S) /\ Len(top \o data) = Len(top) + Len(data)
        /\ \A i \in 1..Len(top) + Len(data) :
              (top \o data)[i] = IF i <= Len(top) THEN top[i] ELSE data[i - Len(top)]
      BY <1>4, ConcatProperties
  <2> QED
      BY <1>4, <2>1 DEF top
<1> HIDE DEF part
<1>6. /\ \A i \in 1..h : part[i] = headers[i]
      /\ part[h+1] = << >>
      /\ \A j \in 1..d : part[h + 1 + j] = data[j]
  <2>1. \A i \in 1..h : i \in 1..h + 1 + d /\ i <= h + 1
      BY <1>1
  <2>2. h + 1 \in 1..h + 1 + d /\ h + 1 <= h + 1
      BY <1>1
  <2>3. \A j \in 1..d : h + 1 + j \in 1..h + 1 + d /\ ~(h + 1 + j <= h + 1) /\ (h + 1 + j) - (h + 1) = j
      BY <1>1
  <2> HIDE DEF h, d
  <2> QED
      BY <1>4, <1>5, <2>1, <2>2, <2>3
<1>7. HeadersEnd(part) = h + 1
  <2> DEFINE I == {i \in 1..Len(part) : part[i] = << >>}
  <2>1. h + 1 \in 1..Len(part) /\ h + 1 \in I
      BY <1>1, <1>5, <1>6
  <2>2. \A i \in I : i \in Nat /\ h + 1 <= i
    <3>1. ASSUME NEW i \in I, ~(h + 1 <= i) PROVE FALSE
      <4>1. i \in 1..h
          BY <1>1, <1>5, <3>1
      <4> QED
          BY <1>6, <4>1
    <3> QED
        BY <1>1, <1>5, <3>1
  <2>3. HeadersEnd(part) = CHOOSE x \in I : \A y \in I : x <= y
    <3>1. I # {}
        BY <2>1
    <3>2. HeadersEnd(part) = IF I # {} THEN Min(I) ELSE 0
        BY DEF HeadersEnd, SelectInSeq
    <3> HIDE DEF I
    <3> QED
        BY <3>1, <3>2 DEF Min
  <2> HIDE DEF I
  <2>4. PICK x \in I : x = HeadersEnd(part) /\ \A y \in I : x <= y
      BY <2>1, <2>2, <2>3
  <2>5. x \in Nat /\ h + 1 <= x /\ x <= h + 1
      BY <2>1, <2>2, <2>4
  <2> QED
      BY <1>1, <2>4, <2>5
<1>8. {part[i] : i \in 1..HeadersEnd(part) - 1} = {headers[i] : i \in 1..h}
  <2>1. HeadersEnd(part) - 1 = h
      BY <1>1, <1>7
  <2> HIDE DEF h
  <2> QED
      BY <1>6, <2>1
<1>9. SubSeq(part, HeadersEnd(part) + 1, Len(part)) = data
  <2> DEFINE rest == SubSeq(part, (h + 1) + 1, Len(part))
  <2>1. /\ rest \in Seq(S)
        /\ Len(rest) = IF h + 1 <= Len(part) THEN Len(part) - (h + 1) ELSE 0
        /\ \A i \in 1..Len(part) - (h + 1) : rest[i] = part[(h + 1) + i]
    <3>1. h + 1 \in Nat
        BY <1>1
    <3> HIDE DEF h
    <3> QED
        BY <1>5, <3>1, LastPart
  <2>2. Len(part) - (h + 1) = d /\ h + 1 <= Len(part)
      BY <1>1, <1>5
  <2> HIDE DEF rest
  <2>3. Len(rest) = Len(data) /\ \A i \in 1..Len(rest) : rest[i] = data[i]
    <3>1. Len(rest) = d
        BY <2>1, <2>2
    <3> HIDE DEF h
    <3>2. \A i \in 1..d : rest[i] = data[i]
        BY <1>6, <2>1, <2>2
    <3> QED
        BY <3>1, <3>2
  <2>4. rest = data
      BY <2>1, <2>3, SeqEqual
  <2> QED
      BY <1>7, <2>4 DEF rest
<1>10. ASSUME NEW i \in 1..Len(part)
       PROVE  part[i] \in {<< >>} \cup Range(headers) \cup Range(data)
  <2>1. i \in 1..h \/ i = h + 1 \/ (i - (h + 1) \in 1..d /\ i = h + 1 + (i - (h + 1)))
      BY <1>1, <1>5
  <2>2. DOMAIN headers = 1..h /\ DOMAIN data = 1..d
      BY LenProperties
  <2> HIDE DEF h, d
  <2>3. CASE i \in 1..h
      BY <1>6, <2>2, <2>3 DEF Range
  <2>4. CASE i = h + 1
      BY <1>6, <2>4
  <2>5. CASE i - (h + 1) \in 1..d /\ i = h + 1 + (i - (h + 1))
    <3>1. part[i] = data[i - (h + 1)]
        BY <1>6, <2>5
    <3> QED
        BY <2>2, <2>5, <3>1 DEF Range
  <2> QED
      BY <2>1, <2>3, <2>4, <2>5
<1> QED
    BY <1>5, <1>8, <1>9, <1>10 DEF Received, part, empty

(* A field has a name, and a file its name and a type. *)
IsField(field) ==
    /\ field.form \in {"data", "file", "typed"}
    /\ field.name # Empty
    /\ field.form # "data" => field.filename # Empty /\ ContentType(field) # Empty

TypeLine(field) == <<"Content-Type", ContentType(field)>>

(* A line of words that a delimiter does not start with. *)
IsHeader(line) == line # << >> /\ \A boundary : line \notin Delimiters(boundary)

(* The header lines of a field are taken for headers. *)
LEMMA HeadersAreNoDelimiters ==
    ASSUME NEW field, IsField(field)
    PROVE  IsHeader(Disposition(field)) /\ IsHeader(TypeLine(field))
<1> DEFINE name == RenderPart("name", field.name)
           filename == RenderPart("filename", IF field.form = "data" THEN Empty ELSE field.filename)
           start == <<"Content-Disposition", "form-data">>
<1>1. ASSUME NEW key, NEW value
      PROVE  \E W : RenderPart(key, value) \in Seq(W)
  <2>1. CASE value = Empty
    <3>1. RenderPart(key, value) \in Seq({})
        BY <2>1, EmptySeq DEF RenderPart
    <3> QED
        BY <3>1
  <2>2. CASE value # Empty
    <3>1. PICK param : HeaderParam(key, value) = <<param, value>>
        BY DEF HeaderParam
    <3>2. <<param, value>> \in Seq({param, value})
        OBVIOUS
    <3>3. RenderPart(key, value) \in Seq({param, value})
        BY <2>2, <3>1, <3>2 DEF RenderPart
    <3> QED
        BY <3>3
  <2> QED
      BY <2>1, <2>2
<1>2. PICK V, W : name \in Seq(V) /\ filename \in Seq(W)
    BY <1>1
<1> DEFINE U == {"Content-Disposition", "form-data"} \cup V \cup W
<1>3. start \in Seq(U) /\ Len(start) = 2 /\ start[1] = "Content-Disposition"
    OBVIOUS
<1>4. name \in Seq(U) /\ filename \in Seq(U)
  <2>1. V \subseteq U /\ W \subseteq U
      OBVIOUS
  <2> HIDE DEF U, name, filename
  <2> QED
      BY <1>2, <2>1, SeqMonotonic
<1>5. Disposition(field) = start \o name \o filename
    BY DEF Disposition
<1> HIDE DEF U, name, filename, start
<1>6. Disposition(field)[1] = "Content-Disposition" /\ Disposition(field) # << >>
  <2> DEFINE both == start \o name
  <2>1. /\ both \in Seq(U) /\ Len(both) = 2 + Len(name)
        /\ \A i \in 1..2 + Len(name) : both[i] = IF i <= 2 THEN start[i] ELSE name[i - 2]
    <3>1. /\ start \o name \in Seq(U) /\ Len(start \o name) = Len(start) + Len(name)
          /\ \A i \in 1..Len(start) + Len(name) :
                (start \o name)[i] = IF i <= Len(start) THEN start[i] ELSE name[i - Len(start)]
        BY <1>3, <1>4, ConcatProperties
    <3> QED
        BY <1>3, <3>1
  <2>2. Len(name) \in Nat /\ Len(filename) \in Nat
      BY <1>4, LenProperties
  <2>3. both[1] = "Content-Disposition" /\ Len(both) \in Nat /\ Len(both) >= 1
    <3>1. 1 \in 1..2 + Len(name)
        BY <2>2
    <3> HIDE DEF both
    <3> QED
        BY <1>3, <2>1, <2>2, <3>1
  <2> HIDE DEF both
  <2>4. /\ both \o filename \in Seq(U) /\ Len(both \o filename) = Len(both) + Len(filename)
        /\ \A i \in 1..Len(both) + Len(filename) :
              (both \o filename)[i] = IF i <= Len(both) THEN both[i] ELSE filename[i - Len(both)]
      BY <1>4, <2>1, ConcatProperties
  <2>5. (both \o filename)[1] = both[1]
    <3>1. 1 \in 1..Len(both) + Len(filename) /\ 1 <= Len(both)
        BY <2>2, <2>3
    <3> QED
        BY <2>4, <3>1
  <2>6. both \o filename # << >>
    <3>1. Len(both \o filename) # 0
        BY <2>2, <2>3, <2>4
    <3> QED
        BY <3>1, EmptySeq
  <2> QED
      BY <1>5, <2>3, <2>5, <2>6 DEF both
<1>7. TypeLine(field)[1] = "Content-Type" /\ TypeLine(field) # << >>
  <2>1. Len(TypeLine(field)) = 2
      BY DEF TypeLine
  <2> QED
      BY <2>1, EmptySeq DEF TypeLine
<1>8. \A boundary : \A line \in Delimiters(boundary) : line[1] = "--"
    BY DEF Delimiters, Delimiter, LastDelimiter
<1>9. "--" # "Content-Disposition" /\ "--" # "Content-Type"
    OBVIOUS
<1> QED
    BY <1>6, <1>7, <1>8, <1>9 DEF IsHeader

(* The headers that are rendered are the ones that are given. *)
LEMMA HeadersAsGiven ==
    ASSUME NEW field, IsField(field), NEW S, Disposition(field) \in S, TypeLine(field) \in S
    PROVE  LET headers == RenderHeaders(field) IN
           /\ headers \in Seq(S)
           /\ \A i \in 1..Len(headers) : headers[i] \in {Disposition(field), TypeLine(field)}
           /\ {headers[i] : i \in 1..Len(headers)} = Given(field).headers
<1> DEFINE disposition == Disposition(field)
           type == TypeLine(field)
           headers == RenderHeaders(field)
<1>1. Given(field).headers = {disposition} \cup IF field.form = "data" THEN {} ELSE {type}
  <2>1. RenderPart("name", field.name) = HeaderParam("name", field.name)
      BY DEF RenderPart, IsField
  <2>2. RenderPart("filename", IF field.form = "data" THEN Empty ELSE field.filename)
           = IF field.form = "data" THEN << >> ELSE HeaderParam("filename", field.filename)
      BY DEF RenderPart, IsField
  <2> QED
      BY <2>1, <2>2 DEF Given, Disposition, TypeLine
<1>2. CASE field.form = "data"
  <2>1. headers = <<disposition>> \o << >>
      BY <1>2 DEF RenderHeaders, ContentType
  <2> HIDE DEF disposition, headers
  <2>2. headers = <<disposition>>
    <3>1. <<disposition>> \in Seq(S)
        BY DEF disposition
    <3> QED
        BY <2>1, <3>1, ConcatEmptySeq
  <2>3. Len(headers) = 1 /\ headers[1] = disposition /\ headers \in Seq(S)
      BY <2>2 DEF disposition
  <2>4. {headers[i] : i \in 1..Len(headers)} = {disposition}
      BY <2>3
  <2> QED
      BY <1>1, <1>2, <2>3, <2>4 DEF disposition, headers
<1>3. CASE field.form # "data"
  <2>1. headers = <<disposition>> \o <<type>>
      BY <1>3 DEF RenderHeaders, TypeLine, IsField
  <2> HIDE DEF disposition, type, headers
  <2>2. headers = <<disposition, type>>
    <3> DEFINE a == <<disposition>>
               b == <<type>>
               c == <<disposition, type>>
    <3>1. /\ a \in Seq(S) /\ Len(a) = 1 /\ a[1] = disposition
          /\ b \in Seq(S) /\ Len(b) = 1 /\ b[1] = type
          /\ c \in Seq(S) /\ Len(c) = 2 /\ c[1] = disposition /\ c[2] = type
        BY DEF disposition, type
    <3>2. headers = a \o b
        BY <2>1
    <3> HIDE DEF a, b, c
    <3>3. /\ a \o b \in Seq(S) /\ Len(a \o b) = Len(a) + Len(b)
          /\ \A i \in 1..Len(a) + Len(b) : (a \o b)[i] = IF i <= Len(a) THEN a[i] ELSE b[i - Len(a)]
        BY <3>1, ConcatProperties
    <3>4. Len(a \o b) = 2 /\ (a \o b)[1] = disposition /\ (a \o b)[2] = type
        BY <3>1, <3>3
    <3>5. a \o b = c
      <4>1. Len(a \o b) = Len(c) /\ \A i \in 1..Len(a \o b) : (a \o b)[i] = c[i]
          BY <3>1, <3>4
      <4> QED
          BY <3>1, <3>3, <4>1, SeqEqual
    <3> QED
        BY <3>2, <3>5 DEF c
  <2>3. Len(headers) = 2 /\ headers[1] = disposition /\ headers[2] = type /\ headers \in Seq(S)
      BY <2>2 DEF disposition, type
  <2>4. {headers[i] : i \in 1..Len(headers)} = {disposition, type}
      BY <2>3
  <2> QED
      BY <1>1, <1>3, <2>3, <2>4 DEF disposition, type, headers
<1> QED
    BY <1>2, <1>3

Block(field, boundary) ==
    <<Delimiter(boundary)>> \o RenderHeaders(field) \o << << >> >> \o field.data

(* The block of a field is one, and what is received of it is the field. *)
LEMMA BlockReceived ==
    ASSUME NEW field, IsField(field), NEW boundary,
           NEW S, {Disposition(field), TypeLine(field), << >>, Delimiter(boundary)} \subseteq S,
           field.data \in Seq(S), Range(field.data) \cap Delimiters(boundary) = {}
    PROVE  LET block == Block(field, boundary) IN
           /\ block \in Seq(S) /\ IsBlock(block, boundary)
           /\ Received(SubSeq(block, 2, Len(block))) = Given(field)
<1> DEFINE headers == RenderHeaders(field)
           data == field.data
           empty == << << >> >>
           first == <<Delimiter(boundary)>>
           part == headers \o empty \o data
           block == Block(field, boundary)
<1>1. /\ headers \in Seq(S)
      /\ \A i \in 1..Len(headers) : headers[i] \in {Disposition(field), TypeLine(field)}
      /\ {headers[i] : i \in 1..Len(headers)} = Given(field).headers
    BY HeadersAsGiven
<1>2. \A i \in 1..Len(headers) : IsHeader(headers[i])
    BY <1>1, HeadersAreNoDelimiters
<1>3. /\ part \in Seq(S)
      /\ \A i \in 1..Len(part) : part[i] \in {<< >>} \cup Range(headers) \cup Range(data)
      /\ Received(part) = [headers |-> {headers[i] : i \in 1..Len(headers)}, data |-> data]
  <2>1. \A i \in 1..Len(headers) : headers[i] # << >>
      BY <1>2 DEF IsHeader
  <2>2. data \in Seq(S) /\ << >> \in S
      OBVIOUS
  <2> HIDE DEF headers, data
  <2> QED
      BY <1>1, <2>1, <2>2, DataAfterEmptyLine
<1>4. empty \in Seq(S) /\ first \in Seq(S) /\ Len(first) = 1 /\ first[1] = Delimiter(boundary)
    OBVIOUS
<1>5. block = first \o part
  <2>1. block = ((first \o headers) \o empty) \o data
      BY DEF Block
  <2>2. data \in Seq(S)
      OBVIOUS
  <2> HIDE DEF block, first, headers, empty, data
  <2>3. headers \o empty \in Seq(S) /\ first \o headers \in Seq(S)
      BY <1>1, <1>4, ConcatProperties
  <2>4. (first \o headers) \o empty = first \o (headers \o empty)
    <3>1. first \in Seq(S) /\ headers \in Seq(S) /\ empty \in Seq(S)
        BY <1>1, <1>4
    <3> QED
        BY <3>1, ConcatAssociative
  <2>5. (first \o (headers \o empty)) \o data = first \o ((headers \o empty) \o data)
    <3> DEFINE top == headers \o empty
    <3>1. first \in Seq(S) /\ top \in Seq(S) /\ data \in Seq(S)
        BY <1>4, <2>2, <2>3
    <3> HIDE DEF top
    <3>2. (first \o top) \o data = first \o (top \o data)
        BY <3>1, ConcatAssociative
    <3> QED
        BY <3>2 DEF top
  <2> QED
      BY <2>1, <2>4, <2>5
<1>6. Given(field) = [headers |-> {headers[i] : i \in 1..Len(headers)}, data |-> data]
  <2>1. Given(field) = [headers |-> Given(field).headers, data |-> field.data]
      BY DEF Given
  <2> HIDE DEF headers
  <2> QED
      BY <1>1, <2>1
<1>7. \A i \in 1..Len(part) : part[i] \notin Delimiters(boundary)
  <2>1. << >> \notin Delimiters(boundary)
    <3>1. Delimiter(boundary) # << >> /\ LastDelimiter(boundary) # << >>
        BY DEF Delimiter, LastDelimiter
    <3> QED
        BY <3>1 DEF Delimiters
  <2>2. \A line \in Range(headers) : line \notin Delimiters(boundary)
    <3>1. DOMAIN headers = 1..Len(headers)
        BY <1>1, LenProperties
    <3> HIDE DEF headers
    <3> QED
        BY <1>2, <3>1 DEF Range, IsHeader
  <2>3. \A line \in Range(data) : line \notin Delimiters(boundary)
      OBVIOUS
  <2> HIDE DEF part, headers, data
  <2> QED
      BY <1>3, <2>1, <2>2, <2>3
<1> HIDE DEF part, first, block, headers, data
<1> DEFINE l == Len(part)
<1>8. l \in Nat
    BY <1>3, LenProperties
<1>9. /\ block \in Seq(S) /\ Len(block) = 1 + l
      /\ block[1] = Delimiter(boundary)
      /\ \A j \in 1..l : block[1 + j] = part[j]
  <2>1. /\ first \o part \in Seq(S) /\ Len(first \o part) = Len(first) + l
        /\ \A i \in 1..Len(first) + l :
              (first \o part)[i] = IF i <= Len(first) THEN first[i] ELSE part[i - Len(first)]
      BY <1>3, <1>4, ConcatProperties
  <2>2. 1 \in 1..1 + l /\ \A j \in 1..l : 1 + j \in 1..1 + l /\ ~(1 + j <= 1) /\ (1 + j) - 1 = j
      BY <1>8
  <2> HIDE DEF l
  <2>3. /\ block \in Seq(S) /\ Len(block) = 1 + l
        /\ \A i \in 1..1 + l : block[i] = IF i <= 1 THEN first[i] ELSE part[i - 1]
      BY <1>4, <1>5, <2>1
  <2>4. block[1] = Delimiter(boundary)
    <3>1. block[1] = first[1]
        BY <2>2, <2>3
    <3> QED
        BY <1>4, <3>1
  <2>5. ASSUME NEW j \in 1..l PROVE block[1 + j] = part[j]
    <3>1. block[1 + j] = part[(1 + j) - 1]
        BY <2>2, <2>3
    <3> QED
        BY <2>2, <3>1
  <2> QED
      BY <2>3, <2>4, <2>5
<1>10. IsBlock(block, boundary)
  <2>1. ASSUME NEW j \in 2..1+l PROVE block[j] \notin Delimiters(boundary)
    <3>1. j - 1 \in 1..l /\ 1 + (j - 1) = j
        BY <1>8
    <3> QED
        BY <1>7, <1>9, <3>1
  <2> QED
      BY <1>8, <1>9, <2>1 DEF IsBlock
<1>11. SubSeq(block, 2, Len(block)) = part
  <2> DEFINE rest == SubSeq(block, 1 + 1, Len(block))
  <2>1. /\ rest \in Seq(S) /\ Len(rest) = IF 1 <= Len(block) THEN Len(block) - 1 ELSE 0
        /\ \A i \in 1..Len(block) - 1 : rest[i] = block[1 + i]
    <3>1. 1 \in Nat
        OBVIOUS
    <3> QED
        BY <1>9, <3>1, LastPart
  <2>2. Len(block) - 1 = l /\ 1 <= Len(block)
      BY <1>8, <1>9
  <2>3. 1 + 1 = 2
      OBVIOUS
  <2> HIDE DEF rest
  <2>4. Len(rest) = Len(part) /\ \A i \in 1..Len(rest) : rest[i] = part[i]
      BY <1>9, <2>1, <2>2
  <2>5. rest = part
      BY <1>3, <2>1, <2>4, SeqEqual
  <2> QED
      BY <2>3, <2>5 DEF rest
<1> QED
    BY <1>3, <1>6, <1>9, <1>10, <1>11 DEF block

(***************************************************************************)
(* Whatever the fields, in whatever number: they are decoded as they are   *)
(* given, if no line of theirs is a delimiter (filepost.py:59-93).         *)
(***************************************************************************)
AreFields(fields, L) ==
    /\ Len(fields) \in Nat /\ DOMAIN fields = 1..Len(fields)
    /\ \A i \in 1..Len(fields) : IsField(fields[i]) /\ fields[i].data \in Seq(L)

(* The body of fields that hold no delimiter is read as these fields. *)
LEMMA DecodesAsGiven ==
    ASSUME NEW fields, NEW L, AreFields(fields, L), NEW boundary,
           \A i \in 1..Len(fields) : Range(fields[i].data) \cap Delimiters(boundary) = {}
    PROVE  Decode(Encode(fields, boundary), boundary) = [i \in DOMAIN fields |-> Given(fields[i])]
<1> DEFINE n == Len(fields)
           blocks == [i \in 1..n |-> Block(fields[i], boundary)]
           S == L \cup {<< >>, Delimiter(boundary), LastDelimiter(boundary)}
                  \cup {Disposition(fields[i]) : i \in 1..n} \cup {TypeLine(fields[i]) : i \in 1..n}
           body == Append(FlattenSeq(blocks), LastDelimiter(boundary))
<1>1. n \in Nat /\ DOMAIN fields = 1..n
    BY DEF AreFields
<1>2. ASSUME NEW i \in 1..n
      PROVE  /\ blocks[i] \in Seq(S) /\ IsBlock(blocks[i], boundary)
             /\ Received(SubSeq(blocks[i], 2, Len(blocks[i]))) = Given(fields[i])
  <2> DEFINE field == fields[i]
  <2>1. IsField(field) /\ field.data \in Seq(L)
      BY DEF AreFields
  <2>2. {Disposition(field), TypeLine(field), << >>, Delimiter(boundary)} \subseteq S
      OBVIOUS
  <2>3. field.data \in Seq(S)
    <3>1. L \subseteq S
        OBVIOUS
    <3> HIDE DEF S, field
    <3> QED
        BY <2>1, <3>1, SeqMonotonic
  <2>4. Range(field.data) \cap Delimiters(boundary) = {}
      OBVIOUS
  <2>5. blocks[i] = Block(field, boundary)
      OBVIOUS
  <2> HIDE DEF S, field, blocks
  <2>6. LET block == Block(field, boundary) IN
        /\ block \in Seq(S) /\ IsBlock(block, boundary)
        /\ Received(SubSeq(block, 2, Len(block))) = Given(field)
      BY <2>1, <2>2, <2>3, <2>4, BlockReceived
  <2> QED
      BY <2>5, <2>6 DEF field
<1>3. LastDelimiter(boundary) \in S
    OBVIOUS
<1>4. Encode(fields, boundary) = body
    BY <1>1 DEF Encode, Block
<1>5. Len(blocks) = n
    BY <1>1
<1> HIDE DEF S
<1>6. blocks \in Seq(Seq(S))
  <2>1. blocks \in [1..n -> Seq(S)]
    <3>1. \A i \in 1..n : Block(fields[i], boundary) \in Seq(S)
        BY <1>2
    <3> QED
        BY <3>1
  <2> HIDE DEF blocks, n
  <2> QED
      BY <1>1, <2>1, SeqDef
<1>7. Parts(body, boundary) = [k \in 1..n |-> SubSeq(blocks[k], 2, Len(blocks[k]))]
  <2>1. \A k \in 1..Len(blocks) : IsBlock(blocks[k], boundary)
      BY <1>2, <1>5
  <2>2. Parts(body, boundary) = [k \in 1..Len(blocks) |-> SubSeq(blocks[k], 2, Len(blocks[k]))]
    <3> HIDE DEF blocks
    <3> QED
        BY <1>3, <1>6, <2>1, PartsAreBlocks DEF body
  <2> HIDE DEF blocks, n, body
  <2> QED
      BY <1>5, <2>2
<1> HIDE DEF blocks, body
<1>8. Decode(body, boundary) = [k \in 1..n |-> Received(SubSeq(blocks[k], 2, Len(blocks[k])))]
    BY <1>7 DEF Decode
<1> HIDE DEF n
<1>9. [k \in 1..n |-> Received(SubSeq(blocks[k], 2, Len(blocks[k])))]
          = [i \in DOMAIN fields |-> Given(fields[i])]
    BY <1>1, <1>2
<1> QED
    BY <1>4, <1>8, <1>9

FieldsAreForms == \E L : \A fields \in FieldLists : AreFields(fields, L)

(* A body with a boundary is made of the fields once, and goes along with *)
(* every redirect and every other try.                                    *)
BodyKept ==
    asked.boundary # None =>
        /\ asked.way = "encode_body" /\ asked.fields \in FieldLists
        /\ call.body = Encode(asked.fields, asked.boundary)

(* Each action keeps the body that is sent the one that was encoded. *)
LEMMA BodyStaysKept ==
    ASSUME BodyKept, CallNamed, [Next]_vars
    PROVE  BodyKept'
<1>1. ASSUME NEW target \in Targets, NEW given \in BOOLEAN, AskUrlopen(target, given)
      PROVE  BodyKept'
  <2>1. asked'.boundary = None
      BY <1>1 DEF AskUrlopen, NoAsked
  <2> QED
      BY <2>1 DEF BodyKept
<1>2. ASSUME NEW target \in Targets, NEW given \in BOOLEAN, NEW fields \in FieldLists,
             RequestEncodeUrl(target, given, fields)
      PROVE  BodyKept'
  <2>1. asked'.boundary = None
      BY <1>2 DEF RequestEncodeUrl, NoAsked
  <2> QED
      BY <2>1 DEF BodyKept
<1>3. ASSUME NEW target \in Targets, NEW given \in BOOLEAN, NEW fields \in FieldLists,
             NEW boundary \in Boundaries \cup {None},
             RequestEncodeBody(target, given, fields, boundary)
      PROVE  BodyKept'
  <2> DEFINE body == IF boundary = None THEN <<UrlEncode(fields)>> ELSE Encode(fields, boundary)
  <2>1. /\ asked'.boundary = boundary /\ asked'.fields = fields /\ asked'.way = "encode_body"
        /\ Urlopen(Text(target), "POST", body, "kw")
      BY <1>3 DEF RequestEncodeBody
  <2>2. call'.body = body
      BY <2>1 DEF Urlopen, NoCall
  <2> QED
      BY <2>1, <2>2 DEF BodyKept
<1>4. ASSUME UNCHANGED asked, call'.body = call.body PROVE BodyKept'
    BY <1>4 DEF BodyKept
<1>5. DOMAIN call = DOMAIN NoCall
    BY DEF CallNamed
<1>6. CASE Manage
  <2> DEFINE u     == Parse(call.text)
             given == IF call.kw = Absent THEN "defaults" ELSE call.kw
             kw    == IF PlainProxied(u) THEN "kw" ELSE given
             line  == IF PlainProxied(u) THEN call.text ELSE RequestUri(u)
             pool  == ManagerPool(u)
  <2>1. UNCHANGED asked /\ (call' = call \/
            call' = [call EXCEPT !.pool = pool, !.kw = kw, !.headers = kw, !.line = line])
      BY <1>6 DEF Manage
  <2> HIDE DEF kw, line, pool
  <2>2. call'.body = call.body
      BY <1>5, <2>1 DEF NoCall
  <2> QED
      BY <1>4, <2>1, <2>2
<1>7. CASE Open
  <2>1. UNCHANGED asked /\ (call' = call \/ \E headers : call' = [call EXCEPT !.headers = headers])
      BY <1>7 DEF Open, MergeProxyHeaders
  <2>2. call'.body = call.body
      BY <1>5, <2>1 DEF NoCall
  <2> QED
      BY <1>4, <2>1, <2>2
<1>8. CASE Send \/ TryAgain
    BY <1>4, <1>8 DEF Send, TryAgain
<1>9. CASE Answers \/ \E location \in Locations : Redirects(location)
    BY <1>4, <1>9 DEF Answers, Redirects, Respond
<1>10. CASE Follow
  <2>1. UNCHANGED asked /\ \E method, text :
            \/ call' = [call EXCEPT !.method = method, !.text = text, !.line = text]
            \/ call' = [call EXCEPT !.method = method, !.text = text]
    <3> DEFINE method == IF answer.status = "see_other" THEN "GET" ELSE call.method
    <3>1. UNCHANGED asked /\
            \/ call' = [call EXCEPT !.method = method, !.text = RedirectLocation,
                                    !.line = RedirectLocation]
            \/ call' = [call EXCEPT !.method = method, !.text = Join(@, RedirectLocation)]
        BY <1>10 DEF Follow
    <3> HIDE DEF method
    <3> QED
        BY <3>1
  <2>2. call'.body = call.body
      BY <1>5, <2>1 DEF NoCall
  <2> QED
      BY <1>4, <2>1, <2>2
<1>11. CASE Return
  <2>1. asked'.boundary = None
      BY <1>11 DEF Return, NoAsked
  <2> QED
      BY <2>1 DEF BodyKept
<1>12. CASE UNCHANGED vars
    BY <1>4, <1>12 DEF vars
<1> QED
    BY <1>1, <1>2, <1>3, <1>6, <1>7, <1>8, <1>9, <1>10, <1>11, <1>12 DEF Next

(***************************************************************************)
(* A server finds the fields of a request in its body as they were passed, *)
(* by the boundary that it is told, over any redirects and retries, unless *)
(* the client, the caller or a proxy_headers has another Content-Type, or  *)
(* the data a line that is a delimiter (request.py:122-138,                *)
(* filepost.py:59-93, fields.py:120-177).                                  *)
(***************************************************************************)
THEOREM FieldsAreReceived ==
    ASSUME FieldsAreForms, "Content-Type" \notin DOMAIN ProxyDict
    PROVE  Spec => []FieldsArrive
<1>1. Init => ChosenInv /\ SentFits /\ BodyKept
    BY ChosenInit DEF Init, BodyKept, NoAsked
<1>2. ChosenInv /\ SentFits /\ BodyKept /\ [Next]_vars => (ChosenInv /\ SentFits /\ BodyKept)'
    BY StepsLeaveShared, CallStaysNamed, ClientsKeepTo, CallStaysAsChosen, SentAsChosen, BodyStaysKept
    DEF ChosenInv
<1>3. SentFits /\ BodyKept => FieldsArrive
  <2> DEFINE fields == asked.fields
             boundary == asked.boundary
             lines == UNION {Range(fields[i].data) : i \in DOMAIN fields}
  <2> SUFFICES ASSUME SentFits, BodyKept,
                      at = "sent", boundary # None, "Content-Type" \notin DOMAIN ChosenHeaders,
                      {Delimiter(boundary), LastDelimiter(boundary)} \cap lines = {}
               PROVE  Decode(message.body, message.headers["Content-Type"][2])
                          = [i \in DOMAIN fields |-> Given(fields[i])]
      BY DEF FieldsArrive
  <2>1. /\ asked.way = "encode_body" /\ fields \in FieldLists
        /\ message.body = Encode(fields, boundary)
      BY DEF BodyKept, SentFits
  <2>2. message.headers["Content-Type"] = MultipartType(boundary)
    <3>0. "Content-Type" \notin DOMAIN PassedHeaders
        BY <2>1 DEF PassedHeaders, ChosenHeaders
    <3>1. "Content-Type" \in DOMAIN Wanted /\ Wanted["Content-Type"] = BodyType
        BY <2>1, <3>0 DEF Wanted, Updated, Entry
    <3>2. message.headers["Content-Type"] = Wanted["Content-Type"]
        BY <3>1 DEF SentFits, AsChosen, Fits
    <3> QED
        BY <3>1, <3>2 DEF BodyType
  <2>3. message.headers["Content-Type"][2] = boundary
      BY <2>2 DEF MultipartType
  <2>4. PICK L : AreFields(fields, L)
      BY <2>1 DEF FieldsAreForms
  <2>5. \A i \in 1..Len(fields) : Range(fields[i].data) \cap Delimiters(boundary) = {}
      BY <2>4 DEF AreFields, Delimiters
  <2> HIDE DEF fields, boundary
  <2>6. Decode(Encode(fields, boundary), boundary) = [i \in DOMAIN fields |-> Given(fields[i])]
      BY <2>4, <2>5, DecodesAsGiven
  <2> QED
      BY <2>1, <2>3, <2>6
<1> QED
    BY <1>1, <1>2, <1>3, PTL DEF Spec
-----------------------------------------------------------------------------
(***************************************************************************)
(* URLs that are asked for, and where redirects lead.                      *)
(***************************************************************************)

(* A path, on the host that a URL is on. *)
LEMMA OnHost ==
    ASSUME NEW b, IsUrl(b), b.host # None, NEW t, IsUrl(t), t.host = None
    PROVE  /\ Resolved(b, t) = Known(b.scheme, b.auth, b.host, b.port, t.path, t.query, t.fragment)
           /\ IsUrl(Resolved(b, t))
           /\ Authority(Resolved(b, t)) = Authority(b) /\ Beyond(Resolved(b, t)) = Beyond(t)
           /\ Endpoint(Resolved(b, t)) = Endpoint(b)
<1> DEFINE r == Known(b.scheme, b.auth, b.host, b.port, t.path, t.query, t.fragment)
<1>1. /\ b \in [scheme : Component, auth : Component, host : Component, port : Component,
                path : Component, query : Component, fragment : Component]
      /\ t \in [scheme : Component, auth : Component, host : Component, port : Component,
                path : Component, query : Component, fragment : Component]
    BY DEF IsUrl
<1>2. Resolved(b, t) = [[[b EXCEPT !.path = t.path] EXCEPT !.query = t.query]
                           EXCEPT !.fragment = t.fragment]
    BY DEF Resolved
<1>3. b = Known(b.scheme, b.auth, b.host, b.port, b.path, b.query, b.fragment)
    BY <1>1 DEF Known
<1> DEFINE p == t.path
           q == t.query
           f == t.fragment
<1> HIDE DEF p, q, f
<1>4. [b EXCEPT !.path = p] = Known(b.scheme, b.auth, b.host, b.port, p, b.query, b.fragment)
    BY <1>3 DEF Known
<1>5. [Known(b.scheme, b.auth, b.host, b.port, p, b.query, b.fragment) EXCEPT !.query = q]
         = Known(b.scheme, b.auth, b.host, b.port, p, q, b.fragment)
    BY DEF Known
<1>6. [Known(b.scheme, b.auth, b.host, b.port, p, q, b.fragment) EXCEPT !.fragment = f]
         = Known(b.scheme, b.auth, b.host, b.port, p, q, f)
    BY DEF Known
<1>7. Resolved(b, t) = r
    BY <1>2, <1>4, <1>5, <1>6 DEF p, q, f
<1>8. /\ r.scheme = b.scheme /\ r.auth = b.auth /\ r.host = b.host /\ r.port = b.port
      /\ r.path = t.path /\ r.query = t.query /\ r.fragment = t.fragment
    BY DEF Known
<1>9. r \in [scheme : Component, auth : Component, host : Component, port : Component,
             path : Component, query : Component, fragment : Component]
    BY <1>1 DEF Known
<1> HIDE DEF r
<1>10. IsUrl(r)
    BY <1>8, <1>9 DEF IsUrl
<1>11. Authority(r) = Authority(b) /\ Beyond(r) = Beyond(t)
    BY <1>8 DEF Authority, HostAndPort, Beyond, UpToQuery
<1>12. Endpoint(r) = Endpoint(b)
    BY <1>8 DEF Endpoint
<1> QED
    BY <1>7, <1>10, <1>11, <1>12 DEF r

(* Without a host, a URL is what is beyond it, and begins with its path. *)
LEMMA PathOnly ==
    ASSUME NEW t, IsUrl(t), t.host = None
    PROVE  /\ Text(t) = Beyond(t) /\ t.path # None /\ Text(t) # << >> /\ Head(Text(t)) = "/"
           /\ t.scheme = None
<1>1. t.scheme = None /\ t.auth = None /\ t.port = None /\ t.path # None
    BY DEF IsUrl
<1>2. Text(t) = Part(<< >>, t.scheme, <<":", "/", "/">>) \o (Authority(t) \o Beyond(t))
      /\ Beyond(t) \in Texts /\ Text(t) \in Texts
    BY TextIsGrouped
<1>3. /\ Part(<< >>, t.scheme, <<":", "/", "/">>) = << >> /\ Part(<< >>, t.auth, <<"@">>) = << >>
      /\ Part(<< >>, t.host, << >>) = << >> /\ Part(<<":">>, t.port, << >>) = << >>
    BY <1>1 DEF Part
<1>4. << >> \o << >> = << >>
    BY ConcatEmptySeq, EmptySeq
<1>5. Authority(t) = << >>
    BY <1>3, <1>4 DEF Authority, HostAndPort
<1>6. << >> \o Beyond(t) = Beyond(t)
    BY <1>2, ConcatEmptySeq DEF Texts
<1>7. Text(t) = Beyond(t)
    BY <1>2, <1>3, <1>5, <1>6
<1>8. t.path \in Texts /\ t.path # << >> /\ t.path[1] = "/"
    BY <1>1 DEF IsUrl, Component
<1>9. Beyond(t) # << >> /\ Beyond(t)[1] = "/"
  <2> DEFINE f == Part(<<"?">>, t.query, << >>)
             g == Part(<<"#">>, t.fragment, << >>)
  <2>1. f \in Texts /\ g \in Texts
      BY PartIsText, MarksAreTexts DEF IsUrl
  <2>2. Part(<< >>, t.path, << >>) = t.path
      BY <1>1, Bare DEF IsUrl
  <2>3. UpToQuery(t) = t.path \o f /\ Beyond(t) = UpToQuery(t) \o g /\ UpToQuery(t) \in Texts
      BY <2>2, TextIsGrouped DEF UpToQuery, Beyond
  <2> HIDE DEF f, g
  <2>4. UpToQuery(t) # << >> /\ UpToQuery(t)[1] = "/"
      BY <1>8, <2>1, <2>3, CatBegins
  <2> QED
      BY <2>1, <2>3, <2>4, CatBegins
<1>10. Head(Text(t)) = "/"
    BY <1>2, <1>7, <1>9, HeadTailProperties DEF Texts
<1> QED
    BY <1>1, <1>7, <1>9, <1>10

(* urljoin gives the text of the URL that a path resolves to. *)
THEOREM JoinedText ==
    ASSUME NEW b, IsUrl(b), b.host # None, b.scheme # None,
           NEW t, IsUrl(t), t.host = None, SchemeShows(t)
    PROVE  Join(Text(b), Text(t)) = Text(Resolved(b, t))
<1> DEFINE S == b.scheme \o <<":", "/", "/">>
           A == Authority(b)
           B == Beyond(b)
           E == Beyond(t)
           base == Text(b)
           k == SchemeEnd(base)
           i == FirstOf(A \o B, {"/", "?", "#"})
<1>1. b.scheme \in Texts /\ Free(b.scheme, {":"})
    BY DEF IsUrl, Component
<1>2. S \in Texts /\ Part(<< >>, b.scheme, <<":", "/", "/">>) = S
  <2>1. << >> \o b.scheme = b.scheme
      BY <1>1, ConcatEmptySeq DEF Texts
  <2>2. S \in Texts
      BY <1>1, MarksAreTexts, ComesApart
  <2> QED
      BY <2>1, <2>2 DEF Part
<1>3. /\ base = S \o (A \o B) /\ A \in Texts /\ B \in Texts /\ E \in Texts /\ A \o B \in Texts
      /\ Text(t) = E
  <2>1. base = S \o (A \o B) /\ A \in Texts /\ B \in Texts /\ E \in Texts
      BY <1>2, TextIsGrouped
  <2> QED
      BY <2>1, PathOnly, ComesApart
<1>4. Text(Resolved(b, t)) = S \o (A \o E)
  <2>1. IsUrl(Resolved(b, t)) /\ Authority(Resolved(b, t)) = A /\ Beyond(Resolved(b, t)) = E
        /\ Resolved(b, t).scheme = b.scheme
      BY OnHost DEF Known
  <2> QED
      BY <1>2, <2>1, TextIsGrouped
<1>5. k = Len(b.scheme) + 1 /\ k # 0 /\ SubSeq(base, k + 3, Len(base)) = A \o B
  <2> HIDE DEF A, B
  <2> QED
      BY <1>1, <1>3, SchemeCut
<1>6. Len(S) = Len(b.scheme) + 3 /\ Len(b.scheme) \in Nat /\ Len(S) \in Nat
  <2> DEFINE mark == <<":", "/", "/">>
  <2>1. mark \in Texts /\ Len(mark) = 3
      BY MarksAreTexts
  <2> HIDE DEF mark
  <2>2. Len(b.scheme \o mark) = Len(b.scheme) + Len(mark) /\ Len(b.scheme) \in Nat
      BY <1>1, <2>1, ComesApart
  <2>3. Len(b.scheme \o mark) = Len(b.scheme) + 3
      BY <2>1, <2>2
  <2>4. Len(S) = Len(b.scheme) + 3
      BY <2>3 DEF mark
  <2> QED
      BY <2>2, <2>4
<1>7. After(base, k + 2) = A \o B
  <2> HIDE DEF k, base, A, B
  <2>1. (k + 2) + 1 = k + 3
      BY <1>5, <1>6
  <2> QED
      BY <1>5, <2>1 DEF After
<1>8. SchemeEnd(E) = 0
    BY <1>3, PathOnly DEF SchemeShows
<1>9. Join(base, E) = IF i = 0 THEN base \o E ELSE Before(base, k + 2 + i) \o E
  <2> HIDE DEF base, E, A, B
  <2> QED
      BY <1>5, <1>7, <1>8 DEF Join, k
<1>10. /\ Free(A, {"/", "?", "#"}) /\ (B # << >> => B[1] \in {"/", "?", "#"})
    BY PartsAreFree, BeyondBegins
<1> HIDE DEF S, A, B, E
<1>13. /\ (S \o A) \o E = S \o (A \o E)
       /\ (S \o A) \o B = S \o (A \o B)
  <2>1. /\ Cat(Cat(S, A), E) = Cat(S, Cat(A, E))
        /\ Cat(Cat(S, A), B) = Cat(S, Cat(A, B))
      BY <1>2, <1>3, Joined
  <2> QED
      BY <2>1 DEF Cat
<1>11. CASE B = << >>
  <2>1. A \o B = A
      BY <1>3, <1>11, ConcatEmptySeq DEF Texts
  <2>2. i = 0
      BY <1>3, <1>10, <2>1, FirstIsNone
  <2>3. base = S \o A
      BY <1>3, <2>1
  <2> QED
      BY <1>3, <1>4, <1>9, <1>13, <2>2, <2>3
<1>12. CASE B # << >>
  <2>1. i # 0 /\ i = Len(A) + 1
      BY <1>3, <1>10, <1>12, FirstCut
  <2>2. base = (S \o A) \o B
      BY <1>3, <1>13
  <2>3. S \o A \in Texts /\ Len(S \o A) = Len(S) + Len(A) /\ Len(A) \in Nat
      BY <1>2, <1>3, ComesApart
  <2> DEFINE x == S \o A
  <2> HIDE DEF x
  <2>4. SubSeq(x \o B, 1, Len(x)) = x
      BY <1>3, <2>3, ComesApart DEF x
  <2>5. (k + 2 + i) - 1 = Len(x)
      BY <1>5, <1>6, <2>1, <2>3 DEF x
  <2>6. Before(base, k + 2 + i) = x
      BY <2>2, <2>4, <2>5 DEF Before, x
  <2>7. x \o E = S \o (A \o E)
      BY <1>13 DEF x
  <2> QED
      BY <1>3, <1>4, <1>9, <2>1, <2>6, <2>7
<1> QED
    BY <1>11, <1>12


Schemes == {None, <<"http">>, <<"https">>}

(* What parse_url can take apart again, of a scheme that there are pools *)
(* for, and that is not taken for one without any.                       *)
WellFormed(u) == IsUrl(u) /\ SchemeShows(u) /\ u.scheme \in Schemes

(* A URL with fields, which request() encodes into its query. *)
WithFields(target, fields) ==
    IF fields = << >> THEN target ELSE [target EXCEPT !.query = UrlEncode(fields)]

UrlsAreWellFormed ==
    /\ \A u \in Homes \cup Locations \cup {ProxyUrl} : WellFormed(u)
    /\ \A u \in Homes \cup {ProxyUrl} : u.scheme # None
    /\ \A u \in Locations : u.scheme # None \/ u.host = None
    /\ \A target \in Targets :
          /\ WellFormed(target)
          /\ \A fields \in FieldLists : WellFormed(WithFields(target, fields))
          /\ \A fields \in FieldLists : fields # << >> => UrlEncode(fields) \in Texts

(* The fields go behind a URL that has no query yet. *)
LEMMA FieldsBehind ==
    ASSUME NEW u, IsUrl(u), u.query = None, u.fragment = None, NEW q \in Texts
    PROVE  LET v == [u EXCEPT !.query = q] IN
           /\ Text(u) \o (<<"?">> \o q) = Text(v)
           /\ v.host = u.host /\ v.scheme = u.scheme
           /\ Meant(v) = [Meant(u) EXCEPT !.query = q]
<1> DEFINE v == [u EXCEPT !.query = q]
           S == Part(<< >>, u.scheme, <<":", "/", "/">>)
           a == Part(<< >>, u.auth, <<"@">>)
           h == Part(<< >>, u.host, << >>)
           p == Part(<<":">>, u.port, << >>)
           e == Part(<< >>, u.path, << >>)
           front == S \o a \o h \o p \o e
           mark == <<"?">> \o q
<1>1. u \in [scheme : Component, auth : Component, host : Component, port : Component,
             path : Component, query : Component, fragment : Component]
    BY DEF IsUrl
<1>2. /\ v.scheme = u.scheme /\ v.auth = u.auth /\ v.host = u.host /\ v.port = u.port
      /\ v.path = u.path /\ v.query = q /\ v.fragment = u.fragment
    BY <1>1
<1>3. /\ S \in Texts /\ a \in Texts /\ h \in Texts /\ p \in Texts /\ e \in Texts
    BY <1>1, PartIsText, MarksAreTexts
<1>4. mark \in Texts
    BY MarksAreTexts, ComesApart
<1>5. front \in Texts
  <2> HIDE DEF S, a, h, p, e
  <2> DEFINE x1 == S \o a
             x2 == x1 \o h
             x3 == x2 \o p
  <2>1. x1 \in Texts
      BY <1>3, ComesApart
  <2>2. x2 \in Texts
    <3> HIDE DEF x1
    <3> QED
        BY <1>3, <2>1, ComesApart
  <2>3. x3 \in Texts
    <3> HIDE DEF x2
    <3> QED
        BY <1>3, <2>2, ComesApart
  <2>4. x3 \o e \in Texts
    <3> HIDE DEF x3
    <3> QED
        BY <1>3, <2>3, ComesApart
  <2> QED
      BY <2>4
<1>6. Text(u) = front
  <2>1. Text(u) = (front \o << >>) \o << >>
      BY DEF Text, Part
  <2> HIDE DEF front
  <2>2. front \o << >> = front
      BY <1>5, ConcatEmptySeq DEF Texts
  <2> QED
      BY <2>1, <2>2
<1>7. Text(v) = front \o mark
  <2> DEFINE f == Part(<<"?">>, q, << >>)
  <2>0. f = mark
    <3>1. q # None
        BY NoneIsNoText DEF Texts
    <3>2. f = mark \o << >>
        BY <3>1 DEF Part
    <3> HIDE DEF mark
    <3>3. mark \o << >> = mark
        BY <1>4, ConcatEmptySeq DEF Texts
    <3> QED
        BY <3>2, <3>3
  <2>1. Text(v) = (front \o f) \o Part(<<"#">>, u.fragment, << >>)
      BY <1>2 DEF Text
  <2>2. Part(<<"#">>, u.fragment, << >>) = << >>
      BY DEF Part
  <2> HIDE DEF front, f, mark
  <2>3. Text(v) = (front \o mark) \o << >> /\ front \o mark \in Texts
      BY <1>4, <1>5, <2>0, <2>1, <2>2, ComesApart
  <2> DEFINE x == front \o mark
  <2> HIDE DEF x
  <2>4. x \o << >> = x
      BY <2>3, ConcatEmptySeq DEF Texts, x
  <2> QED
      BY <2>3, <2>4 DEF x
<1>8. Meant(v) = [Meant(u) EXCEPT !.query = q]
  <2>1. CASE u.host # None
      BY <1>2, <2>1 DEF Meant
  <2>2. CASE u.host = None
    <3> DEFINE b == [home EXCEPT !.path = u.path]
               c == [b EXCEPT !.query = u.query]
               d == [b EXCEPT !.query = q]
    <3>1. Meant(u) = [c EXCEPT !.fragment = u.fragment]
        BY <2>2 DEF Meant
    <3>2. Meant(v) = [d EXCEPT !.fragment = u.fragment]
        BY <1>2, <2>2 DEF Meant
    <3> HIDE DEF b
    <3>3. [[c EXCEPT !.fragment = u.fragment] EXCEPT !.query = q] = [d EXCEPT !.fragment = u.fragment]
        OBVIOUS
    <3> QED
        BY <3>1, <3>2, <3>3
  <2> QED
      BY <2>1, <2>2
<1> QED
    BY <1>2, <1>6, <1>7, <1>8

(* However a client is asked, it is for a URL that is well-formed. *)
LEMMA AskedUrl ==
    ASSUME UrlsAreWellFormed, NEW target \in Targets, NEW given \in BOOLEAN,
           \/ AskUrlopen(target, given)
           \/ \E fields \in FieldLists :
                 \/ RequestEncodeUrl(target, given, fields)
                 \/ \E boundary \in Boundaries \cup {None} :
                       RequestEncodeBody(target, given, fields, boundary)
    PROVE  \E t, method, body, headers :
              /\ WellFormed(t) /\ Usable(t)
              /\ Urlopen(Text(t), method, body, headers) /\ meant' = <<Meant(t)>>
<1>1. WellFormed(target)
    BY DEF UrlsAreWellFormed
<1>2. CASE AskUrlopen(target, given)
    BY <1>1, <1>2 DEF AskUrlopen
<1>3. ASSUME NEW fields \in FieldLists, NEW boundary \in Boundaries \cup {None},
             RequestEncodeBody(target, given, fields, boundary)
      PROVE  \E t, method, body, headers :
                /\ WellFormed(t) /\ Usable(t)
                /\ Urlopen(Text(t), method, body, headers) /\ meant' = <<Meant(t)>>
    BY <1>1, <1>3 DEF RequestEncodeBody
<1>4. ASSUME NEW fields \in FieldLists, RequestEncodeUrl(target, given, fields)
      PROVE  \E t, method, body, headers :
                /\ WellFormed(t) /\ Usable(t)
                /\ Urlopen(Text(t), method, body, headers) /\ meant' = <<Meant(t)>>
  <2> DEFINE headers == HeadersArgument(given, Null)
  <2>1. CASE fields = << >>
    <3>1. Text(target) \o << >> = Text(target)
        BY <1>1, TextIsGrouped, ConcatEmptySeq DEF WellFormed, Texts
    <3>2. Urlopen(Text(target), "GET", None, headers) /\ meant' = <<Meant(target)>>
        BY <1>4, <2>1, <3>1 DEF RequestEncodeUrl
    <3> QED
        BY <1>1, <1>4, <3>2 DEF RequestEncodeUrl
  <2>2. CASE fields # << >>
    <3> DEFINE q == UrlEncode(fields)
               v == [target EXCEPT !.query = q]
    <3>1. q \in Texts /\ WellFormed(v)
        BY <2>2 DEF UrlsAreWellFormed, WithFields
    <3>2. /\ Urlopen(Text(target) \o (<<"?">> \o q), "GET", None, headers)
          /\ meant' = <<[Meant(target) EXCEPT !.query = q]>>
          /\ target.query = None /\ target.fragment = None /\ Usable(target)
        BY <1>4, <2>2 DEF RequestEncodeUrl
    <3> HIDE DEF q, headers
    <3>3. /\ Text(target) \o (<<"?">> \o q) = Text(v)
          /\ v.host = target.host /\ v.scheme = target.scheme
          /\ Meant(v) = [Meant(target) EXCEPT !.query = q]
        BY <1>1, <3>1, <3>2, FieldsBehind DEF WellFormed
    <3> HIDE DEF v
    <3>4. Usable(v)
        BY <3>2, <3>3 DEF Usable
    <3>5. Urlopen(Text(v), "GET", None, headers) /\ meant' = <<Meant(v)>>
        BY <3>2, <3>3
    <3> QED
        BY <3>1, <3>4, <3>5
  <2> QED
      BY <2>1, <2>2
<1> QED
    BY <1>2, <1>3, <1>4

(* The URLs that a client may be asked for, after any redirects. *)
Askable(c) ==
    {u \in [scheme : Component, auth : Component, host : Component, port : Component,
            path : Component, query : Component, fragment : Component] :
        /\ IsUrl(u) /\ u.host # None /\ u.scheme \in Schemes
        /\ c # "manager" => u.scheme # None}

MeantInv ==
    /\ client \in Clients /\ home \in Homes \cup {NoUrl}
    /\ client = "pool" => home \in Homes
    /\ meant \in Seq(Askable(client))
    /\ at # "idle" => meant # << >>
    /\ at = "answered" /\ RedirectLocation # None =>
          answer.location \in Locations /\ RedirectLocation = Text(answer.location)

(* A pool can be asked for the URL it was made for. *)
LEMMA HomesAskable ==
    ASSUME UrlsAreWellFormed, NEW u \in Homes
    PROVE  u \in Askable("pool") /\ SchemeShows(u)
BY DEF UrlsAreWellFormed, WellFormed, IsUrl, Askable

(* What is asked for is an URL with a host. *)
LEMMA AskedMeant ==
    ASSUME UrlsAreWellFormed, client \in Clients, client = "pool" => home \in Homes,
           NEW t, WellFormed(t), Usable(t)
    PROVE  /\ Meant(t) \in Askable(client)
           /\ t.host # None => Meant(t) = t /\ (client # "manager" => t.scheme # None)
           /\ t.host = None => client = "pool" /\ Meant(t) = Resolved(home, t)
<1>1. client \in {"pool", "manager", "proxy"}
    BY RequestConstants
<1>2. IsUrl(t) /\ t.scheme \in Schemes
    BY DEF WellFormed
<1>3. CASE t.host # None
  <2>1. client # "manager" => t.scheme # None
      BY <1>1, <1>3 DEF Usable
  <2> QED
      BY <1>2, <1>3, <2>1 DEF Meant, Askable, IsUrl
<1>4. CASE t.host = None
  <2>1. t.scheme = None
      BY <1>2, <1>4 DEF IsUrl
  <2>2. client = "pool"
      BY <1>1, <1>4, <2>1 DEF Usable
  <2>3. IsUrl(home) /\ home.host # None /\ home.scheme # None /\ home.scheme \in Schemes
      BY <2>2, HomesAskable DEF Askable, UrlsAreWellFormed
  <2>4. Meant(t) = Resolved(home, t)
      BY <1>4 DEF Meant, Resolved
  <2>5. IsUrl(Resolved(home, t)) /\ Resolved(home, t).host = home.host
        /\ Resolved(home, t).scheme = home.scheme
      BY <1>2, <1>4, <2>3, OnHost DEF Known
  <2> QED
      BY <1>4, <2>2, <2>3, <2>4, <2>5 DEF Askable, IsUrl
<1> QED
    BY <1>3, <1>4

(* A redirect of a URL that can be asked for is to one that can be. *)
LEMMA RedirectedMeant ==
    ASSUME UrlsAreWellFormed, NEW c, NEW u \in Askable(c), NEW l \in Locations
    PROVE  Resolved(u, l) \in Askable(c)
<1>1. IsUrl(l) /\ l.scheme \in Schemes /\ (l.scheme # None \/ l.host = None)
    BY DEF UrlsAreWellFormed, WellFormed
<1>2. IsUrl(u) /\ u.host # None /\ u.scheme \in Schemes /\ (c # "manager" => u.scheme # None)
    BY DEF Askable
<1>3. CASE l.host # None
    BY <1>1, <1>3 DEF Resolved, Askable, IsUrl
<1>4. CASE l.host = None
  <2>1. IsUrl(Resolved(u, l)) /\ Resolved(u, l).host = u.host
        /\ Resolved(u, l).scheme = u.scheme
      BY <1>1, <1>2, <1>4, OnHost DEF Known
  <2> QED
      BY <1>2, <2>1 DEF Askable, IsUrl
<1> QED
    BY <1>3, <1>4

(* get_redirect_location finds where a redirect leads. *)
LEMMA LocationRead ==
    ASSUME LinesAreHeaders, NEW l \in Locations
    PROVE  Item(ResponseHeaders(LocationLines(l)), Location) = Text(l)
<1>1. PICK F, W : /\ \A lines \in ResponseLines :
                        lines \in Seq([name : [field : F, spelling : F], value : Seq(W)])
                  /\ \A location \in Locations : Text(location) \in Seq(W)
                  /\ {"location", "Location"} \subseteq F
    BY DEF LinesAreHeaders
<1> DEFINE item  == [name |-> Location, value |-> Text(l)]
           Items == [name : [field : F, spelling : F], value : Seq(W)]
           lines == <<item>>
           same  == LinesOf(lines, "location")
           values == [i \in DOMAIN same |-> same[i].value]
<1>2. item \in Items /\ item.name = Location /\ item.value = Text(l) /\ Location.field = "location"
    BY <1>1 DEF Location
<1>3. lines \in Seq(Items) /\ item \in Range(lines) /\ Len(lines) = 1 /\ lines[1] = item
  <2> HIDE DEF item, Items
  <2> QED
      BY <1>2 DEF Range
<1>4. Item(ResponseHeaders(lines), Location) = FlattenSeq(values)
  <2> HIDE DEF lines, item
  <2>1. LET data  == ResponseHeaders(lines)
            some  == LinesOf(lines, item.name.field)
            given == [i \in DOMAIN some |-> some[i].value]
        IN  /\ Item(data, item.name) = FlattenSeq(given)
            /\ (\A i \in DOMAIN given : Len(given[i]) = 1) =>
                  GetList(data, item.name) = given
            /\ {name \in Names(data) : name.field = item.name.field} = {some[1].name}
            /\ Equal(data, FromLines(lines))
    <3>1. lines \in Seq([name : [field : F, spelling : F], value : Seq(W)]) /\ item \in Range(lines)
        BY <1>3
    <3> HIDE DEF Items
    <3> QED
        BY <3>1, HeadersOfLines, Zenon
  <2> QED
      BY <1>2, <2>1
<1>5. same = <<item>>
  <2> HIDE DEF lines, item
  <2> DEFINE f == "location"
  <2> HIDE DEF f
  <2>3. /\ LinesOf(lines, f) = Found(lines, f)[Len(lines)]
        /\ Found(lines, f)[0] = << >>
        /\ \A n \in 1..Len(lines) :
              Found(lines, f)[n] = IF lines[n].name.field = f
                                   THEN Append(Found(lines, f)[n-1], lines[n])
                                   ELSE Found(lines, f)[n-1]
    <3>1. Len(lines) \in Nat
        BY <1>3
    <3> QED
        BY <3>1, FoundUnfolds
  <2>4. /\ LinesOf(lines, f) = Found(lines, f)[1] /\ Found(lines, f)[0] = << >>
        /\ Found(lines, f)[1] = IF lines[1].name.field = f
                                THEN Append(Found(lines, f)[0], lines[1])
                                ELSE Found(lines, f)[0]
    <3> DEFINE found == Found(lines, f)
    <3> HIDE DEF found, Items
    <3>1. 1 \in 1..Len(lines) /\ 1 - 1 = 0
        BY <1>3
    <3>2. found[1] = IF lines[1].name.field = f THEN Append(found[1-1], lines[1]) ELSE found[1-1]
        BY <2>3, <3>1, Zenon DEF found
    <3> QED
        BY <1>3, <2>3, <3>1, <3>2 DEF found
  <2>1. /\ LinesOf(lines, "location") = Found(lines, "location")[1]
        /\ Found(lines, "location")[0] = << >>
        /\ Found(lines, "location")[1] = Append(Found(lines, "location")[0], lines[1])
      BY <1>2, <1>3, <2>4 DEF f
  <2>2. Append(<< >>, item) = <<item>>
      OBVIOUS
  <2> QED
      BY <1>3, <2>1, <2>2
<1>6. values = <<Text(l)>>
  <2> HIDE DEF same, item
  <2> QED
      BY <1>2, <1>5
<1>7. FlattenSeq(<<Text(l)>>) = Text(l)
    BY <1>1, OneJoined
<1>8. lines = LocationLines(l)
    BY DEF LocationLines
<1> HIDE DEF lines, values
<1> QED
    BY <1>4, <1>6, <1>7, <1>8

(* The URLs that are meant are well formed before any call ... *)
LEMMA MeantInit ==
    ASSUME UrlsAreWellFormed, Init
    PROVE  MeantInv
<1>1. << >> \in Seq(Askable(client))
    BY EmptySeq
<1> QED
    BY <1>1 DEF Init, MeantInv

(* ... and each action keeps them so. *)
LEMMA MeantStays ==
    ASSUME UrlsAreWellFormed, LinesAreHeaders, MeantInv, [Next]_vars
    PROVE  MeantInv'
<1> USE DEF MeantInv
<1>1. ASSUME NEW target \in Targets, NEW given \in BOOLEAN,
             \/ AskUrlopen(target, given)
             \/ \E fields \in FieldLists :
                   \/ RequestEncodeUrl(target, given, fields)
                   \/ \E boundary \in Boundaries \cup {None} :
                         RequestEncodeBody(target, given, fields, boundary)
      PROVE  MeantInv'
  <2>1. PICK t, method, body, headers :
           /\ WellFormed(t) /\ Usable(t)
           /\ Urlopen(Text(t), method, body, headers) /\ meant' = <<Meant(t)>>
      BY <1>1, AskedUrl
  <2>2. Meant(t) \in Askable(client)
      BY <2>1, AskedMeant
  <2> DEFINE u == Meant(t)
  <2> HIDE DEF u
  <2>3. <<u>> \in Seq(Askable(client)) /\ <<u>> # << >>
      BY <2>2 DEF u
  <2>4. /\ meant' = <<u>> /\ UNCHANGED <<client, home, answer>>
        /\ at' \in {"called", "pooled"}
      BY <2>1 DEF u, Urlopen
  <2> QED
      BY <2>3, <2>4
<1>2. CASE Manage \/ Open \/ Send \/ TryAgain
  <2>1. UNCHANGED <<client, home, meant>> /\ at # "idle" /\ at' # "answered"
      BY <1>2 DEF Manage, Open, Send, TryAgain
  <2> QED
      BY <2>1
<1>3. CASE Answers
  <2>1. UNCHANGED <<client, home, meant>> /\ at # "idle" /\ answer'.status = "ok"
      BY <1>3 DEF Answers, Respond
  <2>2. RedirectLocation' = None
      BY <2>1 DEF RedirectLocation
  <2> QED
      BY <2>1, <2>2
<1>4. ASSUME NEW l \in Locations, Redirects(l) PROVE MeantInv'
  <2>1. PICK status \in {"redirect", "see_other"} : Respond(status, LocationLines(l), l)
      BY <1>4 DEF Redirects, LocationLines
  <2>2. /\ UNCHANGED <<client, home, meant>> /\ at # "idle" /\ answer'.status = status
        /\ answer'.headers = ResponseHeaders(LocationLines(l)) /\ answer'.location = l
      BY <2>1 DEF Respond
  <2>3. RedirectLocation' = Text(l)
      BY <2>2, LocationRead DEF RedirectLocation
  <2> QED
      BY <2>2, <2>3
<1>5. CASE Follow
  <2> DEFINE u == Last(meant)
             v == Resolved(u, answer.location)
  <2>1. /\ meant' = Append(meant, v) /\ UNCHANGED <<client, home>>
        /\ at' \in {"called", "pooled"} /\ at = "answered" /\ RedirectLocation # None
      BY <1>5 DEF Follow
  <2>2. meant \in Seq(Askable(client)) /\ meant # << >> /\ answer.location \in Locations
      BY <2>1
  <2>3. u \in Askable(client)
    <3>1. Len(meant) \in Nat /\ Len(meant) # 0
        BY <2>2, EmptySeq, LenProperties
    <3>2. Len(meant) \in 1..Len(meant)
        BY <3>1
    <3> QED
        BY <2>2, <3>2, ElementOfSeq DEF Last
  <2>4. v \in Askable(client)
      BY <2>2, <2>3, RedirectedMeant
  <2> HIDE DEF u, v
  <2>5. Append(meant, v) \in Seq(Askable(client)) /\ Append(meant, v) # << >>
      BY <2>2, <2>4, AppendProperties
  <2> QED
      BY <2>1, <2>5
<1>6. CASE Return
  <2>1. << >> \in Seq(Askable(client))
      BY EmptySeq
  <2> QED
      BY <1>6, <2>1 DEF Return
<1>7. CASE UNCHANGED vars
  <2>1. UNCHANGED <<client, home, meant, at, answer>>
      BY <1>7 DEF vars
  <2> QED
      BY <2>1 DEF RedirectLocation
<1> HIDE DEF MeantInv
<1> QED
    BY <1>1, <1>2, <1>3, <1>4, <1>5, <1>6, <1>7 DEF Next

(* The URL that is meant now. *)
LEMMA MeantIsAskable ==
    ASSUME MeantInv, at # "idle"
    PROVE  Last(meant) \in Askable(client)
<1>1. meant \in Seq(Askable(client)) /\ meant # << >>
    BY DEF MeantInv
<1>2. Len(meant) \in Nat /\ Len(meant) # 0
    BY <1>1, EmptySeq, LenProperties
<1>3. Len(meant) \in 1..Len(meant)
    BY <1>2
<1> QED
    BY <1>1, <1>3, ElementOfSeq DEF Last

(* The last element is the one that was appended. *)
LEMMA LastAppended ==
    ASSUME NEW S, NEW seq \in Seq(S), NEW x \in S
    PROVE  Last(Append(seq, x)) = x
<1>1. Len(Append(seq, x)) = Len(seq) + 1 /\ Append(seq, x)[Len(seq) + 1] = x
    BY AppendProperties
<1> QED
    BY <1>1 DEF Last
-----------------------------------------------------------------------------
(***************************************************************************)
(* A manager's call: what it has taken apart is the URL that is meant.  A  *)
(* redirect to a path leads nowhere if the URL before has no scheme.       *)
(***************************************************************************)
ManagerText ==
    client # "pool" /\ at \in Calling \cup {"called"} =>
        \/ call.text = Text(Last(meant)) /\ SchemeShows(Last(meant))
        \/ /\ client = "manager" /\ at = "called"
           /\ Last(meant).scheme = None /\ Parse(call.text).host = None

(* What a manager's pool is asked for. *)
LineFor(u) == IF PlainProxied(u) THEN Text(u) ELSE RequestUri(u)

ManagerLine ==
    client # "pool" /\ at \in Calling =>
        call.pool = ManagerPool(Last(meant)) /\ call.line = LineFor(Last(meant))

(* An empty path is as good as none. *)
LEMMA PlainAlike ==
    ASSUME NEW u, IsUrl(u)
    PROVE  /\ RequestUri(Plain(u)) = RequestUri(u) /\ ManagerPool(Plain(u)) = ManagerPool(u)
           /\ Netloc(Plain(u)) = Netloc(u) /\ PlainProxied(Plain(u)) = PlainProxied(u)
           /\ NoHostIn(Plain(u)) = NoHostIn(u)
<1>1. /\ Plain(u).scheme = u.scheme /\ Plain(u).host = u.host /\ Plain(u).port = u.port
      /\ Plain(u).query = u.query
      /\ Or(Plain(u).path, <<"/">>) = Or(u.path, <<"/">>)
    BY DEF Plain, Known, Or
<1> DEFINE v == Plain(u)
<1> HIDE DEF v
<1>2. RequestUri(v) = RequestUri(u) /\ Netloc(v) = Netloc(u)
    BY <1>1 DEF RequestUri, Netloc, v
<1>3. ManagedPool(v) = ManagedPool(u)
    BY <1>1 DEF ManagedPool, v
<1>4. ManagerPool(v) = ManagerPool(u)
    BY <1>1, <1>3 DEF ManagerPool, v
<1>5. PlainProxied(v) = PlainProxied(u) /\ NoHostIn(v) = NoHostIn(u)
    BY <1>1 DEF PlainProxied, NoHostIn, v
<1> QED
    BY <1>2, <1>4, <1>5 DEF v

(* The text of a URL with a scheme shows where that ends. *)
LEMMA SchemeFound ==
    ASSUME NEW u, IsUrl(u), u.scheme # None
    PROVE  SchemeEnd(Text(u)) # 0
<1> DEFINE c == Authority(u) \o Beyond(u)
           S == u.scheme \o <<":", "/", "/">>
<1>1. u.scheme \in Texts /\ Free(u.scheme, {":"})
    BY DEF IsUrl, Component
<1>2. c \in Texts /\ Part(<< >>, u.scheme, <<":", "/", "/">>) = S
  <2>1. << >> \o u.scheme = u.scheme
      BY <1>1, ConcatEmptySeq DEF Texts
  <2> QED
      BY <2>1, TextIsGrouped, ComesApart DEF Part
<1>3. Text(u) = S \o c
    BY <1>2, TextIsGrouped
<1> HIDE DEF c
<1>4. SchemeEnd(S \o c) # 0
    BY <1>1, <1>2, SchemeCut
<1> QED
    BY <1>3, <1>4

(* What urljoin makes of a redirect is the text of the URL that is meant. *)
LEMMA JoinedMeant ==
    ASSUME UrlsAreWellFormed, NEW u \in Askable(client), SchemeShows(u), NEW l \in Locations,
           client \in {"manager", "proxy"}
    PROVE  LET v    == Resolved(u, l)
               text == Join(Text(u), Text(l))
           IN  \/ text = Text(v) /\ SchemeShows(v)
               \/ client = "manager" /\ v.scheme = None /\ Parse(text).host = None
<1> DEFINE v    == Resolved(u, l)
           text == Join(Text(u), Text(l))
<1>1. IsUrl(l) /\ SchemeShows(l) /\ (l.scheme # None \/ l.host = None)
    BY DEF UrlsAreWellFormed, WellFormed
<1>2. IsUrl(u) /\ u.host # None /\ (client # "manager" => u.scheme # None)
    BY DEF Askable
<1>3. CASE l.host # None
  <2>1. text = Text(l)
      BY <1>1, <1>3, SchemeFound DEF Join
  <2>2. v = l
      BY <1>3 DEF Resolved
  <2> HIDE DEF v, text
  <2> QED
      BY <1>1, <2>1, <2>2 DEF v, text
<1>4. CASE l.host = None /\ u.scheme # None
  <2>1. text = Text(v)
      BY <1>1, <1>2, <1>4, JoinedText
  <2>2. v.scheme = u.scheme
      BY <1>1, <1>2, <1>4, OnHost DEF Known
  <2>3. SchemeShows(v)
      BY <1>4, <2>2 DEF SchemeShows
  <2> HIDE DEF v, text
  <2> QED
      BY <2>1, <2>3 DEF v, text
<1>5. CASE l.host = None /\ u.scheme = None
  <2>1. SchemeEnd(Text(u)) = 0
      BY <1>5 DEF SchemeShows
  <2>2. text = Text(l)
      BY <2>1 DEF Join
  <2>3. Parse(Text(l)).host = None
      BY <1>1, <1>5, TextIsParsed DEF Plain, Known
  <2>4. v.scheme = None
      BY <1>1, <1>2, <1>5, OnHost DEF Known
  <2> HIDE DEF v, text
  <2> QED
      BY <1>2, <1>5, <2>2, <2>3, <2>4 DEF v, text
<1> QED
    BY <1>3, <1>4, <1>5

(* A call's arguments that no step but urlopen's and Manage's sets. *)
LEMMA ManagerAsked ==
    ASSUME UrlsAreWellFormed, MeantInv, NEW t, WellFormed(t), Usable(t),
           NEW method, NEW body, NEW headers,
           Urlopen(Text(t), method, body, headers), meant' = <<Meant(t)>>
    PROVE  ManagerText' /\ ManagerLine'
<1>1. /\ client' = client /\ call'.text = Text(t)
      /\ at' = IF client = "pool" THEN "pooled" ELSE "called"
    BY DEF Urlopen, NoCall
<1>2. client # "pool" => Meant(t) = t
    BY AskedMeant DEF MeantInv
<1>3. Last(meant') = Meant(t)
  <2> DEFINE u == Meant(t)
  <2> HIDE DEF u
  <2>1. Last(<<u>>) = u
      BY DEF Last
  <2> QED
      BY <2>1 DEF u
<1>4. client # "pool" => at' = "called" /\ call'.text = Text(Last(meant')) /\ SchemeShows(Last(meant'))
    BY <1>1, <1>2, <1>3 DEF WellFormed
<1>5. client = "pool" \/ at' \notin Calling
    BY <1>1 DEF Calling
<1> QED
    BY <1>1, <1>4, <1>5 DEF ManagerText, ManagerLine

(* Manage() asks for the text of the URL that is meant ... *)
LEMMA ManagerManages ==
    ASSUME MeantInv, CallNamed, PoolsUnmanaged, ManagerText, Manage
    PROVE  ManagerText' /\ ManagerLine'
<1> DEFINE m == Last(meant)
           u == Parse(call.text)
<1>1. /\ at = "called" /\ client # "pool" /\ UNCHANGED <<client, meant>>
    BY DEF Manage, PoolsUnmanaged
<1>2. CASE at' = "raised"
    BY <1>2 DEF ManagerText, ManagerLine, Calling
<1>3. CASE at' # "raised"
  <2> DEFINE kw   == IF PlainProxied(u) THEN "kw" ELSE IF call.kw = Absent THEN "defaults" ELSE call.kw
             line == IF PlainProxied(u) THEN call.text ELSE RequestUri(u)
             pool == ManagerPool(u)
  <2>1. /\ at' = "pooled" /\ ~NoHostIn(u)
        /\ call' = [call EXCEPT !.pool = pool, !.kw = kw, !.headers = kw, !.line = line]
      BY <1>3 DEF Manage
  <2>2. IsUrl(m)
      BY <1>1, MeantIsAskable DEF Askable
  <2>3. call.text = Text(m) /\ SchemeShows(m)
    <3>1. u.host = None => NoHostIn(u) \/ client # "manager"
        BY DEF NoHostIn, Or
    <3> QED
        BY <1>1, <2>1, <3>1 DEF ManagerText
  <2>4. u = Plain(m)
      BY <2>2, <2>3, TextIsParsed
  <2>5. pool = ManagerPool(m) /\ line = IF PlainProxied(m) THEN Text(m) ELSE RequestUri(m)
    <3> HIDE DEF m, u
    <3> QED
        BY <2>2, <2>3, <2>4, PlainAlike
  <2> HIDE DEF kw, line, pool, u
  <2>6. call'.pool = pool /\ call'.line = line /\ call'.text = call.text
      BY <2>1 DEF CallNamed, NoCall
  <2>7. ManagerPool(m)' = ManagerPool(m) /\ LineFor(m)' = LineFor(m)
    <3> USE <1>1 DEF ManagerPool, LineFor, PlainProxied
    <3> QED
        OBVIOUS
  <2>8. ManagerText'
      BY <1>1, <2>1, <2>3, <2>6 DEF ManagerText
  <2>9. ManagerLine'
    <3>1. pool = ManagerPool(m) /\ line = LineFor(m)
        BY <2>5 DEF LineFor
    <3> QED
        BY <1>1, <2>6, <2>7, <3>1 DEF ManagerLine
  <2> QED
      BY <2>8, <2>9
<1> QED
    BY <1>2, <1>3

(* Steps that leave a manager's call as it is. *)
LEMMA ManagerGoesOn ==
    ASSUME ManagerText, ManagerLine, UNCHANGED <<client, meant>>,
           call'.text = call.text, call'.pool = call.pool, call'.line = call.line,
           at' \in Calling => at \in Calling, at' = "called" => at = "called"
    PROVE  ManagerText' /\ ManagerLine'
<1>1. ManagerPool(Last(meant))' = ManagerPool(Last(meant)) /\ LineFor(Last(meant))' = LineFor(Last(meant))
  <2> USE DEF ManagerPool, LineFor, PlainProxied
  <2> QED
      OBVIOUS
<1>2. ManagerText'
    BY DEF ManagerText, Calling
<1> QED
    BY <1>1, <1>2 DEF ManagerLine

(* A redirect brings a manager's call back to its urlopen. *)
LEMMA ManagerFollows ==
    ASSUME UrlsAreWellFormed, MeantInv, CallNamed, ManagerText, Follow
    PROVE  ManagerText' /\ ManagerLine'
<1> DEFINE u == Last(meant)
           l == answer.location
           v == Resolved(u, l)
<1>1. /\ at = "answered" /\ at' = IF client = "pool" THEN "pooled" ELSE "called"
      /\ client' = client /\ meant' = Append(meant, v) /\ RedirectLocation # None
    BY DEF Follow
<1>2. /\ u \in Askable(client) /\ l \in Locations /\ RedirectLocation = Text(l)
      /\ meant \in Seq(Askable(client)) /\ client \in Clients
    BY <1>1, MeantIsAskable DEF MeantInv
<1>3. v \in Askable(client)
    BY <1>2, RedirectedMeant
<1>4. Last(meant') = v
  <2> HIDE DEF v
  <2> QED
      BY <1>1, <1>2, <1>3, LastAppended
<1>5. CASE client = "pool"
    BY <1>1, <1>5 DEF ManagerText, ManagerLine
<1>6. CASE client # "pool"
  <2>1. client \in {"manager", "proxy"}
      BY <1>2, <1>6, RequestConstants
  <2>2. call.text = Text(u) /\ SchemeShows(u)
      BY <1>1, <1>6 DEF ManagerText, Calling
  <2> DEFINE method == IF answer.status = "see_other" THEN "GET" ELSE call.method
             text == Join(call.text, RedirectLocation)
  <2>3. call' = [call EXCEPT !.method = method, !.text = text] /\ at' = "called"
      BY <1>6 DEF Follow
  <2> HIDE DEF method, text
  <2>4. call'.text = text
      BY <2>3 DEF CallNamed, NoCall
  <2>5. text = Join(Text(u), Text(l))
      BY <1>2, <2>2 DEF text
  <2>6. \/ text = Text(v) /\ SchemeShows(v)
        \/ client = "manager" /\ v.scheme = None /\ Parse(text).host = None
    <3> HIDE DEF u, l
    <3> QED
        BY <1>2, <2>1, <2>2, <2>5, JoinedMeant
  <2>7. at' \notin Calling
      BY <2>3 DEF Calling
  <2> HIDE DEF v, u, l
  <2> QED
      BY <1>1, <1>4, <2>3, <2>4, <2>6, <2>7 DEF ManagerText, ManagerLine
<1> QED
    BY <1>5, <1>6

(* ... and every action keeps what the manager's calls ask for. *)
LEMMA ManagerStays ==
    ASSUME UrlsAreWellFormed, MeantInv, CallNamed, PoolsUnmanaged,
           ManagerText, ManagerLine, [Next]_vars
    PROVE  ManagerText' /\ ManagerLine'
<1>1. ASSUME NEW target \in Targets, NEW given \in BOOLEAN,
             \/ AskUrlopen(target, given)
             \/ \E fields \in FieldLists :
                   \/ RequestEncodeUrl(target, given, fields)
                   \/ \E boundary \in Boundaries \cup {None} :
                         RequestEncodeBody(target, given, fields, boundary)
      PROVE  ManagerText' /\ ManagerLine'
  <2>1. PICK t, method, body, headers :
           /\ WellFormed(t) /\ Usable(t)
           /\ Urlopen(Text(t), method, body, headers) /\ meant' = <<Meant(t)>>
      BY <1>1, AskedUrl
  <2> QED
      BY <2>1, ManagerAsked
<1>2. CASE Manage
    BY <1>2, ManagerManages
<1>3. CASE Open
  <2>1. UNCHANGED <<client, meant>> /\ at = "pooled" /\ at' \in {"open", "raised", "refused"}
      BY <1>3 DEF Open
  <2>2. UNCHANGED call \/ \E headers : call' = [call EXCEPT !.headers = headers]
      BY <1>3 DEF Open, MergeProxyHeaders
  <2>3. call'.text = call.text /\ call'.pool = call.pool /\ call'.line = call.line
      BY <2>2 DEF CallNamed, NoCall
  <2> QED
      BY <2>1, <2>3, ManagerGoesOn DEF Calling
<1>4. CASE Send \/ TryAgain
  <2>1. UNCHANGED <<client, meant, call>> /\ at \in Calling /\ at' # "called"
      BY <1>4 DEF Send, TryAgain, Calling
  <2> QED
      BY <2>1, ManagerGoesOn
<1>5. CASE Answers \/ \E l \in Locations : Redirects(l)
  <2>1. UNCHANGED <<client, meant, call>> /\ at \in Calling /\ at' # "called"
      BY <1>5 DEF Answers, Redirects, Respond, Calling
  <2> QED
      BY <2>1, ManagerGoesOn
<1>6. CASE Follow
    BY <1>6, ManagerFollows
<1>7. CASE Return
    BY <1>7 DEF Return, ManagerText, ManagerLine, Calling
<1>8. CASE UNCHANGED vars
  <2>1. UNCHANGED <<client, meant, call, at>>
      BY <1>8 DEF vars
  <2> QED
      BY <2>1, ManagerGoesOn
<1> QED
    BY <1>1, <1>2, <1>3, <1>4, <1>5, <1>6, <1>7, <1>8 DEF Next

(* The URL of a manager's call comes apart as it is meant. *)
LEMMA ManagerParses ==
    ASSUME MeantInv, ManagerText, PoolsUnmanaged
    PROVE  ParsesAsMeant
<1> SUFFICES ASSUME at = "called", Last(meant).scheme # None
             PROVE  /\ [Parse(call.text) EXCEPT !.path = Or(@, None)] = Last(meant)
                    /\ Text(Parse(call.text)) = call.text
    BY DEF ParsesAsMeant
<1> DEFINE m == Last(meant)
<1>1. IsUrl(m)
    BY MeantIsAskable DEF Askable
<1>2. call.text = Text(m) /\ SchemeShows(m)
    BY DEF ManagerText, PoolsUnmanaged
<1> HIDE DEF m
<1>3. Parse(call.text) = Plain(m) /\ Text(Plain(m)) = Text(m)
    BY <1>1, <1>2, TextIsParsed, PlainText
<1>4. [Plain(m) EXCEPT !.path = Or(@, None)] = m
  <2>1. m = Known(m.scheme, m.auth, m.host, m.port, m.path, m.query, m.fragment)
      BY <1>1 DEF IsUrl, Known
  <2>2. Or(Plain(m).path, None) = m.path
    <3>1. m.path # << >>
        BY <1>1, MarksAreTexts, NoneIsNoText DEF IsUrl, Texts
    <3> QED
        BY <3>1 DEF Or, Plain, Known
  <2> DEFINE p == Plain(m).path
             q == Or(p, None)
  <2>3. Plain(m) = Known(m.scheme, m.auth, m.host, m.port, p, m.query, m.fragment)
      BY DEF Plain, Known
  <2> HIDE DEF p
  <2>4. [Known(m.scheme, m.auth, m.host, m.port, p, m.query, m.fragment) EXCEPT !.path = Or(@, None)]
           = Known(m.scheme, m.auth, m.host, m.port, q, m.query, m.fragment)
      BY DEF Known
  <2> QED
      BY <2>1, <2>2, <2>3, <2>4 DEF p
<1> QED
    BY <1>2, <1>3, <1>4 DEF m
-----------------------------------------------------------------------------
(***************************************************************************)
(* The call of a pool: it goes on if the URL meant is on the pool's host.  *)
(***************************************************************************)
Asks(t, u) ==
    /\ WellFormed(t)
    /\ IF t.host # None THEN t.scheme # None /\ u = t
       ELSE /\ Endpoint(u) = Endpoint(home)
            /\ u.path = t.path /\ u.query = t.query /\ u.fragment = t.fragment

PoolLine ==
    client = "pool" /\ at \in Calling =>
        /\ call.pool = PoolOfUrl(Text(home))
        /\ \E t : call.line = Text(t) /\ Asks(t, Last(meant))

PoolHost ==
    client = "pool" =>
        /\ at \in {"open", "sent", "answered"} => Endpoint(Last(meant)) = Endpoint(home)
        /\ at = "refused" => \/ Endpoint(Last(meant)) # Endpoint(home)
                             \/ Head(home.host) = "["

(* The host that a URL has is one, with its brackets or without. *)
LEMMA HostsAreHosts ==
    ASSUME NEW u, IsUrl(u), u.host # None
    PROVE  IsHost(u.host) /\ Strip(u.host) = Bared(u.host) /\ u.host # << >>
<1>1. u.host \in Texts /\ (IsName(u.host) \/ IsAddress(u.host))
    BY DEF IsUrl, Component
<1>2. IsHost(u.host)
    BY <1>1 DEF IsHost
<1>3. u.host # << >>
  <2>1. CASE IsName(u.host)
      BY <2>1 DEF IsName
  <2>2. CASE IsAddress(u.host)
    <3>1. Len(u.host) > 2
        BY <1>1, <2>2, Inner
    <3> QED
        BY <3>1
  <2> QED
      BY <1>1, <2>1, <2>2
<1> QED
    BY <1>2, <1>3, StripBares

(* The endpoint of a URL that is well-formed. *)
LEMMA EndpointIs ==
    ASSUME NEW u, IsUrl(u), u.host # None, u.scheme \in Schemes
    PROVE  LET scheme == IF u.scheme = None THEN <<"http">> ELSE u.scheme IN
           /\ Endpoint(u) = [scheme |-> scheme, host |-> Bared(u.host),
                             port |-> IF u.port # None THEN u.port ELSE PortByScheme(scheme)]
           /\ Or(u.scheme, <<"http">>) = scheme
<1>1. Or(u.scheme, <<"http">>) = IF u.scheme = None THEN <<"http">> ELSE u.scheme
    BY DEF Or, Schemes
<1> QED
    BY <1>1 DEF Endpoint, Bared, PortByScheme

(* connection_from_url() makes the pool of the URL's scheme, host and port. *)
LEMMA PoolMade ==
    ASSUME NEW u, IsUrl(u), u.host # None, u.scheme \in Schemes, u.scheme # None
    PROVE  /\ PoolOfUrl(Text(u)) = [scheme |-> u.scheme, host |-> Bared(u.host), port |-> u.port]
           /\ GetHost(Parse(Text(u))) = [scheme |-> u.scheme, host |-> u.host, port |-> u.port]
<1>1. Parse(Text(u)) = Plain(u)
    BY TextIsParsed DEF SchemeShows
<1>2. GetHost(Plain(u)) = [scheme |-> u.scheme, host |-> u.host, port |-> u.port]
    BY DEF GetHost, Plain, Known, Or, Schemes
<1>3. Strip(u.host) = Bared(u.host)
    BY HostsAreHosts
<1> QED
    BY <1>1, <1>2, <1>3 DEF PoolOfUrl, PoolAt, Pool

(* An address without its brackets is none, nor a name. *)
LEMMA BareAddress ==
    ASSUME NEW g, NEW h, IsHost(g), IsHost(h), Head(h) = "["
    PROVE  g # Bared(h)
<1>1. g \in Texts /\ h \in Texts
    BY DEF IsHost
<1>2. IsAddress(h)
    BY <1>1, NameStarts DEF IsHost
<1> DEFINE b == Bared(h)
           n == Len(h) - 2
<1>3. /\ Len(h) \in Nat /\ Len(h) > 2 /\ b \in Texts /\ Len(b) = n
      /\ \A i \in 1..n : b[i] = h[i + 1]
      /\ \E i \in 1..n : b[i] = ":"
    BY <1>1, <1>2, Inner
<1>4. b[1] # "["
  <2>1. 1 \in 1..n /\ 1 + 1 \in 2..Len(h) - 1
      BY <1>3
  <2>2. h[1 + 1] # "["
      BY <1>2, <2>1 DEF IsAddress
  <2> HIDE DEF b, n
  <2> QED
      BY <1>3, <2>1, <2>2
<1> HIDE DEF b
<1>5. CASE IsName(g)
  <2>1. \A i \in 1..Len(g) : g[i] # ":"
      BY <1>5 DEF IsName, Free
  <2>2. PICK i \in 1..n : b[i] = ":"
      BY <1>3
  <2> QED
      BY <1>3, <2>1, <2>2 DEF b
<1>6. CASE IsAddress(g)
  <2>1. g[1] = "["
      BY <1>1, <1>6, Inner
  <2> QED
      BY <1>4, <2>1 DEF b
<1> QED
    BY <1>5, <1>6 DEF IsHost

(* assert_same_host, of a URL: host, scheme and port are compared, and *)
(* default ports that only one of them names make no difference.       *)
LEMMA HostChecked ==
    ASSUME NEW h, IsUrl(h), h.host # None, h.scheme \in Schemes, h.scheme # None,
           NEW t, IsUrl(t), t.host # None, t.scheme \in Schemes, t.scheme # None
    PROVE  LET same == AtPool(PoolOfUrl(Text(h)), GetHost(Parse(Text(t)))) IN
           /\ same => Endpoint(t) = Endpoint(h)
           /\ ~same => Endpoint(t) # Endpoint(h) \/ Head(h.host) = "["
<1> DEFINE pool == [scheme |-> h.scheme, host |-> Bared(h.host), port |-> h.port]
           given == [scheme |-> t.scheme, host |-> t.host, port |-> t.port]
           default == PortByScheme(t.scheme)
<1>1. PoolOfUrl(Text(h)) = pool /\ GetHost(Parse(Text(t))) = given
    BY PoolMade
<1>2. IsHost(h.host) /\ IsHost(t.host)
    BY HostsAreHosts
<1>3. /\ Endpoint(h) = [scheme |-> h.scheme, host |-> Bared(h.host),
                        port |-> IF h.port # None THEN h.port ELSE PortByScheme(h.scheme)]
      /\ Endpoint(t) = [scheme |-> t.scheme, host |-> Bared(t.host),
                        port |-> IF t.port # None THEN t.port ELSE default]
    BY EndpointIs, Zenon
<1>4. AtPool(pool, given) <=>
        /\ t.scheme = h.scheme /\ t.host = Bared(h.host)
        /\ (IF t.port # None THEN t.port ELSE default)
              = (IF h.port # None THEN h.port ELSE PortByScheme(h.scheme))
  <2> HIDE DEF default
  <2> QED
      BY DEF AtPool, default
<1>5. CASE Head(h.host) = "["
  <2>1. t.host # Bared(h.host)
      BY <1>2, <1>5, BareAddress
  <2> QED
      BY <1>1, <1>4, <1>5, <2>1
<1>6. CASE Head(h.host) # "["
  <2>1. Bared(h.host) = h.host
      BY <1>6 DEF Bared
  <2>2. t.host = Bared(h.host) <=> Bared(t.host) = Bared(h.host)
      BY <1>2, <1>6, <2>1, BaredTellApart
  <2> HIDE DEF pool, given, default
  <2> QED
      BY <1>1, <1>3, <1>4, <2>2
<1> QED
    BY <1>5, <1>6

(* Only a path begins with a slash. *)
LEMMA OnlyPathsAreRooted ==
    ASSUME NEW t, IsUrl(t), t.scheme \in Schemes, t.scheme # None
    PROVE  Text(t) # << >> /\ Head(Text(t)) # "/"
<1> DEFINE c == Authority(t) \o Beyond(t)
           mark == <<":", "/", "/">>
           sc == t.scheme
<1>1. sc \in Texts /\ sc # << >> /\ sc[1] # "/"
    BY DEF IsUrl, Component, Schemes
<1>2. c \in Texts /\ mark \in Texts
    BY TextIsGrouped, ComesApart, MarksAreTexts
<1> HIDE DEF mark, c
<1>3. /\ << >> \o sc = sc /\ sc \o mark \in Texts
      /\ sc \o mark # << >> /\ (sc \o mark)[1] = sc[1]
  <2> HIDE DEF sc
  <2> QED
      BY <1>1, <1>2, ConcatEmptySeq, ComesApart, CatBegins DEF Texts
<1>4. Text(t) = (sc \o mark) \o c
    BY <1>1, <1>3, TextIsGrouped DEF Part, mark, c
<1> DEFINE S == sc \o mark
<1> HIDE DEF S
<1>5. S \o c # << >> /\ (S \o c)[1] = S[1] /\ S \o c \in Texts
    BY <1>2, <1>3, CatBegins, ComesApart DEF S
<1>6. Head(S \o c) = (S \o c)[1]
    BY <1>5, HeadTailProperties DEF Texts
<1> HIDE DEF sc
<1> QED
    BY <1>1, <1>3, <1>4, <1>5, <1>6 DEF S

(* What a pool does with the URL or path that it is asked for. *)
LEMMA SameHostAsked ==
    ASSUME UrlsAreWellFormed, home \in Homes, NEW t, NEW u, Asks(t, u)
    PROVE  LET same == IsSameHost(PoolOfUrl(Text(home)), Text(t)) IN
           /\ same => Endpoint(u) = Endpoint(home)
           /\ ~same => Endpoint(u) # Endpoint(home) \/ Head(home.host) = "["
<1>1. IsUrl(home) /\ home.host # None /\ home.scheme \in Schemes /\ home.scheme # None
    BY HomesAskable DEF Askable
<1>2. IsUrl(t) /\ t.scheme \in Schemes
    BY DEF Asks, WellFormed
<1>3. CASE t.host = None
  <2>1. Text(t) # << >> /\ Head(Text(t)) = "/"
      BY <1>2, <1>3, PathOnly
  <2>2. Endpoint(u) = Endpoint(home)
      BY <1>3 DEF Asks
  <2> QED
      BY <2>1, <2>2 DEF IsSameHost, BeginsAtSlash
<1>4. CASE t.host # None
  <2>1. t.scheme # None /\ u = t
      BY <1>4 DEF Asks
  <2>2. IsSameHost(PoolOfUrl(Text(home)), Text(t))
           <=> AtPool(PoolOfUrl(Text(home)), GetHost(Parse(Text(t))))
      BY <1>2, <2>1, OnlyPathsAreRooted DEF IsSameHost, BeginsAtSlash
  <2>3. LET same == AtPool(PoolOfUrl(Text(home)), GetHost(Parse(Text(t)))) IN
        /\ same => Endpoint(t) = Endpoint(home)
        /\ ~same => Endpoint(t) # Endpoint(home) \/ Head(home.host) = "["
      BY <1>1, <1>2, <1>4, <2>1, HostChecked
  <2> QED
      BY <2>1, <2>2, <2>3
<1> QED
    BY <1>3, <1>4

(* A path that a URL on the pool's host resolves. *)
LEMMA PathAsked ==
    ASSUME UrlsAreWellFormed, home \in Homes, NEW b, b \in Askable("pool"), NEW t, WellFormed(t),
           t.host = None \/ t.scheme # None, Endpoint(b) = Endpoint(home)
    PROVE  Asks(t, Resolved(b, t))
<1>1. IsUrl(b) /\ b.host # None /\ IsUrl(t)
    BY DEF Askable, WellFormed
<1>2. CASE t.host = None
  <2> DEFINE r == Resolved(b, t)
  <2>1. /\ r = Known(b.scheme, b.auth, b.host, b.port, t.path, t.query, t.fragment)
        /\ Endpoint(r) = Endpoint(b)
      BY <1>1, <1>2, OnHost
  <2> HIDE DEF r
  <2> QED
      BY <1>2, <2>1 DEF Asks, Known, r
<1>3. CASE t.host # None
    BY <1>3 DEF Asks, Resolved
<1> QED
    BY <1>2, <1>3

(* A pool's urlopen() with the text of a URL of its own ... *)
LEMMA PoolAsked ==
    ASSUME UrlsAreWellFormed, MeantInv, NEW t, WellFormed(t), Usable(t),
           NEW method, NEW body, NEW headers,
           Urlopen(Text(t), method, body, headers), meant' = <<Meant(t)>>
    PROVE  PoolLine' /\ PoolHost'
<1>1. CASE client # "pool"
  <2>1. client' = client
      BY DEF Urlopen
  <2> QED
      BY <1>1, <2>1 DEF PoolLine, PoolHost
<1>2. CASE client = "pool"
  <2>1. /\ client' = client /\ home' = home /\ at' = "pooled"
        /\ call'.line = Text(t) /\ call'.pool = PoolOfUrl(Text(home))
      BY <1>2 DEF Urlopen, NoCall
  <2>2. home \in Homes /\ home \in Askable("pool")
      BY <1>2, HomesAskable DEF MeantInv
  <2>3. t.host = None \/ t.scheme # None
      BY <1>2 DEF Usable
  <2>4. Meant(t) = Resolved(home, t)
      BY DEF Meant, Resolved
  <2>5. Asks(t, Meant(t))
      BY <2>2, <2>3, <2>4, PathAsked
  <2> DEFINE u == Meant(t)
  <2> HIDE DEF u
  <2>6. Last(<<u>>) = u
      BY DEF Last
  <2>7. Last(meant') = u
      BY <2>6 DEF u
  <2>8. Asks(t, Last(meant))'
    <3>1. Asks(t, u)
        BY <2>5 DEF u
    <3> USE DEF Asks
    <3> QED
        BY <2>1, <2>7, <3>1
  <2> QED
      BY <2>1, <2>8 DEF PoolLine, PoolHost
<1> QED
    BY <1>1, <1>2

(* Steps that leave a pool's call as it is. *)
LEMMA PoolGoesOn ==
    ASSUME PoolLine, UNCHANGED <<client, home, meant>>,
           call'.pool = call.pool, call'.line = call.line,
           at' \in Calling => at \in Calling
    PROVE  PoolLine'
<1>1. CASE client = "pool" /\ at' \in Calling
  <2>1. PICK t : call.line = Text(t) /\ Asks(t, Last(meant))
      BY <1>1 DEF PoolLine
  <2>2. Asks(t, Last(meant))'
    <3> USE DEF Asks
    <3> QED
        BY <2>1
  <2> QED
      BY <1>1, <2>1, <2>2 DEF PoolLine
<1> QED
    BY <1>1 DEF PoolLine

(* ... as a call to the pool begins ... *)
LEMMA PoolOpens ==
    ASSUME UrlsAreWellFormed, MeantInv, CallNamed, PoolLine, PoolHost, Open
    PROVE  PoolLine' /\ PoolHost'
<1>1. /\ UNCHANGED <<client, home, meant>> /\ at = "pooled"
      /\ at' \in {"open", "raised", "refused"}
    BY DEF Open
<1>2. UNCHANGED call \/ \E headers : call' = [call EXCEPT !.headers = headers]
    BY DEF Open, MergeProxyHeaders
<1>3. call'.pool = call.pool /\ call'.line = call.line
    BY <1>2 DEF CallNamed, NoCall
<1>4. PoolLine'
    BY <1>1, <1>3, PoolGoesOn DEF Calling
<1>5. PoolHost'
  <2>1. CASE client # "pool"
      BY <1>1, <2>1 DEF PoolHost
  <2>2. CASE client = "pool"
    <3>1. PICK t : /\ call.pool = PoolOfUrl(Text(home)) /\ call.line = Text(t)
                   /\ Asks(t, Last(meant))
        BY <1>1, <2>2 DEF PoolLine, Calling
    <3>2. /\ at' = "open" => IsSameHost(call.pool, call.line)
          /\ at' = "refused" => ~IsSameHost(call.pool, call.line)
        BY <2>2 DEF Open, IsSameHost
    <3>3. home \in Homes
        BY <2>2 DEF MeantInv
    <3> DEFINE u == Last(meant)
    <3> HIDE DEF u
    <3>4. LET same == IsSameHost(PoolOfUrl(Text(home)), Text(t)) IN
          /\ same => Endpoint(u) = Endpoint(home)
          /\ ~same => Endpoint(u) # Endpoint(home) \/ Head(home.host) = "["
        BY <3>1, <3>3, SameHostAsked DEF u
    <3>5. /\ at' = "open" => Endpoint(u) = Endpoint(home)
          /\ at' = "refused" => Endpoint(u) # Endpoint(home) \/ Head(home.host) = "["
        BY <3>1, <3>2, <3>4
    <3> QED
        BY <1>1, <3>5 DEF PoolHost, u
  <2> QED
      BY <2>1, <2>2
<1> QED
    BY <1>4, <1>5

(* ... and as it follows a redirect asks for that URL ... *)
LEMMA PoolFollows ==
    ASSUME UrlsAreWellFormed, MeantInv, CallNamed, PoolLine, PoolHost, Follow
    PROVE  PoolLine' /\ PoolHost'
<1> DEFINE u == Last(meant)
           l == answer.location
           v == Resolved(u, l)
<1>1. /\ at = "answered" /\ client' = client /\ home' = home
      /\ meant' = Append(meant, v) /\ RedirectLocation # None
    BY DEF Follow
<1>2. /\ u \in Askable(client) /\ l \in Locations /\ RedirectLocation = Text(l)
      /\ meant \in Seq(Askable(client))
    BY <1>1, MeantIsAskable DEF MeantInv
<1>3. v \in Askable(client)
    BY <1>2, RedirectedMeant
<1>4. Last(meant') = v
  <2> HIDE DEF v
  <2> QED
      BY <1>1, <1>2, <1>3, LastAppended
<1>5. CASE client # "pool"
    BY <1>1, <1>5 DEF PoolLine, PoolHost
<1>6. CASE client = "pool"
  <2> DEFINE method == IF answer.status = "see_other" THEN "GET" ELSE call.method
             text == RedirectLocation
  <2>1. /\ call' = [call EXCEPT !.method = method, !.text = text, !.line = text]
        /\ at' = "pooled"
      BY <1>6 DEF Follow
  <2> HIDE DEF method, text
  <2>2. call'.line = text /\ call'.pool = call.pool
      BY <2>1 DEF CallNamed, NoCall
  <2>3. call.pool = PoolOfUrl(Text(home)) /\ Endpoint(u) = Endpoint(home)
      BY <1>1, <1>6 DEF PoolLine, PoolHost, Calling
  <2>4. home \in Homes /\ u \in Askable("pool") /\ WellFormed(l) /\ (l.host = None \/ l.scheme # None)
      BY <1>2, <1>6 DEF MeantInv, UrlsAreWellFormed
  <2>5. Asks(l, v)
    <3> HIDE DEF u, l
    <3> QED
        BY <2>3, <2>4, PathAsked
  <2>6. text = Text(l)
      BY <1>2 DEF text
  <2> HIDE DEF v, u
  <2>7. \E t : text = Text(t) /\ Asks(t, v)
      BY <2>5, <2>6
  <2>8. PoolLine'
    <3>1. PICK x : text = Text(x) /\ Asks(x, v)
        BY <2>7
    <3>2. Asks(x, Last(meant))'
      <4> USE DEF Asks
      <4> QED
          BY <1>1, <1>4, <3>1
    <3> QED
        BY <1>1, <2>2, <2>3, <3>1, <3>2 DEF PoolLine
  <2> QED
      BY <2>1, <2>8 DEF PoolHost
<1> QED
    BY <1>5, <1>6

(* ... and every action keeps what the pools' calls ask for. *)
LEMMA PoolStays ==
    ASSUME UrlsAreWellFormed, MeantInv, CallNamed, PoolLine, PoolHost, PoolsUnmanaged, [Next]_vars
    PROVE  PoolLine' /\ PoolHost'
<1>1. ASSUME NEW target \in Targets, NEW given \in BOOLEAN,
             \/ AskUrlopen(target, given)
             \/ \E fields \in FieldLists :
                   \/ RequestEncodeUrl(target, given, fields)
                   \/ \E boundary \in Boundaries \cup {None} :
                         RequestEncodeBody(target, given, fields, boundary)
      PROVE  PoolLine' /\ PoolHost'
  <2>1. PICK t, method, body, headers :
           /\ WellFormed(t) /\ Usable(t)
           /\ Urlopen(Text(t), method, body, headers) /\ meant' = <<Meant(t)>>
      BY <1>1, AskedUrl
  <2> QED
      BY <2>1, PoolAsked
<1>2. CASE Manage
  <2>1. client' = client /\ client # "pool"
      BY <1>2 DEF Manage, PoolsUnmanaged
  <2> QED
      BY <2>1 DEF PoolLine, PoolHost
<1>3. CASE Open
    BY <1>3, PoolOpens
<1>4. CASE Send \/ TryAgain
  <2>1. /\ UNCHANGED <<client, home, meant, call>> /\ at \in Calling /\ at' \in {"sent", "pooled"}
        /\ at' = "sent" => at = "open"
      BY <1>4 DEF Send, TryAgain, Calling
  <2> QED
      BY <2>1, PoolGoesOn DEF PoolHost
<1>5. CASE Answers \/ \E l \in Locations : Redirects(l)
  <2>1. UNCHANGED <<client, home, meant, call>> /\ at = "sent" /\ at' = "answered"
      BY <1>5 DEF Answers, Redirects, Respond
  <2> QED
      BY <2>1, PoolGoesOn DEF PoolHost, Calling
<1>6. CASE Follow
    BY <1>6, PoolFollows
<1>7. CASE Return
    BY <1>7 DEF Return, PoolLine, PoolHost, Calling
<1>8. CASE UNCHANGED vars
  <2>1. UNCHANGED <<client, home, meant, call, at>>
      BY <1>8 DEF vars
  <2> QED
      BY <2>1, PoolGoesOn DEF PoolHost
<1> QED
    BY <1>1, <1>2, <1>3, <1>4, <1>5, <1>6, <1>7, <1>8 DEF Next

(* The pool's host is the one that was meant: the request stays on it. *)
LEMMA PoolStaysOnHost ==
    ASSUME PoolHost
    PROVE  StaysOnHost
BY DEF PoolHost, StaysOnHost
-----------------------------------------------------------------------------
(***************************************************************************)
(* What is sent, and where to.                                             *)
(***************************************************************************)
SentToPool ==
    at = "sent" =>
        /\ message.peer = Peer(call.pool) /\ message.line = call.line
        /\ message.tunnel = IF Tunnelled(call.pool) THEN Address(call.pool) ELSE None

(* What is sent is sent to the pool of the call. *)
LEMMA SentIsToPool ==
    ASSUME SentToPool, [Next]_vars
    PROVE  SentToPool'
<1>1. CASE at' # "sent"
    BY <1>1 DEF SentToPool
<1>2. CASE UNCHANGED vars
  <2>1. UNCHANGED <<at, client, message, call>>
      BY <1>2 DEF vars
  <2>2. Peer(call.pool)' = Peer(call.pool) /\ Tunnelled(call.pool)' = Tunnelled(call.pool)
    <3> USE DEF Peer, Tunnelled
    <3> QED
        BY <2>1
  <2> QED
      BY <2>1, <2>2 DEF SentToPool
<1>3. CASE Send
  <2>1. /\ UNCHANGED <<client, call>>
        /\ message'.peer = Peer(call.pool) /\ message'.line = call.line
        /\ message'.tunnel = IF Tunnelled(call.pool) THEN Address(call.pool) ELSE None
      BY <1>3 DEF Send
  <2>2. Peer(call.pool)' = Peer(call.pool) /\ Tunnelled(call.pool)' = Tunnelled(call.pool)
    <3> USE DEF Peer, Tunnelled
    <3> QED
        BY <2>1
  <2> QED
      BY <2>1, <2>2 DEF SentToPool
<1>4. at' = "sent" => Send \/ UNCHANGED vars
    BY DEF Next, AskUrlopen, RequestEncodeUrl, RequestEncodeBody, Urlopen, Manage, Open,
           Answers, Redirects, Respond, Follow, TryAgain, Return
<1> QED
    BY <1>1, <1>2, <1>3, <1>4

(* A server does not see the fragment. *)
LEMMA FragmentOff ==
    ASSUME NEW a \in Texts, Free(a, {"#"}), NEW c \in Component
    PROVE  WithoutFragment(a \o Part(<<"#">>, c, << >>)) = a /\ WithoutFragment(a) = a
<1> DEFINE f == Part(<<"#">>, c, << >>)
<1>1. /\ f \in Texts /\ (f # << >> => f[1] = "#")
  <2>1. "#" \in Token
      BY DEF Token
  <2> QED
      BY <2>1, PartBegins
<1> HIDE DEF f
<1>2. FirstOf(a, {"#"}) = 0
    BY FirstIsNone
<1>3. WithoutFragment(a) = a
    BY <1>2 DEF WithoutFragment
<1>4. CASE f = << >>
  <2>1. a \o f = a
      BY <1>4, ConcatEmptySeq DEF Texts
  <2> QED
      BY <1>3, <2>1 DEF f
<1>5. CASE f # << >>
  <2>1. FirstOf(a \o f, {"#"}) # 0 /\ Before(a \o f, FirstOf(a \o f, {"#"})) = a
      BY <1>1, <1>5, FirstCut
  <2>2. WithoutFragment(a \o f) = a
      BY <2>1 DEF WithoutFragment
  <2> QED
      BY <1>3, <2>2 DEF f
<1> QED
    BY <1>4, <1>5

(* request_uri asks for a URL's path and query. *)
LEMMA ResourceIs ==
    ASSUME NEW u, IsUrl(u)
    PROVE  /\ RequestUri(u) = Resource(u) /\ WithoutFragment(Resource(u)) = Resource(u)
           /\ u.path # None => Resource(u) = UpToQuery(u)
<1> DEFINE p == Or(u.path, <<"/">>)
           q == Part(<<"?">>, u.query, << >>)
<1>1. u.path \in Component /\ u.query \in Component
    BY DEF IsUrl
<1>2. p \in Texts /\ Free(p, {"#"})
  <2>1. <<"/">> \in Texts /\ Free(<<"/">>, {"#"})
    <3> DEFINE d == "/"
    <3>1. d \in Token /\ d \notin {"#"}
        BY DEF Token
    <3> HIDE DEF d
    <3>2. <<d>> \in Seq(Token)
        BY <3>1
    <3>3. Free(<<d>>, {"#"})
        BY <3>1, FreeMarks
    <3> QED
        BY <3>2, <3>3 DEF Texts, d
  <2>2. u.path # None => u.path \in Texts /\ Free(u.path, {"#"})
      BY <1>1 DEF IsUrl, Component, Free
  <2> QED
      BY <2>1, <2>2 DEF Or
<1>3. q \in Texts /\ Free(q, {"#"})
  <2>1. u.query # None => Free(u.query, {"#"})
      BY DEF IsUrl
  <2>2. Free(<<"?">>, {"#"}) /\ Free(<< >>, {"#"}) /\ <<"?">> \in Texts /\ << >> \in Texts
      BY FreeMarks, MarksAreTexts
  <2> QED
      BY <1>1, <2>1, <2>2, FreeParts
<1>4. q = IF u.query = None THEN << >> ELSE <<"?">> \o u.query
  <2>1. CASE u.query = None
      BY <2>1 DEF Part
  <2>2. CASE u.query # None
    <3> DEFINE mark == <<"?">>
               x == mark \o u.query
    <3>1. x \in Texts
      <4>1. mark \in Texts /\ u.query \in Texts
          BY <1>1, <2>2, MarksAreTexts DEF Component
      <4> HIDE DEF mark
      <4> QED
          BY <4>1, ComesApart
    <3>2. q = x \o << >>
        BY <2>2 DEF Part
    <3> HIDE DEF x
    <3>3. x \o << >> = x
        BY <3>1, ConcatEmptySeq DEF Texts
    <3> HIDE DEF q
    <3> QED
        BY <2>2, <3>2, <3>3 DEF x
  <2> HIDE DEF q
  <2> QED
      BY <2>1, <2>2
<1>5. Resource(u) = p \o q /\ RequestUri(u) = p \o q
  <2>1. RequestUri(u) = p \o q
      BY DEF RequestUri
  <2> HIDE DEF p, q
  <2>2. Resource(u) = p \o q
      BY <1>4 DEF Resource, p
  <2> QED
      BY <2>1, <2>2
<1>6. u.path # None => UpToQuery(u) = p \o q
  <2>1. ASSUME u.path # None PROVE Part(<< >>, u.path, << >>) = p
    <3>1. u.path # << >>
        BY <2>1 DEF IsUrl
    <3>2. p = u.path
        BY <2>1, <3>1 DEF Or
    <3> HIDE DEF p
    <3> QED
        BY <1>1, <2>1, <3>2, Bare
  <2> HIDE DEF p, q
  <2> QED
      BY <2>1 DEF UpToQuery, q
<1> HIDE DEF p, q
<1>7. p \o q \in Texts /\ Free(p \o q, {"#"})
    BY <1>2, <1>3, ComesApart, FreeTogether
<1>8. WithoutFragment(p \o q) = p \o q
  <2>1. None \in Component
      BY DEF Component
  <2> DEFINE x == p \o q
  <2> HIDE DEF x
  <2>2. WithoutFragment(x) = x
      BY <1>7, <2>1, FragmentOff DEF x
  <2> QED
      BY <2>2 DEF x
<1> QED
    BY <1>5, <1>6, <1>8

(* Connections are made to the address of the URL that a pool is for. *)
LEMMA PoolAddress ==
    ASSUME NEW u, IsUrl(u), u.host # None, u.scheme \in Schemes
    PROVE  /\ Address(ManagedPool(u)) = AddressOf(u)
           /\ u.scheme # None => Address(PoolOfUrl(Text(u))) = AddressOf(u)
           /\ ManagedPool(u).scheme = IF u.scheme = None THEN <<"http">> ELSE u.scheme
<1> DEFINE scheme == IF u.scheme = None THEN <<"http">> ELSE u.scheme
           port   == IF u.port # None THEN u.port ELSE PortByScheme(scheme)
           bare   == Bared(u.host)
<1>1. /\ Endpoint(u) = [scheme |-> scheme, host |-> bare, port |-> port]
      /\ Or(u.scheme, <<"http">>) = scheme
    BY EndpointIs, Zenon
<1>2. AddressOf(u) = [host |-> bare, port |-> port]
    BY <1>1 DEF AddressOf
<1>3. Strip(u.host) = bare
    BY HostsAreHosts
<1>4. u.port # << >>
    BY MarksAreTexts, NoneIsNoText DEF IsUrl, Texts
<1>5. port # << >> /\ port # None => Or(port, PortByScheme(scheme)) = port
    BY DEF Or
<1>6. PortByScheme(scheme) # << >>
    BY DEF PortByScheme
<1>7. Or(u.port, PortByScheme(scheme)) = port
    BY <1>4 DEF Or
<1>8. Or(port, PortByScheme(scheme)) = port
  <2>1. CASE u.port # None
      BY <1>4, <2>1 DEF Or
  <2>2. CASE u.port = None
      BY <2>2 DEF Or
  <2> QED
      BY <2>1, <2>2
<1>9. ManagedPool(u) = [scheme |-> scheme, host |-> bare, port |-> port]
  <2> HIDE DEF scheme, port, bare
  <2> QED
      BY <1>1, <1>3, <1>7 DEF ManagedPool, Pool
<1>10. Address(ManagedPool(u)) = AddressOf(u)
  <2> HIDE DEF scheme, port, bare
  <2> QED
      BY <1>2, <1>8, <1>9 DEF Address
<1>11. ASSUME u.scheme # None PROVE Address(PoolOfUrl(Text(u))) = AddressOf(u)
  <2>1. PoolOfUrl(Text(u)) = [scheme |-> scheme, host |-> bare, port |-> u.port]
      BY <1>11, PoolMade
  <2> HIDE DEF scheme, port, bare
  <2> QED
      BY <1>2, <1>7, <2>1 DEF Address
<1> QED
    BY <1>9, <1>10, <1>11

(* The proxy's pool. *)
LEMMA ProxyAddress ==
    ASSUME UrlsAreWellFormed
    PROVE  Address(ManagedPool(Proxy)) = AddressOf(ProxyUrl) /\ ManagedPool(Proxy).scheme = <<"http">>
<1> DEFINE http == <<"http">>
           default == PortByScheme(http)
           p == Or(ProxyUrl.port, default)
<1>1. /\ IsUrl(ProxyUrl) /\ ProxyUrl.scheme = http /\ ProxyUrl.scheme \in Schemes
      /\ ProxyUrl.scheme # None
    BY RequestConstants DEF UrlsAreWellFormed, WellFormed
<1>2. ProxyUrl.host # None
    BY <1>1 DEF IsUrl
<1>3. default # << >> /\ http # << >>
    BY DEF PortByScheme
<1>4. Or(p, default) = p
    BY <1>3 DEF Or
<1> HIDE DEF http, default, p
<1>5. Proxy = [ProxyUrl EXCEPT !.port = p]
    BY <1>1 DEF Proxy, default, p
<1>6. Proxy.scheme = http /\ Proxy.host = ProxyUrl.host /\ Proxy.port = p
    BY <1>1, <1>5 DEF IsUrl
<1>7. ManagedPool(Proxy) = ManagedPool(ProxyUrl)
  <2>1. Or(http, <<"http">>) = http
      BY DEF Or, http
  <2>2. ManagedPool(Proxy) = Pool(http, ProxyUrl.host, Or(p, PortByScheme(http)))
      BY <1>6, <2>1 DEF ManagedPool
  <2>3. ManagedPool(ProxyUrl) = Pool(http, ProxyUrl.host, Or(ProxyUrl.port, PortByScheme(http)))
      BY <1>1, <2>1 DEF ManagedPool
  <2> QED
      BY <1>4, <2>2, <2>3 DEF default, p
<1>8. ManagedPool(ProxyUrl).scheme = http /\ Address(ManagedPool(ProxyUrl)) = AddressOf(ProxyUrl)
    BY <1>1, <1>2, PoolAddress
<1> QED
    BY <1>7, <1>8 DEF http

(* A pool's message. *)
LEMMA PoolReaches ==
    ASSUME UrlsAreWellFormed, MeantInv, PoolLine, PoolHost, SentToPool, at = "sent", client = "pool"
    PROVE  /\ message.peer = AddressOf(Last(meant)) /\ message.tunnel = None
           /\ WithoutFragment(message.line)
                 \in {Resource(Last(meant)), WithoutFragment(Text(Last(meant)))}
<1> DEFINE u == Last(meant)
<1> HIDE DEF u
<1>1. PICK t : /\ call.pool = PoolOfUrl(Text(home)) /\ call.line = Text(t) /\ Asks(t, u)
    BY DEF PoolLine, Calling, u
<1>2. IsUrl(home) /\ home.host # None /\ home.scheme \in Schemes /\ home.scheme # None
    BY HomesAskable DEF MeantInv, Askable
<1>3. Endpoint(u) = Endpoint(home) /\ u \in Askable(client)
    BY MeantIsAskable DEF PoolHost, u
<1>4. ~Tunnelled(call.pool)
    BY DEF Tunnelled
<1>5. message.peer = AddressOf(u)
  <2>1. AddressOf(home) = AddressOf(u)
      BY <1>3 DEF AddressOf
  <2>2. Address(call.pool) = AddressOf(home)
      BY <1>1, <1>2, PoolAddress
  <2> QED
      BY <1>4, <2>1, <2>2 DEF SentToPool, Peer
<1>6. message.tunnel = None
    BY <1>4 DEF SentToPool
<1>7. WithoutFragment(Text(t)) \in {Resource(u), WithoutFragment(Text(u))}
  <2>1. CASE t.host # None
      BY <1>1, <2>1 DEF Asks
  <2>2. CASE t.host = None
    <3>1. IsUrl(t) /\ u.path = t.path /\ u.query = t.query
        BY <1>1, <2>2 DEF Asks, WellFormed
    <3>2. Text(t) = Beyond(t) /\ t.path # None
        BY <2>2, <3>1, PathOnly
    <3>3. Beyond(t) = UpToQuery(t) \o Part(<<"#">>, t.fragment, << >>)
        BY DEF Beyond
    <3>4. UpToQuery(t) \in Texts /\ Free(UpToQuery(t), {"#"}) /\ t.fragment \in Component
        BY <3>1, TextIsGrouped, PartsAreFree DEF IsUrl
    <3>5. WithoutFragment(Text(t)) = UpToQuery(t)
        BY <3>2, <3>3, <3>4, FragmentOff
    <3>6. Resource(t) = UpToQuery(t)
        BY <3>1, <3>2, ResourceIs
    <3>7. Resource(u) = Resource(t)
        BY <3>1 DEF Resource
    <3> QED
        BY <3>5, <3>6, <3>7
  <2> QED
      BY <2>1, <2>2
<1>8. message.line = Text(t)
    BY <1>1 DEF SentToPool
<1> QED
    BY <1>5, <1>6, <1>7, <1>8 DEF u

(* A manager's, straight to the URL's host or by a proxy. *)
LEMMA ManagerReaches ==
    ASSUME UrlsAreWellFormed, MeantInv, ManagerLine, SentToPool, at = "sent", client # "pool"
    PROVE  ReachesTarget
<1> DEFINE u == Last(meant)
<1> HIDE DEF u
<1>1. /\ call.pool = ManagerPool(u) /\ call.line = LineFor(u) /\ u \in Askable(client)
      /\ client \in {"manager", "proxy"}
  <2>1. client \in Clients
      BY DEF MeantInv
  <2> QED
      BY <2>1, MeantIsAskable, RequestConstants DEF ManagerLine, Calling, u
<1>2. IsUrl(u) /\ u.host # None /\ u.scheme \in Schemes /\ (client # "manager" => u.scheme # None)
    BY <1>1 DEF Askable
<1>3. /\ message.peer = Peer(call.pool) /\ message.line = call.line
      /\ message.tunnel = IF Tunnelled(call.pool) THEN Address(call.pool) ELSE None
    BY DEF SentToPool
<1>4. /\ Address(ManagedPool(u)) = AddressOf(u)
      /\ ManagedPool(u).scheme = IF u.scheme = None THEN <<"http">> ELSE u.scheme
    BY <1>2, PoolAddress
<1>5. RequestUri(u) = Resource(u) /\ WithoutFragment(Resource(u)) = Resource(u)
    BY <1>2, ResourceIs
<1>6. Endpoint(u).scheme = IF u.scheme = None THEN <<"http">> ELSE u.scheme
    BY <1>2, EndpointIs
<1>7. <<"http">> # <<"https">>
    OBVIOUS
<1>8. CASE client = "manager"
  <2>1. call.pool = ManagedPool(u) /\ call.line = RequestUri(u)
      BY <1>1, <1>8 DEF ManagerPool, LineFor, PlainProxied
  <2>2. message.peer = AddressOf(u) /\ message.tunnel = None
      BY <1>3, <1>4, <1>8, <2>1 DEF Tunnelled, Peer
  <2>3. WithoutFragment(message.line) = Resource(u)
      BY <1>3, <1>5, <2>1
  <2> QED
      BY <1>8, <2>2, <2>3 DEF ReachesTarget, u
<1>9. CASE client = "proxy" /\ u.scheme = <<"https">>
  <2>1. call.pool = ManagedPool(u) /\ call.line = RequestUri(u)
      BY <1>1, <1>7, <1>9 DEF ManagerPool, LineFor, PlainProxied
  <2>2. call.pool.scheme = <<"https">> /\ Endpoint(u).scheme = <<"https">>
      BY <1>2, <1>4, <1>6, <1>9, <2>1
  <2>3. message.peer = AddressOf(ProxyUrl) /\ message.tunnel = AddressOf(u)
      BY <1>3, <1>4, <1>9, <2>1, <2>2, ProxyAddress DEF Tunnelled, Peer
  <2>4. WithoutFragment(message.line) = Resource(u)
      BY <1>3, <1>5, <2>1
  <2> QED
      BY <1>9, <2>2, <2>3, <2>4 DEF ReachesTarget, u
<1>10. CASE client = "proxy" /\ u.scheme # <<"https">>
  <2>1. u.scheme = <<"http">>
      BY <1>2, <1>10 DEF Schemes
  <2>2. call.pool = ManagedPool(Proxy) /\ call.line = Text(u)
      BY <1>1, <1>10, <2>1 DEF ManagerPool, LineFor, PlainProxied
  <2>3. Endpoint(u).scheme # <<"https">> /\ ManagedPool(Proxy).scheme = <<"http">>
      BY <1>6, <1>7, <2>1, ProxyAddress
  <2>4. ~Tunnelled(call.pool)
      BY <1>7, <2>2, <2>3 DEF Tunnelled
  <2>5. message.peer = AddressOf(ProxyUrl) /\ message.tunnel = None
      BY <1>3, <2>2, <2>4, ProxyAddress DEF Peer
  <2>6. WithoutFragment(message.line) = WithoutFragment(Text(u))
      BY <1>3, <2>2
  <2> QED
      BY <1>10, <2>3, <2>5, <2>6 DEF ReachesTarget, u
<1> QED
    BY <1>1, <1>8, <1>9, <1>10
-----------------------------------------------------------------------------
(***************************************************************************)
(* The Host header.  A dict has the one that was chosen, or one that names *)
(* the host of a URL that was meant, now or before.                        *)
(***************************************************************************)
HostFits(d, chosen, urls) ==
    "Host" \in DOMAIN d \ DOMAIN chosen => \E i \in DOMAIN urls : d["Host"] = Netloc(urls[i])

HostInv ==
    /\ client # "pool" /\ at \in Calling \cup {"called"} =>
          HostFits(ManagerDict(call.kw), PassedHeaders, meant)
    /\ at \in Calling => HostFits(PoolDict(call.headers), PassedHeaders, meant)
    /\ at = "sent" => HostFits(message.headers, PassedHeaders, meant)

(* A Host header put underneath the ones that were chosen ... *)
LEMMA HostUnderneath ==
    ASSUME NEW d, NEW e, NEW chosen, NEW urls, HostFits(d, chosen, urls),
           "Host" \in DOMAIN e => \E i \in DOMAIN urls : e["Host"] = Netloc(urls[i])
    PROVE  HostFits(Updated(e, d), chosen, urls)
BY DEF HostFits, Updated

(* ... or headers without one on top leave the Host as it should be. *)
LEMMA NoHostOnTop ==
    ASSUME NEW d, NEW e, NEW chosen, NEW urls, HostFits(d, chosen, urls), "Host" \notin DOMAIN e
    PROVE  HostFits(Updated(d, e), chosen, urls)
BY DEF HostFits, Updated

(* Two of the ways to ask leave the dict as it is chosen. *)
LEMMA HostAsked ==
    ASSUME NEW target \in Targets, NEW given \in BOOLEAN,
           \/ AskUrlopen(target, given)
           \/ \E fields \in FieldLists : RequestEncodeUrl(target, given, fields)
    PROVE  HostInv'
<1>1. /\ asked'.given = given /\ UNCHANGED <<dicts, client>>
      /\ call'.headers = call'.kw
      /\ at' = IF client = "pool" THEN "pooled" ELSE "called"
      /\ \/ asked'.way = "urlopen" /\ call'.kw = HeadersArgument(given, Absent)
         \/ asked'.way = "encode_url" /\ call'.kw = HeadersArgument(given, Null)
  <2>1. ASSUME NEW text, NEW method, NEW body, NEW arg, Urlopen(text, method, body, arg)
        PROVE  /\ client' = client /\ call'.headers = arg /\ call'.kw = arg
               /\ at' = IF client = "pool" THEN "pooled" ELSE "called"
      BY <2>1 DEF Urlopen, NoCall
  <2>2. ASSUME AskUrlopen(target, given)
        PROVE  /\ asked'.given = given /\ asked'.way = "urlopen" /\ dicts' = dicts
               /\ \E text, method, body : Urlopen(text, method, body, HeadersArgument(given, Absent))
      BY <2>2 DEF AskUrlopen, NoAsked
  <2>3. ASSUME NEW fields \in FieldLists, RequestEncodeUrl(target, given, fields)
        PROVE  /\ asked'.given = given /\ asked'.way = "encode_url" /\ dicts' = dicts
               /\ \E text, method, body : Urlopen(text, method, body, HeadersArgument(given, Null))
      BY <2>3 DEF RequestEncodeUrl, NoAsked
  <2> QED
      BY <2>1, <2>2, <2>3
<1>2. PassedHeaders' =
         IF given THEN dicts["caller"]
         ELSE IF asked'.way = "encode_url" /\ client # "pool" THEN NoDict ELSE dicts["defaults"]
    BY <1>1 DEF PassedHeaders
<1>3. client # "pool" => ManagerDict(call.kw)' = PassedHeaders'
    BY <1>1, <1>2, NamesDiffer DEF ManagerDict, HeadersArgument
<1>4. client = "pool" => PoolDict(call.headers)' = PassedHeaders'
    BY <1>1, <1>2, NamesDiffer DEF PoolDict, PoolHeaders, HeadersArgument
<1>5. HostFits(PassedHeaders', PassedHeaders', meant')
    BY DEF HostFits
<1> QED
    BY <1>1, <1>3, <1>4, <1>5 DEF HostInv, Calling

(* The third puts the type of the body underneath. *)
LEMMA HostEncoded ==
    ASSUME NEW target \in Targets, NEW given \in BOOLEAN, NEW fields \in FieldLists,
           NEW boundary \in Boundaries \cup {None}, DictsNamed,
           RequestEncodeBody(target, given, fields, boundary)
    PROVE  HostInv'
<1> DEFINE from == HeadersArgument(given, "defaults")
           type == BodyType'
<1>1. dicts' = [dicts EXCEPT !["kw"] = Updated(Entry("Content-Type", type), dicts[from])]
    BY DEF RequestEncodeBody, EncodeBodyHeaders, BodyType
<1>2. /\ asked'.way = "encode_body" /\ asked'.given = given /\ client' = client
      /\ call'.kw = "kw" /\ call'.headers = "kw"
      /\ at' = IF client = "pool" THEN "pooled" ELSE "called"
    BY DEF RequestEncodeBody, Urlopen, NoCall
<1> HIDE DEF type
<1>3. dicts'["kw"] = Updated(Entry("Content-Type", type), dicts[from]) /\ dicts'[from] = dicts[from]
    BY <1>1 DEF DictsNamed, Shared, Own, HeadersArgument
<1>4. PassedHeaders' = dicts[from]
    BY <1>2, <1>3 DEF PassedHeaders, HeadersArgument
<1> HIDE DEF from
<1>5. HostFits(dicts[from], PassedHeaders', meant')
    BY <1>4 DEF HostFits
<1>6. "Host" \notin DOMAIN Entry("Content-Type", type)
    BY DEF Entry
<1>7. HostFits(dicts'["kw"], PassedHeaders', meant')
  <2> DEFINE e == Entry("Content-Type", type)
  <2> HIDE DEF e
  <2>1. HostFits(Updated(e, dicts[from]), PassedHeaders', meant')
      BY <1>5, <1>6, HostUnderneath DEF e
  <2> QED
      BY <1>3, <2>1 DEF e
<1>8. ManagerDict(call.kw)' = dicts'["kw"] /\ PoolDict(call.headers)' = dicts'["kw"]
    BY <1>2, NamesDiffer DEF ManagerDict, PoolDict
<1> QED
    BY <1>2, <1>7, <1>8 DEF HostInv, Calling

(* What is chosen stays so while the call is under way. *)
LEMMA PassedHeadersStay ==
    ASSUME DictsNamed, [Next]_vars, UNCHANGED <<asked, client>>
    PROVE  PassedHeaders' = PassedHeaders
<1>1. dicts'["caller"] = dicts["caller"] /\ dicts'["defaults"] = dicts["defaults"]
    BY StepsLeaveShared DEF Shared
<1> QED
    BY <1>1 DEF PassedHeaders

(* A Host that a manager sets is that of the URL it takes apart. *)
LEMMA HostManaged ==
    ASSUME ChosenInv, MeantInv, ManagerText, HostInv, Manage
    PROVE  HostInv'
<1> DEFINE u     == Parse(call.text)
           given == IF call.kw = Absent THEN "defaults" ELSE call.kw
           kw    == IF PlainProxied(u) THEN "kw" ELSE given
           line  == IF PlainProxied(u) THEN call.text ELSE RequestUri(u)
           pool  == ManagerPool(u)
           plain == PlainProxied(u)
<1>1. CASE at' = "raised"
    BY <1>1 DEF HostInv, Calling
<1>2. CASE at' # "raised"
  <2>1. /\ at = "called" /\ at' = "pooled" /\ UNCHANGED <<asked, client, meant>>
        /\ call' = [call EXCEPT !.pool = pool, !.kw = kw, !.headers = kw, !.line = line]
        /\ dicts' = IF ~plain THEN dicts
                    ELSE [dicts EXCEPT !["kw"] =
                             SetProxyHeaders(call.text, IF given = Null THEN NoDict ELSE dicts[given])]
      BY <1>2 DEF Manage
  <2>2. ManagerDict(call.kw) = IF given = Null THEN NoDict ELSE dicts[given]
      BY NamesDiffer DEF ManagerDict
  <2>3. plain => client = "proxy"
      BY DEF PlainProxied
  <2>4. given \in Arguments /\ given # Absent
      BY NamesDiffer DEF ChosenInv, CallNamed, Arguments
  <2>5. kw = IF plain THEN "kw" ELSE given
      OBVIOUS
  <2> HIDE DEF kw, line, pool, given, plain
  <2>6. call'.kw = kw /\ call'.headers = kw
      BY <2>1 DEF ChosenInv, CallNamed, NoCall
  <2>7. PassedHeaders' = PassedHeaders
      BY <2>1, PassedHeadersStay DEF ChosenInv, Next
  <2>8. HostFits(ManagerDict(call.kw), PassedHeaders, meant)
      BY <2>1 DEF ChosenInv, PoolsUnmanaged, HostInv
  <2>9. CASE plain
    <3> DEFINE m      == Last(meant)
               netloc == Netloc(Parse(call.text))
               host   == IF Or(netloc, None) = None THEN NoDict ELSE Entry("Host", netloc)
               accept == Entry("Accept", <<"*/*">>)
               d      == ManagerDict(call.kw)
    <3>1. netloc = Netloc(m) /\ Len(meant) \in DOMAIN meant /\ m = meant[Len(meant)]
      <4>1. m \in Askable(client) /\ meant \in Seq(Askable(client)) /\ meant # << >>
          BY <2>1, MeantIsAskable DEF MeantInv
      <4>2. call.text = Text(m) /\ SchemeShows(m)
          BY <2>1, <2>3, <2>9 DEF ManagerText
      <4>3. IsUrl(m)
          BY <4>1 DEF Askable
      <4>4. Parse(call.text) = Plain(m)
        <5> HIDE DEF m
        <5> QED
            BY <4>2, <4>3, TextIsParsed
      <4>5. netloc = Netloc(m)
        <5> HIDE DEF m
        <5> QED
            BY <4>3, <4>4, PlainAlike
      <4>6. Len(meant) \in Nat /\ Len(meant) # 0 /\ DOMAIN meant = 1..Len(meant)
          BY <4>1, EmptySeq, LenProperties
      <4> QED
          BY <4>5, <4>6 DEF Last
    <3>2. "Host" \notin DOMAIN accept
        BY DEF Entry
    <3>3. "Host" \in DOMAIN host => \E i \in DOMAIN meant : host["Host"] = Netloc(meant[i])
      <4> HIDE DEF netloc, m
      <4>1. DOMAIN Entry("Host", netloc) = {"Host"} /\ Entry("Host", netloc)["Host"] = netloc
          BY DEF Entry
      <4>2. "Host" \notin DOMAIN NoDict
          BY DEF NoDict
      <4> QED
          BY <3>1, <4>1, <4>2
    <3> HIDE DEF host, accept, d
    <3>4. HostFits(Updated(Updated(accept, host), d), PassedHeaders, meant)
      <4>1. /\ DOMAIN Updated(accept, host) = DOMAIN accept \cup DOMAIN host
            /\ \A name \in DOMAIN host : Updated(accept, host)[name] = host[name]
          BY UpdatedDict
      <4> DEFINE e == Updated(accept, host)
      <4> HIDE DEF e
      <4>2. "Host" \in DOMAIN e => \E i \in DOMAIN meant : e["Host"] = Netloc(meant[i])
          BY <3>2, <3>3, <4>1 DEF e
      <4>3. HostFits(Updated(e, d), PassedHeaders, meant)
          BY <2>8, <4>2, HostUnderneath DEF d
      <4> QED
          BY <4>3 DEF e
    <3>5. dicts'["kw"] = SetProxyHeaders(call.text, ManagerDict(call.kw))
        BY <2>1, <2>2, <2>9 DEF ChosenInv, DictsNamed, Shared, Own
    <3>6. dicts'["kw"] = Updated(Updated(accept, host), d)
        BY <3>5 DEF SetProxyHeaders, accept, host, d
    <3>7. ManagerDict(call.kw)' = dicts'["kw"] /\ PoolDict(call.headers)' = dicts'["kw"]
        BY <2>5, <2>6, <2>9, NamesDiffer DEF ManagerDict, PoolDict
    <3> QED
        BY <2>1, <2>7, <3>4, <3>6, <3>7 DEF HostInv
  <2>10. CASE ~plain
    <3>1. UNCHANGED dicts /\ kw = given
        BY <2>1, <2>5, <2>10
    <3>2. ManagerDict(call.kw)' = ManagerDict(call.kw)
        BY <2>2, <2>4, <2>6, <3>1, NamesDiffer DEF ManagerDict
    <3>3. PoolDict(call.headers)' = ManagerDict(call.kw)
      <4>1. CASE given = Null
        <5>1. PoolDict(call.headers)' = dicts["managed"]
            BY <2>1, <2>6, <3>1, <4>1 DEF PoolDict, PoolHeaders, ChosenInv, PoolsUnmanaged
        <5> QED
            BY <2>2, <4>1, <5>1 DEF ChosenInv, ManagedEmpty
      <4>2. CASE given # Null
          BY <2>2, <2>4, <2>6, <3>1, <4>2 DEF PoolDict
      <4> QED
          BY <4>1, <4>2
    <3> QED
        BY <2>1, <2>7, <2>8, <3>2, <3>3 DEF HostInv
  <2> QED
      BY <2>9, <2>10
<1> QED
    BY <1>1, <1>2

(* proxy_headers that name no Host leave the one there is. *)
LEMMA HostOpened ==
    ASSUME "Host" \notin DOMAIN ProxyDict, ChosenInv, HostInv, Open
    PROVE  HostInv'
<1> DEFINE headers == IF call.headers \in {Absent, Null} THEN PoolHeaders ELSE call.headers
<1>1. CASE at' \in {"raised", "refused"}
    BY <1>1 DEF HostInv, Calling
<1>2. CASE at' = "open"
  <2>1. MergeProxyHeaders(headers) /\ at = "pooled" /\ UNCHANGED <<asked, client, meant>>
      BY <1>2 DEF Open
  <2>2. PoolDict(call.headers) = dicts[headers]
      BY DEF PoolDict
  <2>3. headers \notin {Absent, Null}
      BY NamesDiffer DEF PoolHeaders
  <2> HIDE DEF headers
  <2>4. PassedHeaders' = PassedHeaders
      BY <2>1, PassedHeadersStay DEF ChosenInv, Next
  <2>5. /\ HostFits(dicts[headers], PassedHeaders, meant)
        /\ client # "pool" => HostFits(ManagerDict(call.kw), PassedHeaders, meant)
      BY <2>1, <2>2 DEF HostInv, Calling
  <2>6. call.kw \in Arguments /\ DOMAIN call = DOMAIN NoCall
      BY DEF ChosenInv, CallNamed
  <2>7. CASE call.pool.scheme = <<"http">>
    <3>1. /\ dicts' = [dicts EXCEPT !["copy"] = Updated(dicts[headers], PoolProxyHeaders)]
          /\ call' = [call EXCEPT !.headers = "copy"]
        BY <2>1, <2>7 DEF MergeProxyHeaders
    <3>2. call'.kw = call.kw /\ call'.headers = "copy"
        BY <2>6, <3>1 DEF NoCall
    <3>3. dicts'["copy"] = Updated(dicts[headers], PoolProxyHeaders)
        BY <3>1 DEF ChosenInv, DictsNamed, Shared, Own
    <3>4. "Host" \notin DOMAIN PoolProxyHeaders
        BY DEF PoolProxyHeaders, ChosenInv, ManagedEmpty, NoDict
    <3>5. HostFits(dicts'["copy"], PassedHeaders, meant)
        BY <2>5, <3>3, <3>4, NoHostOnTop
    <3>6. PoolDict(call.headers)' = dicts'["copy"]
        BY <3>2, NamesDiffer DEF PoolDict
    <3>7. ManagerDict(call.kw)' = ManagerDict(call.kw)
        BY <2>6, <3>1, <3>2, NamesDiffer DEF ManagerDict, Arguments, ChosenInv, DictsNamed, Shared, Own
    <3> QED
        BY <1>2, <2>1, <2>4, <2>5, <3>5, <3>6, <3>7 DEF HostInv
  <2>8. CASE call.pool.scheme # <<"http">>
    <3>1. UNCHANGED dicts /\ call' = [call EXCEPT !.headers = headers]
        BY <2>1, <2>8 DEF MergeProxyHeaders
    <3>2. call'.kw = call.kw /\ call'.headers = headers
        BY <2>6, <3>1 DEF NoCall
    <3>3. PoolDict(call.headers)' = dicts[headers] /\ ManagerDict(call.kw)' = ManagerDict(call.kw)
        BY <2>3, <3>1, <3>2 DEF PoolDict, ManagerDict
    <3> QED
        BY <1>2, <2>1, <2>4, <2>5, <3>3 DEF HostInv
  <2> QED
      BY <2>7, <2>8
<1> QED
    BY <1>1, <1>2 DEF Open

(* URLs that were meant stay there: redirects go behind them. *)
LEMMA HostGoesOn ==
    ASSUME ChosenInv, HostInv, [Next]_vars, at # "called",
           UNCHANGED <<dicts, asked, client>>,
           call'.kw = call.kw, call'.headers = call.headers,
           \A i \in DOMAIN meant : i \in DOMAIN meant' /\ meant'[i] = meant[i],
           at' \in Calling => at \in Calling,
           at' = "called" => at \in Calling,
           at' = "sent" => at = "sent" /\ message' = message
    PROVE  HostInv'
<1>1. PassedHeaders' = PassedHeaders
    BY PassedHeadersStay DEF ChosenInv
<1>2. /\ ManagerDict(call.kw)' = ManagerDict(call.kw)
      /\ PoolDict(call.headers)' = PoolDict(call.headers)
    BY DEF ManagerDict, PoolDict, PoolHeaders
<1>3. ASSUME NEW d, HostFits(d, PassedHeaders, meant) PROVE HostFits(d, PassedHeaders, meant')
    BY <1>3 DEF HostFits
<1>4. /\ client # "pool" /\ at' \in Calling \cup {"called"} =>
            HostFits(ManagerDict(call.kw), PassedHeaders, meant')
      /\ at' \in Calling => HostFits(PoolDict(call.headers), PassedHeaders, meant')
      /\ at' = "sent" => HostFits(message.headers, PassedHeaders, meant')
    BY <1>3 DEF HostInv
<1> QED
    BY <1>1, <1>2, <1>4 DEF HostInv

(* Each action keeps the Host header of the call the one of its URL. *)
LEMMA HostStays ==
    ASSUME "Host" \notin DOMAIN ProxyDict, ChosenInv, MeantInv, ManagerText, HostInv, [Next]_vars
    PROVE  HostInv'
<1>1. ASSUME NEW target \in Targets, NEW given \in BOOLEAN,
             \/ AskUrlopen(target, given)
             \/ \E fields \in FieldLists :
                   \/ RequestEncodeUrl(target, given, fields)
                   \/ \E boundary \in Boundaries \cup {None} :
                         RequestEncodeBody(target, given, fields, boundary)
      PROVE  HostInv'
    BY <1>1, HostAsked, HostEncoded DEF ChosenInv
<1>2. CASE Manage \/ Open
    BY <1>2, HostManaged, HostOpened
<1>3. CASE Send
  <2>1. /\ at = "open" /\ at' = "sent" /\ UNCHANGED <<dicts, asked, client, call, meant>>
        /\ message'.headers = dicts[call.headers]
      BY <1>3 DEF Send
  <2>2. PassedHeaders' = PassedHeaders
      BY <1>3, <2>1, PassedHeadersStay DEF ChosenInv, Next
  <2>3. PoolDict(call.headers) = dicts[call.headers]
      BY <2>1 DEF ChosenInv, CallNamed, PoolDict
  <2>4. /\ ManagerDict(call.kw)' = ManagerDict(call.kw)
        /\ PoolDict(call.headers)' = PoolDict(call.headers)
      BY <2>1 DEF ManagerDict, PoolDict, PoolHeaders
  <2> QED
      BY <2>1, <2>2, <2>3, <2>4 DEF HostInv, Calling
<1>4. CASE TryAgain
  <2>1. /\ at = "sent" /\ UNCHANGED <<dicts, asked, client, call, meant>> /\ at' = "pooled"
      BY <1>4 DEF TryAgain
  <2> QED
      BY <2>1, HostGoesOn DEF Calling
<1>5. CASE Answers \/ \E location \in Locations : Redirects(location)
  <2>1. /\ at = "sent" /\ UNCHANGED <<dicts, asked, client, call, meant>> /\ at' = "answered"
      BY <1>5 DEF Answers, Redirects, Respond
  <2> QED
      BY <2>1, HostGoesOn DEF Calling
<1>6. CASE Follow
  <2>1. /\ at = "answered" /\ UNCHANGED <<dicts, asked, client>> /\ at' \in {"called", "pooled"}
        /\ call'.kw = call.kw /\ call'.headers = call.headers
      BY <1>6 DEF Follow, ChosenInv, CallNamed, NoCall
  <2>2. \A i \in DOMAIN meant : i \in DOMAIN meant' /\ meant'[i] = meant[i]
    <3> DEFINE v == Resolved(Last(meant), answer.location)
    <3>1. meant' = Append(meant, v)
        BY <1>6 DEF Follow
    <3> HIDE DEF v
    <3>2. PICK S : meant \in Seq(S) /\ v \in S
      <4>1. meant \in Seq(Askable(client))
          BY DEF MeantInv
      <4>2. meant \in Seq(Askable(client) \cup {v})
          BY <4>1, SeqMonotonic
      <4> QED
          BY <4>2
    <3>3. /\ Append(meant, v) \in Seq(S) /\ Len(Append(meant, v)) = Len(meant) + 1
          /\ \A i \in 1..Len(meant) : Append(meant, v)[i] = meant[i]
          /\ Len(meant) \in Nat /\ DOMAIN meant = 1..Len(meant)
        BY <3>2, AppendProperties, LenProperties
    <3>4. DOMAIN Append(meant, v) = 1..Len(meant) + 1
        BY <3>3, LenProperties
    <3> QED
        BY <3>1, <3>3, <3>4
  <2> QED
      BY <2>1, <2>2, HostGoesOn DEF Calling
<1>7. CASE Return
    BY <1>7 DEF Return, HostInv, Calling
<1>8. CASE UNCHANGED vars
  <2>1. UNCHANGED <<at, dicts, asked, client, call, meant, message>>
      BY <1>8 DEF vars
  <2>2. PassedHeaders' = PassedHeaders
      BY <2>1, PassedHeadersStay DEF ChosenInv
  <2>3. /\ ManagerDict(call.kw)' = ManagerDict(call.kw)
        /\ PoolDict(call.headers)' = PoolDict(call.headers)
      BY <2>1 DEF ManagerDict, PoolDict, PoolHeaders
  <2> QED
      BY <2>1, <2>2, <2>3 DEF HostInv
<1> QED
    BY <1>1, <1>2, <1>3, <1>4, <1>5, <1>6, <1>7, <1>8 DEF Next

(* URLs of one endpoint whose ports are written alike have one netloc. *)
LEMMA NetlocTells ==
    ASSUME NEW c, NEW u \in Askable(c), NEW v \in Askable(c),
           Endpoint(u) = Endpoint(v), u.port = v.port
    PROVE  Netloc(u) = Netloc(v)
<1>1. /\ IsUrl(u) /\ u.host # None /\ u.scheme \in Schemes
      /\ IsUrl(v) /\ v.host # None /\ v.scheme \in Schemes
    BY DEF Askable
<1>2. Endpoint(u).host = Bared(u.host) /\ Endpoint(v).host = Bared(v.host)
    BY DEF Endpoint, Bared
<1>3. IsHost(u.host) /\ IsHost(v.host)
    BY <1>1, HostsAreHosts
<1>4. u.host = v.host
    BY <1>2, <1>3, BaredTellApart
<1> QED
    BY <1>4 DEF Netloc

(* So the request that is sent names its target. *)
LEMMA HostNamed ==
    ASSUME MeantInv, HostInv
    PROVE  HostNamesTarget
<1> SUFFICES ASSUME at = "sent", "Host" \in DOMAIN message.headers \ DOMAIN ChosenHeaders,
                    \A i \in DOMAIN meant : Endpoint(meant[i]) = Endpoint(Last(meant))
                                           /\ meant[i].port = Last(meant).port
             PROVE  message.headers["Host"] = Netloc(Last(meant))
  <2>1. /\ Last(meant) \in Askable(client) \/ at # "sent"
      BY MeantIsAskable
  <2> DEFINE u == Last(meant)
  <2>2. ASSUME u \in Askable(client)
        PROVE  Netloc(u) = u.host \o IF u.port = None THEN << >> ELSE <<":">> \o u.port
    <3>1. IsUrl(u) /\ u.host # None
        BY <2>2 DEF Askable
    <3> HIDE DEF u
    <3>2. u.host \in Texts /\ (u.port # None => u.port \in Texts)
        BY <3>1 DEF IsUrl, Component
    <3>3. u.host \o << >> = u.host
        BY <3>2, ConcatEmptySeq DEF Texts
    <3>4. u.port # None => Cat(Cat(u.host, <<":">>), u.port) = Cat(u.host, Cat(<<":">>, u.port))
        BY <3>2, MarksAreTexts, Joined
    <3>5. u.port # None => (u.host \o <<":">>) \o u.port = u.host \o (<<":">> \o u.port)
        BY <3>4 DEF Cat
    <3> QED
        BY <3>3, <3>5 DEF Netloc
  <2> QED
      BY <2>1, <2>2 DEF HostNamesTarget
<1> DEFINE u == Last(meant)
<1>0. "Host" \notin DOMAIN PassedHeaders
    BY DEF PassedHeaders, ChosenHeaders, NoDict
<1>1. PICK i \in DOMAIN meant : message.headers["Host"] = Netloc(meant[i])
    BY <1>0 DEF HostInv, HostFits
<1>2. u \in Askable(client) /\ meant[i] \in Askable(client)
  <2>1. meant \in Seq(Askable(client))
      BY DEF MeantInv
  <2>2. i \in 1..Len(meant)
      BY <1>1, <2>1, LenProperties
  <2> QED
      BY <2>1, <2>2, MeantIsAskable, ElementOfSeq
<1>3. Endpoint(meant[i]) = Endpoint(u) /\ meant[i].port = u.port
    BY <1>1
<1> HIDE DEF u
<1>4. Netloc(meant[i]) = Netloc(u)
    BY <1>2, <1>3, NetlocTells
<1> QED
    BY <1>1, <1>4 DEF u

(***************************************************************************)
(* What holds of a call, from the URL it is asked for to what it sends.    *)
(***************************************************************************)
UrlInv ==
    /\ ChosenInv /\ MeantInv /\ ManagerText /\ ManagerLine
    /\ PoolLine /\ PoolHost /\ SentToPool

(* The invariant of the URLs holds in every state. *)
LEMMA UrlInvHolds ==
    ASSUME UrlsAreWellFormed, LinesAreHeaders
    PROVE  Spec => []UrlInv
<1>1. Init => UrlInv
  <2> SUFFICES ASSUME Init PROVE UrlInv
      OBVIOUS
  <2>1. at = "idle"
      BY DEF Init
  <2> QED
      BY <2>1, ChosenInit, MeantInit
      DEF UrlInv, ManagerText, ManagerLine, PoolLine, PoolHost, SentToPool, Calling
<1>2. UrlInv /\ [Next]_vars => UrlInv'
  <2> SUFFICES ASSUME UrlInv, [Next]_vars PROVE UrlInv'
      OBVIOUS
  <2>1. ChosenInv'
      BY StepsLeaveShared, CallStaysNamed, ClientsKeepTo, CallStaysAsChosen DEF UrlInv, ChosenInv
  <2>2. MeantInv'
      BY MeantStays DEF UrlInv
  <2>3. ManagerText' /\ ManagerLine'
      BY ManagerStays DEF UrlInv, ChosenInv
  <2>4. PoolLine' /\ PoolHost'
      BY PoolStays DEF UrlInv, ChosenInv
  <2>5. SentToPool'
      BY SentIsToPool DEF UrlInv
  <2> QED
      BY <2>1, <2>2, <2>3, <2>4, <2>5 DEF UrlInv
<1> QED
    BY <1>1, <1>2, PTL DEF Spec

(***************************************************************************)
(* Of any URLs that are asked for and redirected to, a manager takes apart *)
(* the one that is meant, and put together again it is the same text       *)
(* (url.py:47-50 and 112-208, poolmanager.py:170-172).                     *)
(***************************************************************************)
THEOREM ManagersParseAsMeant ==
    ASSUME UrlsAreWellFormed, LinesAreHeaders
    PROVE  Spec => []ParsesAsMeant
<1>1. UrlInv => ParsesAsMeant
    BY ManagerParses DEF UrlInv, ChosenInv
<1> QED
    BY <1>1, UrlInvHolds, PTL

(***************************************************************************)
(* A pool that is called directly sends nothing that is meant for another  *)
(* scheme, host or port, over any redirects, and what it refuses is meant  *)
(* for another, unless its host is an IPv6 address                         *)
(* (connectionpool.py:380-397).                                            *)
(***************************************************************************)
THEOREM PoolsStayOnHost ==
    ASSUME UrlsAreWellFormed, LinesAreHeaders
    PROVE  Spec => []StaysOnHost
<1>1. UrlInv => StaysOnHost
    BY PoolStaysOnHost DEF UrlInv
<1> QED
    BY <1>1, UrlInvHolds, PTL

(***************************************************************************)
(* Whoever is asked, however often it is redirected, each message goes to  *)
(* the host and port of the URL meant, or by the proxy to them, and asks   *)
(* for its path and query there (poolmanager.py:137-207 and 254-264).      *)
(***************************************************************************)
THEOREM MessagesReachTarget ==
    ASSUME UrlsAreWellFormed, LinesAreHeaders
    PROVE  Spec => []ReachesTarget
<1>1. UrlInv => ReachesTarget
  <2> SUFFICES ASSUME UrlInv, at = "sent" PROVE ReachesTarget
      BY DEF ReachesTarget
  <2>1. CASE client = "pool"
    <3>1. /\ message.peer = AddressOf(Last(meant)) /\ message.tunnel = None
          /\ WithoutFragment(message.line)
                \in {Resource(Last(meant)), WithoutFragment(Text(Last(meant)))}
        BY <2>1, PoolReaches DEF UrlInv
    <3> QED
        BY <2>1, <3>1 DEF ReachesTarget
  <2>2. CASE client # "pool"
      BY <2>2, ManagerReaches DEF UrlInv
  <2> QED
      BY <2>1, <2>2
<1> QED
    BY <1>1, UrlInvHolds, PTL

(***************************************************************************)
(* A Host that was not chosen is that of a URL that was meant, and so the  *)
(* right one while all of them are on one host (poolmanager.py:238-252).   *)
(* proxy_headers that name a Host of their own would replace it.           *)
(***************************************************************************)
THEOREM HostIsNamed ==
    ASSUME UrlsAreWellFormed, LinesAreHeaders, "Host" \notin DOMAIN ProxyDict
    PROVE  Spec => []HostNamesTarget
<1>1. Init => HostInv
    BY DEF Init, HostInv, Calling
<1>2. UrlInv /\ HostInv /\ [Next]_vars => HostInv'
    BY HostStays DEF UrlInv
<1>3. UrlInv /\ HostInv => HostNamesTarget
    BY HostNamed DEF UrlInv
<1> QED
    BY <1>1, <1>2, <1>3, UrlInvHolds, PTL DEF Spec
=============================================================================
