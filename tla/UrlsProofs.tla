----------------------------- MODULE UrlsProofs -----------------------------
(***************************************************************************)
(* Proofs that parse_url takes a text apart into the Url that it is the    *)
(* text of.                                                                *)
(***************************************************************************)
EXTENDS Urls, SequenceLemmas

Texts == Seq(Token)

Free(text, delims) == \A i \in 1..Len(text) : text[i] \notin delims

(* The first delimiter is found where it is, and none where there is none. *)
LEMMA FirstIs ==
    ASSUME NEW text \in Texts, NEW D, NEW k \in 1..Len(text), text[k] \in D,
           \A i \in 1..k-1 : text[i] \notin D
    PROVE  FirstOf(text, D) = k
<1> DEFINE I == {i \in 1..Len(text) : text[i] \in D}
<1>1. k \in I /\ \A i \in I : k <= i
  <2>1. Len(text) \in Nat
      BY LenProperties DEF Texts
  <2> QED
      BY <2>1
<1>2. FirstOf(text, D) = IF I # {} THEN Min(I) ELSE 0
    BY DEF FirstOf, SelectInSeq
<1>3. \A i \in I : i \in Nat
    BY LenProperties DEF Texts
<1> HIDE DEF I
<1>4. Min(I) = k
  <2>1. Min(I) \in I /\ \A i \in I : Min(I) <= i
      BY <1>1 DEF Min
  <2> DEFINE m == Min(I)
  <2>2. m \in I /\ \A i \in I : m <= i
      BY <2>1
  <2> HIDE DEF m
  <2>3. m \in Nat /\ k \in Nat /\ m <= k /\ k <= m
      BY <1>1, <1>3, <2>2
  <2>4. m = k
      BY <2>3
  <2> QED
      BY <2>4 DEF m
<1> QED
    BY <1>1, <1>2, <1>4

(* No delimiter is found in a text that is free of them. *)
LEMMA FirstIsNone ==
    ASSUME NEW text \in Texts, NEW D, Free(text, D)
    PROVE  FirstOf(text, D) = 0
<1> DEFINE I == {i \in 1..Len(text) : text[i] \in D}
<1>1. I = {}
    BY DEF Free
<1>2. FirstOf(text, D) = IF I # {} THEN Min(I) ELSE 0
    BY DEF FirstOf, SelectInSeq
<1> QED
    BY <1>1, <1>2

(* So is the last one. *)
LastOf(text, d) == SelectLastInSeq(text, LAMBDA c : c = d)

(* The last delimiter is found where it is, and none where there is none. *)
LEMMA LastIs ==
    ASSUME NEW text \in Texts, NEW d, NEW k \in 1..Len(text), text[k] = d,
           \A i \in k+1..Len(text) : text[i] # d
    PROVE  LastOf(text, d) = k
<1> DEFINE I == {i \in 1..Len(text) : text[i] = d}
<1>1. k \in I /\ \A i \in I : k >= i
  <2>1. Len(text) \in Nat
      BY LenProperties DEF Texts
  <2> QED
      BY <2>1
<1>2. LastOf(text, d) = IF I # {} THEN Max(I) ELSE 0
    BY DEF LastOf, SelectLastInSeq
<1>3. \A i \in I : i \in Nat
    BY LenProperties DEF Texts
<1> HIDE DEF I
<1>4. Max(I) = k
  <2>1. Max(I) \in I /\ \A i \in I : Max(I) >= i
      BY <1>1 DEF Max
  <2> DEFINE m == Max(I)
  <2>2. m \in I /\ \A i \in I : m >= i
      BY <2>1
  <2> HIDE DEF m
  <2>3. m \in Nat /\ k \in Nat /\ m <= k /\ k <= m
      BY <1>1, <1>3, <2>2
  <2>4. m = k
      BY <2>3
  <2> QED
      BY <2>4 DEF m
<1> QED
    BY <1>1, <1>2, <1>4

(* No last delimiter is found in a text that is free of it. *)
LEMMA LastIsNone ==
    ASSUME NEW text \in Texts, NEW d, Free(text, {d})
    PROVE  LastOf(text, d) = 0
<1> DEFINE I == {i \in 1..Len(text) : text[i] = d}
<1>1. I = {}
    BY DEF Free
<1>2. LastOf(text, d) = IF I # {} THEN Max(I) ELSE 0
    BY DEF LastOf, SelectLastInSeq
<1> QED
    BY <1>1, <1>2

(* Two texts that are put together come apart again between them. *)
LEMMA ComesApart ==
    ASSUME NEW a \in Texts, NEW b \in Texts
    PROVE  /\ a \o b \in Texts /\ Len(a \o b) = Len(a) + Len(b)
           /\ Len(a) \in Nat /\ Len(b) \in Nat
           /\ SubSeq(a \o b, 1, Len(a)) = a
           /\ SubSeq(a \o b, Len(a) + 1, Len(a \o b)) = b
           /\ \A i \in 1..Len(a) : (a \o b)[i] = a[i]
           /\ \A i \in 1..Len(b) : (a \o b)[Len(a) + i] = b[i]
<1> DEFINE t == a \o b
           m == Len(a)
           n == Len(b)
<1>1. m \in Nat /\ n \in Nat
    BY LenProperties DEF Texts
<1>2. /\ t \in Seq(Token) /\ Len(t) = m + n
      /\ \A i \in 1..m + n : t[i] = IF i <= m THEN a[i] ELSE b[i - m]
    BY ConcatProperties DEF Texts
<1> HIDE DEF t, m, n
<1>3. \A i \in 1..m : t[i] = a[i]
    BY <1>1, <1>2
<1>4. ASSUME NEW i \in 1..n PROVE t[m + i] = b[i]
  <2>1. m + i \in 1..m + n /\ ~ (m + i <= m) /\ (m + i) - m = i
      BY <1>1
  <2> QED
      BY <1>2, <2>1
<1>5. SubSeq(t, 1, m) = a
  <2>1. m \in 0..Len(t)
      BY <1>1, <1>2
  <2>2. /\ SubSeq(t, 1, m) \in Seq(Token) /\ Len(SubSeq(t, 1, m)) = m
        /\ \A i \in 1..m : SubSeq(t, 1, m)[i] = t[i]
      BY <1>2, <2>1, FirstPart
  <2>3. \A i \in 1..Len(a) : SubSeq(t, 1, m)[i] = a[i]
      BY <1>3, <2>2 DEF m
  <2> QED
      BY <2>2, <2>3, SeqEqual DEF Texts, m
<1>6. SubSeq(t, m + 1, Len(t)) = b
  <2> DEFINE part == SubSeq(t, m + 1, Len(t))
  <2>1. /\ part \in Seq(Token)
        /\ Len(part) = IF m <= Len(t) THEN Len(t) - m ELSE 0
        /\ \A i \in 1..Len(t) - m : part[i] = t[m + i]
      BY <1>1, <1>2, LastPart
  <2>2. Len(t) - m = n /\ m <= Len(t)
      BY <1>1, <1>2
  <2> HIDE DEF part
  <2>3. Len(part) = n /\ \A i \in 1..n : part[i] = b[i]
      BY <1>4, <2>1, <2>2
  <2> QED
      BY <2>1, <2>3, SeqEqual DEF Texts, n, part
<1> QED
    BY <1>1, <1>2, <1>3, <1>4, <1>5, <1>6 DEF Texts, t, m, n

(* What precedes a delimiter, and what follows it. *)
LEMMA Delimited ==
    ASSUME NEW d \in Token, NEW c \in Texts
    PROVE  /\ <<d>> \o c \in Texts /\ <<d>> \o c # << >> /\ (<<d>> \o c)[1] = d
           /\ Len(<<d>> \o c) = Len(c) + 1
           /\ SubSeq(<<d>> \o c, 2, Len(<<d>> \o c)) = c
           /\ \A i \in 1..Len(c) : (<<d>> \o c)[i + 1] = c[i]
<1> DEFINE a == <<d>>
<1>1. a \in Texts /\ Len(a) = 1 /\ a[1] = d
    BY DEF Texts
<1> HIDE DEF a
<1>0. /\ a \o c \in Texts /\ Len(a \o c) = Len(a) + Len(c) /\ Len(c) \in Nat
      /\ SubSeq(a \o c, Len(a) + 1, Len(a \o c)) = c
      /\ \A i \in 1..Len(a) : (a \o c)[i] = a[i]
      /\ \A i \in 1..Len(c) : (a \o c)[Len(a) + i] = c[i]
    BY <1>1, ComesApart
<1>2. /\ a \o c \in Texts /\ Len(a \o c) = 1 + Len(c) /\ Len(c) \in Nat
      /\ SubSeq(a \o c, 1 + 1, Len(a \o c)) = c
      /\ \A i \in 1..1 : (a \o c)[i] = a[i]
      /\ \A i \in 1..Len(c) : (a \o c)[1 + i] = c[i]
    BY <1>0, <1>1
<1>3. a \o c # << >> /\ \A i \in 1..Len(c) : 1 + i = i + 1
  <2>1. Len(a \o c) # 0
      BY <1>2
  <2> QED
      BY <2>1
<1> QED
    BY <1>1, <1>2, <1>3 DEF a

(* A text is cut where its first delimiter begins the rest. *)
LEMMA FirstCut ==
    ASSUME NEW a \in Texts, NEW b \in Texts, NEW D, b # << >>, b[1] \in D, Free(a, D)
    PROVE  LET i == FirstOf(a \o b, D) IN
           /\ i # 0 /\ i = Len(a) + 1
           /\ Before(a \o b, i) = a
           /\ SubSeq(a \o b, i, Len(a \o b)) = b
<1>1. /\ a \o b \in Texts /\ Len(a \o b) = Len(a) + Len(b)
      /\ Len(a) \in Nat /\ Len(b) \in Nat
      /\ SubSeq(a \o b, 1, Len(a)) = a
      /\ SubSeq(a \o b, Len(a) + 1, Len(a \o b)) = b
      /\ \A i \in 1..Len(a) : (a \o b)[i] = a[i]
      /\ \A i \in 1..Len(b) : (a \o b)[Len(a) + i] = b[i]
    BY ComesApart
<1>2. Len(b) # 0
    BY EmptySeq DEF Texts
<1> DEFINE t == a \o b
           k == Len(a) + 1
<1> HIDE DEF t
<1>3. k \in 1..Len(t) /\ t[k] \in D /\ k - 1 = Len(a) /\ k # 0
    BY <1>1, <1>2 DEF t
<1>4. \A i \in 1..k-1 : t[i] \notin D
    BY <1>1, <1>3 DEF Free, t
<1> HIDE DEF k
<1>5. FirstOf(t, D) = k
    BY <1>1, <1>3, <1>4, FirstIs DEF t
<1>6. Before(t, k) = a
    BY <1>1, <1>3 DEF Before, t
<1> QED
    BY <1>1, <1>3, <1>5, <1>6 DEF t, k
(* What follows the delimiter. *)
LEMMA AfterCut ==
    ASSUME NEW a \in Texts, NEW b \in Texts, b # << >>
    PROVE  After(a \o b, Len(a) + 1) = SubSeq(b, 2, Len(b))
<1> DEFINE t == a \o b
           n == Len(a)
           k == Len(b)
           x == SubSeq(t, (n + 1) + 1, Len(t))
           y == SubSeq(b, 1 + 1, Len(b))
<1>1. /\ t \in Seq(Token) /\ Len(t) = n + k /\ n \in Nat /\ k \in Nat
      /\ \A i \in 1..k : t[n + i] = b[i]
    BY ComesApart DEF Texts
<1>2. k >= 1
    BY EmptySeq DEF Texts
<1>3. /\ x \in Seq(Token)
      /\ Len(x) = IF n + 1 <= Len(t) THEN Len(t) - (n + 1) ELSE 0
      /\ \A i \in 1..Len(t) - (n + 1) : x[i] = t[(n + 1) + i]
  <2>1. n + 1 \in Nat
      BY <1>1
  <2> HIDE DEF n, t
  <2> QED
      BY <1>1, <2>1, LastPart
<1>4. /\ y \in Seq(Token)
      /\ Len(y) = IF 1 <= Len(b) THEN Len(b) - 1 ELSE 0
      /\ \A i \in 1..Len(b) - 1 : y[i] = b[1 + i]
    BY LastPart DEF Texts
<1> HIDE DEF x, y, t, n
<1>5. Len(x) = k - 1 /\ Len(y) = k - 1
    BY <1>1, <1>2, <1>3, <1>4
<1>6. ASSUME NEW i \in 1..k-1 PROVE x[i] = y[i]
  <2> HIDE DEF k
  <2>1. i \in 1..Len(t) - (n + 1) /\ (n + 1) + i = n + (1 + i) /\ 1 + i \in 1..k
      BY <1>1, <1>2
  <2>2. x[i] = t[n + (1 + i)]
      BY <1>3, <2>1
  <2>3. y[i] = b[1 + i]
      BY <1>4 DEF k
  <2> QED
      BY <1>1, <2>1, <2>2, <2>3
<1> HIDE DEF k
<1>7. x = y
    BY <1>3, <1>4, <1>5, <1>6, SeqEqual
<1> QED
    BY <1>7 DEF x, y, t, n, After
-----------------------------------------------------------------------------
(***************************************************************************)
(* The Urls that their text can be parsed into again.  No component has a  *)
(* delimiter that ends it or one before it; a host is a name, or an IPv6   *)
(* address in brackets, and without any host there is only a path.         *)
(***************************************************************************)
Component == {None} \cup Texts

IsName(host) == host # << >> /\ Free(host, {":", "[", "]"})

IsAddress(host) ==
    /\ Len(host) > 2 /\ Head(host) = "[" /\ host[Len(host)] = "]"
    /\ \A i \in 2..Len(host) - 1 : host[i] \notin {"[", "]"}
    /\ \E i \in 2..Len(host) - 1 : host[i] = ":"

IsUrl(u) ==
    /\ u \in [scheme : Component, auth : Component, host : Component, port : Component,
              path : Component, query : Component, fragment : Component]
    /\ u.scheme # None => Free(u.scheme, {":"})
    /\ u.host = None => u.scheme = None /\ u.auth = None /\ u.port = None /\ u.path # None
    /\ u.host # None => /\ Free(u.host, {"/", "?", "#", "@"})
                        /\ IsName(u.host) \/ IsAddress(u.host)
    /\ u.auth # None => Free(u.auth, {"/", "?", "#"})
    /\ u.port # None => u.port # << >> /\ Free(u.port, {"/", "?", "#", "@"})
    /\ u.path # None => u.path # << >> /\ Head(u.path) = "/" /\ Free(u.path, {"?", "#"})
    /\ u.query # None => Free(u.query, {"#"})

(* Without a scheme, a text that has a `://' further on would be cut there. *)
SchemeShows(u) == u.scheme = None => SchemeEnd(Text(u)) = 0

(* A Url and the state of the parser, by their components. *)
Known(scheme, auth, host, port, path, query, fragment) ==
    [scheme |-> scheme, auth |-> auth, host |-> host, port |-> port,
     path |-> path, query |-> query, fragment |-> fragment]

State(url, rest, malformed) == [url |-> url, rest |-> rest, malformed |-> malformed]

(* What the steps of the parser write. *)
SchemePut(s, x, rest) == [s EXCEPT !.url.scheme = x, !.rest = rest]
PathPut(s, x, rest) == [s EXCEPT !.url.path = x, !.rest = rest]
AuthPut(s, x, rest) == [s EXCEPT !.url.auth = x, !.rest = rest]
HostPut(s, x, rest) == [s EXCEPT !.url.host = x, !.rest = rest]
HostOnlyPut(s, x) == [s EXCEPT !.url.host = x]
HostPortPut(s, x, y, malformed) ==
    [s EXCEPT !.url.host = x, !.url.port = y, !.malformed = malformed]
FragmentPut(s, x, y) == [s EXCEPT !.url.fragment = x, !.url.path = y]
QueryPut(s, x, y) == [s EXCEPT !.url.query = x, !.url.path = y]

(* What taking each component off writes: the component, and the rest. *)
LEMMA SchemeWritten ==
    ASSUME NEW sc, NEW au, NEW ho, NEW po, NEW pa, NEW qu, NEW fr, NEW r, NEW m, NEW x, NEW y
    PROVE  SchemePut(State(Known(sc, au, ho, po, pa, qu, fr), r, m), x, y)
              = State(Known(x, au, ho, po, pa, qu, fr), y, m)
<1> DEFINE u == Known(sc, au, ho, po, pa, qu, fr)
           s == State(u, r, m)
<1>0. s.url = u
    BY DEF State
<1> HIDE DEF u
<1> DEFINE v == [u EXCEPT !.scheme = x]
<1>1. SchemePut(s, x, y) = [[s EXCEPT !.url = v] EXCEPT !.rest = y]
    BY <1>0 DEF SchemePut
<1> HIDE DEF v
<1>2. [s EXCEPT !.url = v] = State(v, r, m)
    BY DEF State
<1>3. [State(v, r, m) EXCEPT !.rest = y] = State(v, y, m)
    BY DEF State
<1>4. v = Known(x, au, ho, po, pa, qu, fr)
    BY DEF v, u, Known
<1> QED
    BY <1>1, <1>2, <1>3, <1>4 DEF u

(* The same of the path ... *)
LEMMA PathWritten ==
    ASSUME NEW sc, NEW au, NEW ho, NEW po, NEW pa, NEW qu, NEW fr, NEW r, NEW m, NEW x, NEW y
    PROVE  PathPut(State(Known(sc, au, ho, po, pa, qu, fr), r, m), x, y)
              = State(Known(sc, au, ho, po, x, qu, fr), y, m)
<1> DEFINE u == Known(sc, au, ho, po, pa, qu, fr)
           s == State(u, r, m)
<1>0. s.url = u
    BY DEF State
<1> HIDE DEF u
<1> DEFINE v == [u EXCEPT !.path = x]
<1>1. PathPut(s, x, y) = [[s EXCEPT !.url = v] EXCEPT !.rest = y]
    BY <1>0 DEF PathPut
<1> HIDE DEF v
<1>2. [s EXCEPT !.url = v] = State(v, r, m)
    BY DEF State
<1>3. [State(v, r, m) EXCEPT !.rest = y] = State(v, y, m)
    BY DEF State
<1>4. v = Known(sc, au, ho, po, x, qu, fr)
    BY DEF v, u, Known
<1> QED
    BY <1>1, <1>2, <1>3, <1>4 DEF u

(* ... of the auth ... *)
LEMMA AuthWritten ==
    ASSUME NEW sc, NEW au, NEW ho, NEW po, NEW pa, NEW qu, NEW fr, NEW r, NEW m, NEW x, NEW y
    PROVE  AuthPut(State(Known(sc, au, ho, po, pa, qu, fr), r, m), x, y)
              = State(Known(sc, x, ho, po, pa, qu, fr), y, m)
<1> DEFINE u == Known(sc, au, ho, po, pa, qu, fr)
           s == State(u, r, m)
<1>0. s.url = u
    BY DEF State
<1> HIDE DEF u
<1> DEFINE v == [u EXCEPT !.auth = x]
<1>1. AuthPut(s, x, y) = [[s EXCEPT !.url = v] EXCEPT !.rest = y]
    BY <1>0 DEF AuthPut
<1> HIDE DEF v
<1>2. [s EXCEPT !.url = v] = State(v, r, m)
    BY DEF State
<1>3. [State(v, r, m) EXCEPT !.rest = y] = State(v, y, m)
    BY DEF State
<1>4. v = Known(sc, x, ho, po, pa, qu, fr)
    BY DEF v, u, Known
<1> QED
    BY <1>1, <1>2, <1>3, <1>4 DEF u

(* ... of the host ... *)
LEMMA HostWritten ==
    ASSUME NEW sc, NEW au, NEW ho, NEW po, NEW pa, NEW qu, NEW fr, NEW r, NEW m, NEW x, NEW y
    PROVE  HostPut(State(Known(sc, au, ho, po, pa, qu, fr), r, m), x, y)
              = State(Known(sc, au, x, po, pa, qu, fr), y, m)
<1> DEFINE u == Known(sc, au, ho, po, pa, qu, fr)
           s == State(u, r, m)
<1>0. s.url = u
    BY DEF State
<1> HIDE DEF u
<1> DEFINE v == [u EXCEPT !.host = x]
<1>1. HostPut(s, x, y) = [[s EXCEPT !.url = v] EXCEPT !.rest = y]
    BY <1>0 DEF HostPut
<1> HIDE DEF v
<1>2. [s EXCEPT !.url = v] = State(v, r, m)
    BY DEF State
<1>3. [State(v, r, m) EXCEPT !.rest = y] = State(v, y, m)
    BY DEF State
<1>4. v = Known(sc, au, x, po, pa, qu, fr)
    BY DEF v, u, Known
<1> QED
    BY <1>1, <1>2, <1>3, <1>4 DEF u

(* ... of a host with nothing behind it ... *)
LEMMA HostOnlyWritten ==
    ASSUME NEW sc, NEW au, NEW ho, NEW po, NEW pa, NEW qu, NEW fr, NEW r, NEW m, NEW x
    PROVE  HostOnlyPut(State(Known(sc, au, ho, po, pa, qu, fr), r, m), x)
              = State(Known(sc, au, x, po, pa, qu, fr), r, m)
<1> DEFINE u == Known(sc, au, ho, po, pa, qu, fr)
           s == State(u, r, m)
<1>0. s.url = u
    BY DEF State
<1> HIDE DEF u
<1> DEFINE v == [u EXCEPT !.host = x]
<1>1. HostOnlyPut(s, x) = [s EXCEPT !.url = v]
    BY <1>0 DEF HostOnlyPut
<1> HIDE DEF v
<1>2. [s EXCEPT !.url = v] = State(v, r, m)
    BY DEF State
<1>3. v = Known(sc, au, x, po, pa, qu, fr)
    BY DEF v, u, Known
<1> QED
    BY <1>1, <1>2, <1>3 DEF u

(* ... of a host and its port ... *)
LEMMA HostPortWritten ==
    ASSUME NEW sc, NEW au, NEW ho, NEW po, NEW pa, NEW qu, NEW fr, NEW r, NEW m, NEW x, NEW y, NEW z
    PROVE  HostPortPut(State(Known(sc, au, ho, po, pa, qu, fr), r, m), x, y, z)
              = State(Known(sc, au, x, y, pa, qu, fr), r, z)
<1> DEFINE u == Known(sc, au, ho, po, pa, qu, fr)
           s == State(u, r, m)
<1>0. s.url = u
    BY DEF State
<1> HIDE DEF u
<1> DEFINE v == [u EXCEPT !.host = x]
           w == [v EXCEPT !.port = y]
           t == State(v, r, m)
<1>1. HostPortPut(s, x, y, z) = [[[s EXCEPT !.url = v] EXCEPT !.url.port = y] EXCEPT !.malformed = z]
    BY <1>0 DEF HostPortPut
<1> HIDE DEF v
<1>2. [s EXCEPT !.url = v] = t
    BY DEF State
<1>3. t.url = v
    BY DEF State
<1>4. [t EXCEPT !.url.port = y] = [t EXCEPT !.url = w]
    BY <1>3
<1> HIDE DEF w
<1>5. [t EXCEPT !.url = w] = State(w, r, m)
    BY DEF State
<1>6. [State(w, r, m) EXCEPT !.malformed = z] = State(w, r, z)
    BY DEF State
<1>7. v = Known(sc, au, x, po, pa, qu, fr)
    BY DEF v, u, Known
<1>8. w = Known(sc, au, x, y, pa, qu, fr)
    BY <1>7 DEF w, Known
<1> QED
    BY <1>1, <1>2, <1>4, <1>5, <1>6, <1>8 DEF u

(* ... of the fragment, which the path loses ... *)
LEMMA FragmentWritten ==
    ASSUME NEW sc, NEW au, NEW ho, NEW po, NEW pa, NEW qu, NEW fr, NEW r, NEW m, NEW x, NEW y
    PROVE  FragmentPut(State(Known(sc, au, ho, po, pa, qu, fr), r, m), x, y)
              = State(Known(sc, au, ho, po, y, qu, x), r, m)
<1> DEFINE u == Known(sc, au, ho, po, pa, qu, fr)
           s == State(u, r, m)
<1>0. s.url = u
    BY DEF State
<1> HIDE DEF u
<1> DEFINE v == [u EXCEPT !.fragment = x]
           w == [v EXCEPT !.path = y]
           t == State(v, r, m)
<1>1. FragmentPut(s, x, y) = [[s EXCEPT !.url = v] EXCEPT !.url.path = y]
    BY <1>0 DEF FragmentPut
<1> HIDE DEF v
<1>2. [s EXCEPT !.url = v] = t
    BY DEF State
<1>3. t.url = v
    BY DEF State
<1>4. [t EXCEPT !.url.path = y] = [t EXCEPT !.url = w]
    BY <1>3
<1> HIDE DEF w
<1>5. [t EXCEPT !.url = w] = State(w, r, m)
    BY DEF State
<1>6. v = Known(sc, au, ho, po, pa, qu, x)
    BY DEF v, u, Known
<1>7. w = Known(sc, au, ho, po, y, qu, x)
    BY <1>6 DEF w, Known
<1> QED
    BY <1>1, <1>2, <1>4, <1>5, <1>7 DEF u

(* ... and of the query, which the path loses. *)
LEMMA QueryWritten ==
    ASSUME NEW sc, NEW au, NEW ho, NEW po, NEW pa, NEW qu, NEW fr, NEW r, NEW m, NEW x, NEW y
    PROVE  QueryPut(State(Known(sc, au, ho, po, pa, qu, fr), r, m), x, y)
              = State(Known(sc, au, ho, po, y, x, fr), r, m)
<1> DEFINE u == Known(sc, au, ho, po, pa, qu, fr)
           s == State(u, r, m)
<1>0. s.url = u
    BY DEF State
<1> HIDE DEF u
<1> DEFINE v == [u EXCEPT !.query = x]
           w == [v EXCEPT !.path = y]
           t == State(v, r, m)
<1>1. QueryPut(s, x, y) = [[s EXCEPT !.url = v] EXCEPT !.url.path = y]
    BY <1>0 DEF QueryPut
<1> HIDE DEF v
<1>2. [s EXCEPT !.url = v] = t
    BY DEF State
<1>3. t.url = v
    BY DEF State
<1>4. [t EXCEPT !.url.path = y] = [t EXCEPT !.url = w]
    BY <1>3
<1> HIDE DEF w
<1>5. [t EXCEPT !.url = w] = State(w, r, m)
    BY DEF State
<1>6. v = Known(sc, au, ho, po, pa, x, fr)
    BY DEF v, u, Known
<1>7. w = Known(sc, au, ho, po, y, x, fr)
    BY <1>6 DEF w, Known
<1> QED
    BY <1>1, <1>2, <1>4, <1>5, <1>7 DEF u

(* The path, query and fragment are what TakePath takes. *)
LEMMA PathTaken ==
    ASSUME NEW scheme, NEW m, NEW a \in Texts, NEW b \in Texts, Free(a, {"/", "?", "#"}),
           b = << >> \/ b[1] \in {"/", "?", "#"}
    PROVE  TakePath(State(Known(scheme, None, None, None, None, None, None), a \o b, m))
              = State(Known(scheme, None, None, None, IF b = << >> THEN None ELSE b, None, None),
                      a, m)
<1> DEFINE D == {"/", "?", "#"}
           t == a \o b
           i == FirstOf(t, D)
           u == Known(scheme, None, None, None, None, None, None)
           s == State(u, t, m)
<1>1. s.rest = t
    BY DEF State
<1>2. CASE b = << >>
  <2>1. t = a
      BY <1>2, ConcatEmptySeq DEF Texts
  <2>2. i = 0
      BY <2>1, FirstIsNone
  <2>3. TakePath(s) = s
      BY <1>1, <2>2 DEF TakePath
  <2> QED
      BY <1>2, <2>1, <2>3
<1>3. CASE b # << >>
  <2>1. i # 0 /\ Before(t, i) = a /\ SubSeq(t, i, Len(t)) = b
      BY <1>3, FirstCut
  <2>2. TakePath(s) = PathPut(s, SubSeq(t, i, Len(t)), Before(t, i))
      BY <1>1, <2>1 DEF TakePath, PathPut
  <2>3. TakePath(s) = PathPut(s, b, a)
      BY <2>1, <2>2
  <2>4. PathPut(s, b, a) = State(Known(scheme, None, None, None, b, None, None), a, m)
      BY PathWritten
  <2> QED
      BY <1>3, <2>3, <2>4
<1> QED
    BY <1>2, <1>3

(* Up to the last @ is the authentication. *)
LEMMA AuthTaken ==
    ASSUME NEW scheme, NEW m, NEW path, NEW auth \in Component, NEW c \in Texts, Free(c, {"@"})
    PROVE  TakeAuth(State(Known(scheme, None, None, None, path, None, None),
                          Part(<< >>, auth, <<"@">>) \o c, m))
              = State(Known(scheme, auth, None, None, path, None, None), c, m)
<1> DEFINE t == Part(<< >>, auth, <<"@">>) \o c
           i == LastOf(t, "@")
           u == Known(scheme, None, None, None, path, None, None)
           s == State(u, t, m)
<1>0. TakeAuth(s) = IF i = 0 THEN s
                    ELSE [s EXCEPT !.url.auth = Before(t, i), !.rest = After(@, i)]
    BY DEF TakeAuth, LastOf, State
<1>1. CASE auth = None
  <2>1. t = c
      BY <1>1, ConcatEmptySeq DEF Part, Texts
  <2>2. i = 0
      BY <2>1, LastIsNone
  <2> QED
      BY <1>0, <1>1, <2>1, <2>2
<1>2. CASE auth # None
  <2>1. auth \in Texts /\ "@" \in Token
    <3>1. auth \in Texts
        BY <1>2 DEF Component
    <3>2. "@" \in Token
        BY DEF Token
    <3> QED
        BY <3>1, <3>2
  <2>2. Part(<< >>, auth, <<"@">>) = auth \o <<"@">>
      BY <1>2, <2>1, ConcatEmptySeq DEF Part, Texts
  <2> DEFINE b == <<"@">> \o c
             at == <<"@">>
  <2>3. at \in Texts
      BY <2>1 DEF Texts
  <2>4. t = auth \o b
    <3> HIDE DEF at
    <3>1. (auth \o at) \o c = auth \o (at \o c)
        BY <2>1, <2>3, ConcatAssociative DEF Texts
    <3> QED
        BY <2>2, <3>1 DEF at
  <2>5. /\ b \in Texts /\ b # << >> /\ b[1] = "@" /\ Len(b) = Len(c) + 1
        /\ SubSeq(b, 2, Len(b)) = c /\ \A j \in 1..Len(c) : b[j + 1] = c[j]
      BY <2>1, Delimited
  <2> HIDE DEF b, t
  <2>6. /\ t \in Texts /\ Len(t) = Len(auth) + Len(b)
        /\ Len(auth) \in Nat /\ Len(b) \in Nat
        /\ SubSeq(t, 1, Len(auth)) = auth
        /\ SubSeq(t, Len(auth) + 1, Len(t)) = b
        /\ \A j \in 1..Len(auth) : t[j] = auth[j]
        /\ \A j \in 1..Len(b) : t[Len(auth) + j] = b[j]
      BY <2>1, <2>4, <2>5, ComesApart
  <2> DEFINE k == Len(auth) + 1
             n == Len(c)
  <2>7. n \in Nat /\ k \in Nat /\ Len(t) = k + n /\ Len(b) = n + 1
      BY <2>5, <2>6, LenProperties DEF Texts
  <2>8. \A j \in 1..n+1 : t[Len(auth) + j] = b[j]
      BY <2>6, <2>7
  <2>9. t[k] = "@"
    <3>1. 1 \in 1..n+1
        BY <2>7
    <3> QED
        BY <2>5, <2>8, <3>1
  <2>10. ASSUME NEW j \in k+1..Len(t) PROVE t[j] # "@" /\ t[j] = c[j - k] /\ j - k \in 1..n
    <3> HIDE DEF n
    <3>1. j - k \in 1..n /\ (j - k) + 1 \in 1..n+1 /\ Len(auth) + ((j - k) + 1) = j
        BY <2>6, <2>7
    <3>2. t[j] = b[(j - k) + 1] /\ b[(j - k) + 1] = c[j - k]
        BY <2>5, <2>8, <3>1 DEF n
    <3> QED
        BY <3>1, <3>2 DEF Free, n
  <2> HIDE DEF k
  <2>11. k \in 1..Len(t) /\ k # 0 /\ k - 1 = Len(auth)
      BY <2>6, <2>7 DEF k
  <2>12. i = k
      BY <2>6, <2>9, <2>10, <2>11, LastIs
  <2>13. Before(t, k) = auth
      BY <2>6, <2>11 DEF Before
  <2>14. After(t, k) = c
    <3>1. \A j \in k+1..Len(t) : t[j] = c[j - k] /\ j - k \in 1..n
        BY <2>10
    <3> HIDE DEF n
    <3> DEFINE part == SubSeq(t, k + 1, Len(t))
    <3>2. /\ part \in Seq(Token)
          /\ Len(part) = IF k <= Len(t) THEN Len(t) - k ELSE 0
          /\ \A j \in 1..Len(t) - k : part[j] = t[k + j]
      <4>1. t \in Seq(Token) /\ k \in Nat
          BY <2>6, <2>7, <2>11 DEF Texts
      <4> QED
          BY <4>1, LastPart
    <3> HIDE DEF part
    <3>3. Len(part) = n /\ \A j \in 1..n : part[j] = t[k + j]
        BY <2>7, <3>2
    <3>4. ASSUME NEW j \in 1..n PROVE part[j] = c[j]
      <4>1. k + j \in k+1..Len(t) /\ (k + j) - k = j
          BY <2>7
      <4> QED
          BY <3>1, <3>3, <4>1
    <3>5. part = c
        BY <3>2, <3>3, <3>4, SeqEqual DEF Texts, n
    <3> QED
        BY <3>5 DEF After, part
  <2> HIDE DEF i
  <2>15. TakeAuth(s) = AuthPut(s, Before(t, i), After(t, i))
    <3>1. s.rest = t
        BY DEF State
    <3> QED
        BY <1>0, <2>11, <2>12, <3>1 DEF AuthPut
  <2>16. TakeAuth(s) = AuthPut(s, auth, c)
      BY <2>12, <2>13, <2>14, <2>15
  <2>17. AuthPut(s, auth, c) = State(Known(scheme, auth, None, None, path, None, None), c, m)
      BY AuthWritten
  <2> QED
      BY <2>16, <2>17 DEF t
<1> QED
    BY <1>1, <1>2

(* An IPv6 address is taken as a whole, with its brackets. *)
LEMMA AddressTaken ==
    ASSUME NEW sc, NEW au, NEW pa, NEW m, NEW host \in Texts, IsAddress(host), NEW c \in Texts
    PROVE  TakeBracketed(State(Known(sc, au, None, None, pa, None, None), host \o c, m))
              = State(Known(sc, au, host, None, pa, None, None), c, m)
<1> DEFINE t == host \o c
           n == Len(host)
           s == State(Known(sc, au, None, None, pa, None, None), t, m)
<1>1. /\ t \in Texts /\ Len(t) = Len(host) + Len(c) /\ Len(host) \in Nat /\ Len(c) \in Nat
      /\ SubSeq(t, 1, Len(host)) = host
      /\ SubSeq(t, Len(host) + 1, Len(t)) = c
      /\ \A i \in 1..Len(host) : t[i] = host[i]
    BY ComesApart
<1>2. /\ Len(host) > 2 /\ Head(host) = "[" /\ host[Len(host)] = "]"
      /\ \A i \in 2..Len(host) - 1 : host[i] \notin {"[", "]"}
    BY DEF IsAddress
<1>3. Head(host) = host[1]
    BY <1>1, <1>2, HeadTailProperties, EmptySeq DEF Texts
<1> HIDE DEF t, n
<1>4. n \in 1..Len(t) /\ n # 0 /\ t[n] = "]"
    BY <1>1, <1>2 DEF n
<1>5. \A i \in 1..n-1 : t[i] # "]"
  <2> SUFFICES ASSUME NEW i \in 1..n-1 PROVE t[i] # "]"
      OBVIOUS
  <2>1. i \in 1..Len(host) /\ (i = 1 \/ i \in 2..Len(host) - 1)
      BY <1>1 DEF n
  <2>2. t[i] = host[i]
      BY <1>1, <2>1
  <2> QED
      BY <1>2, <1>3, <2>1, <2>2
<1>6. FirstOf(t, {"]"}) = n
  <2>1. t[n] \in {"]"} /\ \A i \in 1..n-1 : t[i] \notin {"]"}
      BY <1>4, <1>5
  <2> QED
      BY <1>1, <1>4, <2>1, FirstIs
<1>7. t # << >> /\ Head(t) = "["
  <2>1. t # << >>
      BY <1>1, <1>2, EmptySeq
  <2>2. Head(t) = t[1] /\ 1 \in 1..Len(host)
      BY <1>1, <1>2, <2>1, HeadTailProperties DEF Texts
  <2> QED
      BY <1>1, <1>2, <1>3, <2>1, <2>2
<1>8. TakeBracketed(s) = HostPut(s, SubSeq(t, 1, n), After(t, n))
  <2>1. s.rest = t
      BY DEF State
  <2> QED
      BY <1>4, <1>6, <1>7, <2>1 DEF TakeBracketed, HostPut
<1>9. SubSeq(t, 1, n) = host /\ After(t, n) = c
    BY <1>1 DEF After, n
<1>10. HostPut(s, host, c) = State(Known(sc, au, host, None, pa, None, None), c, m)
    BY HostWritten
<1> QED
    BY <1>8, <1>9, <1>10 DEF t

(* The port, and the host unless it is there. *)
LEMMA PortTaken ==
    ASSUME NEW sc, NEW au, NEW pa, NEW m, NEW ho, NEW name \in Texts, Free(name, {":"}),
           NEW port \in Component, port # << >>,
           port # None => ho \notin {None, << >>} \/ name # << >>
    PROVE  LET s == State(Known(sc, au, ho, None, pa, None, None),
                          name \o Part(<<":">>, port, << >>), m)
           IN  TakePort(s) = State(Known(sc, au, Or(ho, Or(name, None)), port, pa, None, None),
                                   s.rest, TakePort(s).malformed)
<1> DEFINE t == name \o Part(<<":">>, port, << >>)
           u == Known(sc, au, ho, None, pa, None, None)
           s == State(u, t, m)
           i == FirstOf(t, {":"})
<1>0. s.rest = t /\ s.url.host = ho
    BY DEF State, Known
<1>1. CASE port = None
  <2>1. t = name
      BY <1>1, ConcatEmptySeq DEF Part, Texts
  <2>2. i = 0
      BY <2>1, FirstIsNone
  <2> HIDE DEF t, i
  <2>3. TakePort(s) = HostOnlyPut(s, Or(ho, Or(name, None)))
      BY <1>0, <2>1, <2>2 DEF TakePort, HostOnlyPut, i
  <2>4. HostOnlyPut(s, Or(ho, Or(name, None)))
           = State(Known(sc, au, Or(ho, Or(name, None)), None, pa, None, None), t, m)
      BY HostOnlyWritten
  <2>5. TakePort(s).malformed = m
      BY <2>3, <2>4 DEF State
  <2> QED
      BY <1>0, <1>1, <2>3, <2>4, <2>5 DEF t
<1>2. CASE port # None
  <2>1. port \in Texts /\ ":" \in Token
    <3>1. port \in Texts
        BY <1>2 DEF Component
    <3> QED
        BY <3>1 DEF Token
  <2> DEFINE b == <<":">> \o port
  <2>2. Part(<<":">>, port, << >>) = b
    <3>1. b \in Texts
        BY <2>1, Delimited
    <3> HIDE DEF b
    <3>2. b \o << >> = b
        BY <3>1, ConcatEmptySeq DEF Texts
    <3> QED
        BY <1>2, <3>2 DEF Part, b
  <2>3. b \in Texts /\ b # << >> /\ b[1] = ":" /\ SubSeq(b, 2, Len(b)) = port
      BY <2>1, Delimited
  <2> HIDE DEF b
  <2>4. i # 0 /\ i = Len(name) + 1 /\ Before(t, i) = name /\ SubSeq(t, i, Len(t)) = b
      BY <2>2, <2>3, FirstCut
  <2>5. After(t, i) = port
      BY <2>2, <2>3, <2>4, AfterCut
  <2> HIDE DEF t, i
  <2>6. Or(ho, name) = Or(ho, Or(name, None)) /\ Or(port, None) = port
      BY <1>2 DEF Or
  <2> DEFINE w == s.malformed \/ \E j \in DOMAIN port : port[j] \notin Digits
  <2>7. TakePort(s) = HostPortPut(s, Or(ho, name), port, w)
      BY <1>0, <2>4, <2>5, <2>6 DEF TakePort, HostPortPut, i
  <2> HIDE DEF w
  <2>8. HostPortPut(s, Or(ho, name), port, w)
           = State(Known(sc, au, Or(ho, name), port, pa, None, None), t, w)
      BY HostPortWritten
  <2>9. TakePort(s).malformed = w
      BY <2>7, <2>8 DEF State
  <2> QED
      BY <1>0, <2>6, <2>7, <2>8, <2>9 DEF t
<1> QED
    BY <1>1, <1>2

(* The fragment is what follows the first #. *)
LEMMA FragmentTaken ==
    ASSUME NEW s, NEW f \in Texts, Free(f, {"#"}), NEW fragment \in Component, NEW b,
           b = f \o Part(<<"#">>, fragment, << >>), Or(s.url.path, << >>) = b
    PROVE  TakeFragment(s) = IF fragment = None THEN s ELSE FragmentPut(s, fragment, f)
<1> DEFINE i == FirstOf(b, {"#"})
<1>1. TakeFragment(s) = IF i = 0 THEN s ELSE FragmentPut(s, After(b, i), Before(b, i))
  <2> HIDE DEF i
  <2> QED
      BY DEF TakeFragment, FragmentPut, i
<1>2. CASE fragment = None
  <2>1. b = f
      BY <1>2, ConcatEmptySeq DEF Part, Texts
  <2>2. i = 0
      BY <2>1, FirstIsNone
  <2> QED
      BY <1>1, <1>2, <2>1, <2>2
<1>3. CASE fragment # None
  <2>1. fragment \in Texts /\ "#" \in Token
    <3>1. fragment \in Texts
        BY <1>3 DEF Component
    <3> QED
        BY <3>1 DEF Token
  <2> DEFINE c == <<"#">> \o fragment
  <2>2. c \in Texts /\ c # << >> /\ c[1] = "#" /\ SubSeq(c, 2, Len(c)) = fragment
      BY <2>1, Delimited
  <2>3. b = f \o c
    <3> HIDE DEF c
    <3>1. c \o << >> = c
        BY <2>2, ConcatEmptySeq DEF Texts
    <3> QED
        BY <1>3, <3>1 DEF Part, c
  <2> HIDE DEF c
  <2>4. i # 0 /\ i = Len(f) + 1 /\ Before(b, i) = f
    <3> DEFINE j == FirstOf(f \o c, {"#"})
    <3>1. c[1] \in {"#"}
        BY <2>2
    <3>2. j # 0 /\ j = Len(f) + 1 /\ Before(f \o c, j) = f
        BY <2>2, <3>1, FirstCut
    <3> QED
        BY <2>3, <3>2
  <2>5. After(b, i) = fragment
      BY <2>2, <2>3, <2>4, AfterCut
  <2>6. b \in Texts /\ b # << >>
    <3>1. f \o c \in Texts /\ (f \o c = << >> => c = << >>)
        BY <2>2, ConcatProperties, ConcatEqualIffEmpty DEF Texts
    <3> QED
        BY <2>2, <2>3, <3>1
  <2>7. TakeFragment(s) = FragmentPut(s, fragment, f)
      BY <1>1, <2>4, <2>5, <2>6
  <2> QED
      BY <1>3, <2>7
<1> QED
    BY <1>2, <1>3

(* The query is what follows the first ?, of what is left. *)
LEMMA QueryTaken ==
    ASSUME NEW s, NEW path \in Texts, Free(path, {"?"}), NEW query \in Component, NEW b,
           b = path \o Part(<<"?">>, query, << >>), Or(s.url.path, << >>) = b
    PROVE  TakeQuery(s) = IF query = None THEN s ELSE QueryPut(s, query, path)
<1> DEFINE i == FirstOf(b, {"?"})
<1>1. TakeQuery(s) = IF i = 0 THEN s ELSE QueryPut(s, After(b, i), Before(b, i))
  <2> HIDE DEF i
  <2> QED
      BY DEF TakeQuery, QueryPut, i
<1>2. CASE query = None
  <2>1. b = path
      BY <1>2, ConcatEmptySeq DEF Part, Texts
  <2>2. i = 0
      BY <2>1, FirstIsNone
  <2> QED
      BY <1>1, <1>2, <2>1, <2>2
<1>3. CASE query # None
  <2>1. query \in Texts /\ "?" \in Token
    <3>1. query \in Texts
        BY <1>3 DEF Component
    <3> QED
        BY <3>1 DEF Token
  <2> DEFINE c == <<"?">> \o query
  <2>2. c \in Texts /\ c # << >> /\ c[1] = "?" /\ SubSeq(c, 2, Len(c)) = query
      BY <2>1, Delimited
  <2>3. b = path \o c
    <3> HIDE DEF c
    <3>1. c \o << >> = c
        BY <2>2, ConcatEmptySeq DEF Texts
    <3> QED
        BY <1>3, <3>1 DEF Part, c
  <2> HIDE DEF c
  <2>4. i # 0 /\ i = Len(path) + 1 /\ Before(b, i) = path
    <3> DEFINE j == FirstOf(path \o c, {"?"})
    <3>1. c[1] \in {"?"}
        BY <2>2
    <3>2. j # 0 /\ j = Len(path) + 1 /\ Before(path \o c, j) = path
        BY <2>2, <3>1, FirstCut
    <3> QED
        BY <2>3, <3>2
  <2>5. After(b, i) = query
      BY <2>2, <2>3, <2>4, AfterCut
  <2>6. b \in Texts /\ b # << >>
    <3>1. path \o c \in Texts /\ (path \o c = << >> => c = << >>)
        BY <2>2, ConcatProperties, ConcatEqualIffEmpty DEF Texts
    <3> QED
        BY <2>2, <2>3, <3>1
  <2>7. TakeQuery(s) = QueryPut(s, query, path)
      BY <1>1, <2>4, <2>5, <2>6
  <2> QED
      BY <1>3, <2>7
<1> QED
    BY <1>2, <1>3

(* Where `://' is first. *)
Separators(text) ==
    {i \in 1..Len(text) - 2 : text[i] = ":" /\ text[i + 1] = "/" /\ text[i + 2] = "/"}

(* url.find('://'): the first of the places where it is. *)
LEMMA SchemeEndSearch ==
    ASSUME NEW text \in Texts
    PROVE  SchemeEnd(text) = IF Separators(text) # {} THEN Min(Separators(text)) ELSE 0
<1> DEFINE n == Len(text) - 2
           parts == [i \in 1..n |-> SubSeq(text, i, i + 2)]
           mark == <<":", "/", "/">>
           I == {i \in 1..Len(parts) : parts[i] = mark}
<1>1. Len(text) \in Nat /\ n \in Int /\ \A i \in 1..Len(text) : text[i] \in Token
    BY LenProperties, ElementOfSeq DEF Texts
<1>2. 1..Len(parts) = 1..n
  <2> HIDE DEF n
  <2>1. CASE n >= 0
    <3>1. n \in Nat
        BY <1>1, <2>1
    <3>2. Len(parts) = n
        BY <3>1
    <3> QED
        BY <3>2
  <2>2. CASE n < 0
    <3>1. 1..n = 1..0
        BY <1>1, <2>2
    <3> DEFINE none == [i \in 1..0 |-> SubSeq(text, i, i + 2)]
    <3>2. Len(none) = 0
        OBVIOUS
    <3>3. parts = none
        BY <3>1
    <3> QED
        BY <3>1, <3>2, <3>3
  <2> HIDE DEF parts
  <2>3. n >= 0 \/ n < 0
      BY <1>1
  <2> QED
      BY <2>1, <2>2, <2>3
<1>3. mark \in Seq(Token) /\ Len(mark) = 3 /\ mark[1] = ":" /\ mark[2] = "/" /\ mark[3] = "/"
  <2>1. ":" \in Token /\ "/" \in Token
      BY DEF Token
  <2> QED
      BY <2>1
<1>4. ASSUME NEW i \in 1..n
      PROVE  parts[i] = mark <=> text[i] = ":" /\ text[i + 1] = "/" /\ text[i + 2] = "/"
  <2> DEFINE part == SubSeq(text, i, i + 2)
  <2>1. i \in Int /\ i + 2 \in Int /\ \A j \in i..i+2 : j \in 1..Len(text)
      BY <1>1
  <2>2. \A j \in i..i+2 : text[j] \in Token
      BY <1>1, <2>1
  <2>3. /\ part \in Seq(Token)
        /\ Len(part) = IF i <= i + 2 THEN (i + 2) - i + 1 ELSE 0
        /\ \A j \in 1..(i + 2) - i + 1 : part[j] = text[i + j - 1]
      BY <2>1, <2>2, SubSeqProperties
  <2>4. parts[i] = part
      OBVIOUS
  <2> HIDE DEF part, mark, parts
  <2>5. Len(part) = 3 /\ \A j \in 1..3 : part[j] = text[i + j - 1]
    <3>1. i <= i + 2 /\ (i + 2) - i + 1 = 3
        BY <2>1
    <3> QED
        BY <2>3, <3>1
  <2>6. part[1] = text[i] /\ part[2] = text[i + 1] /\ part[3] = text[i + 2]
    <3>1. i + 1 - 1 = i /\ i + 2 - 1 = i + 1 /\ i + 3 - 1 = i + 2
        BY <2>1
    <3> QED
        BY <2>5, <3>1
  <2>7. ASSUME text[i] = ":", text[i + 1] = "/", text[i + 2] = "/" PROVE part = mark
    <3>1. \A j \in 1..Len(part) : part[j] = mark[j]
      <4>1. \A j \in 1..Len(part) : j = 1 \/ j = 2 \/ j = 3
          BY <2>5
      <4> QED
          BY <1>3, <2>6, <2>7, <4>1
    <3> QED
        BY <1>3, <2>3, <2>5, <3>1, SeqEqual
  <2> QED
      BY <1>3, <2>4, <2>6, <2>7
<1>5. I = Separators(text)
  <2> HIDE DEF parts, mark
  <2> QED
      BY <1>2, <1>4 DEF Separators
<1>6. SchemeEnd(text) = IF I # {} THEN Min(I) ELSE 0
    BY DEF SchemeEnd, SelectInSeq
<1> QED
    BY <1>5, <1>6

(* A separator before which there is no colon is the first ... *)
LEMMA SchemeEndIs ==
    ASSUME NEW text \in Texts, NEW k \in Separators(text), \A i \in 1..k-1 : text[i] # ":"
    PROVE  SchemeEnd(text) = k
<1> DEFINE I == Separators(text)
<1>1. Len(text) \in Nat
    BY LenProperties DEF Texts
<1>2. k \in Nat /\ \A i \in I : i \in Nat /\ i >= 1 /\ text[i] = ":"
    BY <1>1 DEF Separators
<1>3. \A i \in I : k <= i
    BY <1>2
<1> HIDE DEF I
<1>4. k \in I
    BY DEF I
<1>5. Min(I) \in I /\ \A i \in I : Min(I) <= i
    BY <1>3, <1>4 DEF Min
<1> DEFINE j == Min(I)
<1>6. j \in I /\ \A i \in I : j <= i
    BY <1>5
<1> HIDE DEF j
<1>7. j \in Nat /\ j <= k /\ k <= j
    BY <1>2, <1>3, <1>4, <1>6
<1>8. j = k
    BY <1>2, <1>7
<1> QED
    BY <1>4, <1>8, SchemeEndSearch DEF I, j

(* ... and where none is found there is none. *)
LEMMA SchemeEndIsNone ==
    ASSUME NEW text \in Texts
    PROVE  SchemeEnd(text) = 0 <=> Separators(text) = {}
<1> DEFINE I == Separators(text)
<1>1. \A i \in I : i \in Nat /\ i # 0
    BY LenProperties DEF Texts, Separators
<1>2. SchemeEnd(text) = IF I # {} THEN Min(I) ELSE 0
    BY SchemeEndSearch
<1>3. ASSUME I # {} PROVE Min(I) # 0
  <2> HIDE DEF I
  <2>1. PICK x \in I : \A y \in I : x <= y
    <3>1. I \subseteq Nat
        BY <1>1
    <3> QED
        BY <1>3, <3>1, LeastNumber
  <2>2. Min(I) \in I
      BY <2>1 DEF Min
  <2> QED
      BY <1>1, <2>2
<1> QED
    BY <1>2, <1>3

(* A scheme is what precedes the first `://'. *)
LEMMA SchemeCut ==
    ASSUME NEW scheme \in Texts, Free(scheme, {":"}), NEW c \in Texts
    PROVE  LET t == (scheme \o <<":", "/", "/">>) \o c
               k == SchemeEnd(t)
           IN  /\ t \in Texts /\ k = Len(scheme) + 1 /\ k # 0
               /\ Before(t, k) = scheme /\ SubSeq(t, k + 3, Len(t)) = c
<1> DEFINE mark == <<":", "/", "/">>
           b == mark \o c
           t == scheme \o b
           k == Len(scheme) + 1
<1>1. mark \in Texts /\ Len(mark) = 3 /\ mark[1] = ":" /\ mark[2] = "/" /\ mark[3] = "/"
  <2>1. ":" \in Token /\ "/" \in Token
      BY DEF Token
  <2> QED
      BY <2>1 DEF Texts
<1>2. (scheme \o mark) \o c = t
  <2> HIDE DEF mark
  <2> QED
      BY <1>1, ConcatAssociative DEF Texts
<1> HIDE DEF mark
<1>3. /\ b \in Texts /\ Len(b) = Len(mark) + Len(c) /\ Len(c) \in Nat
      /\ SubSeq(b, Len(mark) + 1, Len(b)) = c
      /\ \A i \in 1..Len(mark) : b[i] = mark[i]
    BY <1>1, ComesApart
<1>4. /\ Len(b) = 3 + Len(c) /\ SubSeq(b, 3 + 1, Len(b)) = c
      /\ b[1] = ":" /\ b[2] = "/" /\ b[3] = "/"
    BY <1>1, <1>3
<1> HIDE DEF b
<1>5. /\ t \in Texts /\ Len(t) = Len(scheme) + Len(b) /\ Len(scheme) \in Nat
      /\ SubSeq(t, 1, Len(scheme)) = scheme
      /\ SubSeq(t, Len(scheme) + 1, Len(t)) = b
      /\ \A i \in 1..Len(scheme) : t[i] = scheme[i]
      /\ \A i \in 1..Len(b) : t[Len(scheme) + i] = b[i]
    BY <1>3, ComesApart
<1> HIDE DEF t
<1>6. t[k] = ":" /\ t[k + 1] = "/" /\ t[k + 2] = "/"
  <2>1. 1 \in 1..Len(b) /\ 2 \in 1..Len(b) /\ 3 \in 1..Len(b)
      BY <1>3, <1>4
  <2>2. t[Len(scheme) + 1] = ":" /\ t[Len(scheme) + 2] = "/" /\ t[Len(scheme) + 3] = "/"
      BY <1>4, <1>5, <2>1
  <2>3. k + 1 = Len(scheme) + 2 /\ k + 2 = Len(scheme) + 3
      BY <1>5
  <2> QED
      BY <2>2, <2>3
<1>7. k \in 1..Len(t) - 2 /\ k - 1 = Len(scheme) /\ k # 0
    BY <1>3, <1>4, <1>5
<1>8. \A i \in 1..k-1 : t[i] # ":"
    BY <1>5, <1>7 DEF Free
<1> HIDE DEF k
<1>9. k \in Separators(t)
    BY <1>6, <1>7 DEF Separators
<1>10. SchemeEnd(t) = k
    BY <1>5, <1>8, <1>9, SchemeEndIs
<1>11. Before(t, k) = scheme
    BY <1>5, <1>7 DEF Before
<1>12. SubSeq(t, k + 3, Len(t)) = c
  <2> DEFINE x == SubSeq(t, (k + 2) + 1, Len(t))
             y == SubSeq(b, 3 + 1, Len(b))
  <2>1. /\ t \in Seq(Token) /\ b \in Seq(Token) /\ k + 2 \in Nat /\ k \in Nat
        /\ Len(t) = (k - 1) + (3 + Len(c))
      BY <1>3, <1>4, <1>5, <1>7 DEF Texts
  <2>2. /\ x \in Seq(Token)
        /\ Len(x) = IF k + 2 <= Len(t) THEN Len(t) - (k + 2) ELSE 0
        /\ \A i \in 1..Len(t) - (k + 2) : x[i] = t[(k + 2) + i]
      BY <2>1, LastPart
  <2>3. /\ y \in Seq(Token)
        /\ Len(y) = IF 3 <= Len(b) THEN Len(b) - 3 ELSE 0
        /\ \A i \in 1..Len(b) - 3 : y[i] = b[3 + i]
      BY <2>1, LastPart
  <2> HIDE DEF x, y
  <2>4. Len(x) = Len(c) /\ Len(y) = Len(c)
      BY <1>3, <1>4, <2>1, <2>2, <2>3
  <2>5. ASSUME NEW i \in 1..Len(c) PROVE x[i] = y[i]
    <3>1. /\ i \in 1..Len(t) - (k + 2) /\ i \in 1..Len(b) - 3 /\ 3 + i \in 1..Len(b)
          /\ (k + 2) + i = Len(scheme) + (3 + i)
        BY <1>3, <1>4, <1>5, <1>7, <2>1
    <3> QED
        BY <1>5, <2>2, <2>3, <3>1
  <2>6. x = y
      BY <2>2, <2>3, <2>4, <2>5, SeqEqual
  <2>7. (k + 2) + 1 = k + 3
      BY <2>1
  <2> QED
      BY <1>4, <2>6, <2>7 DEF x, y
<1> QED
    BY <1>2, <1>5, <1>7, <1>10, <1>11, <1>12 DEF mark, t, b, k

(* url.split('://', 1): the scheme is what is before the first separator. *)
LEMMA SchemeTaken ==
    ASSUME NEW scheme \in Texts, Free(scheme, {":"}), NEW c \in Texts, NEW m
    PROVE  TakeScheme(State(Known(None, None, None, None, None, None, None),
                            (scheme \o <<":", "/", "/">>) \o c, m))
              = State(Known(scheme, None, None, None, None, None, None), c, m)
<1> DEFINE t == (scheme \o <<":", "/", "/">>) \o c
           k == SchemeEnd(t)
           s == State(Known(None, None, None, None, None, None, None), t, m)
<1>1. k # 0 /\ Before(t, k) = scheme /\ SubSeq(t, k + 3, Len(t)) = c
    BY SchemeCut
<1> HIDE DEF t
<1>2. TakeScheme(s) = SchemePut(s, scheme, c)
  <2>1. s.rest = t
      BY DEF State
  <2>2. TakeScheme(s) = SchemePut(s, Before(t, k), SubSeq(t, k + 3, Len(t)))
      BY <1>1, <2>1 DEF TakeScheme, SchemePut
  <2> QED
      BY <1>1, <2>2
<1>3. SchemePut(s, scheme, c) = State(Known(scheme, None, None, None, None, None, None), c, m)
    BY SchemeWritten
<1> QED
    BY <1>2, <1>3 DEF t
-----------------------------------------------------------------------------
(* Free texts, put together. *)
LEMMA FreeTogether ==
    ASSUME NEW a \in Texts, NEW b \in Texts, NEW D
    PROVE  Free(a \o b, D) <=> Free(a, D) /\ Free(b, D)
<1> DEFINE t == a \o b
           n == Len(a)
           k == Len(b)
<1>1. /\ Len(t) = n + k /\ n \in Nat /\ k \in Nat
      /\ \A i \in 1..n : t[i] = a[i]
      /\ \A i \in 1..k : t[n + i] = b[i]
    BY ComesApart
<1> HIDE DEF t, n, k
<1>2. ASSUME \A i \in 1..n : a[i] \notin D, \A i \in 1..k : b[i] \notin D,
             NEW i \in 1..Len(t)
      PROVE  t[i] \notin D
  <2>1. CASE i <= n
      BY <1>1, <1>2, <2>1
  <2>2. CASE i > n
    <3>1. i - n \in 1..k /\ n + (i - n) = i
        BY <1>1, <2>2
    <3>2. t[n + (i - n)] = b[i - n]
        BY <1>1, <3>1
    <3> QED
        BY <1>2, <3>1, <3>2
  <2> QED
      BY <1>1, <2>1, <2>2
<1>3. ASSUME \A i \in 1..Len(t) : t[i] \notin D, NEW i \in 1..n
      PROVE  a[i] \notin D
    BY <1>1, <1>3
<1>4. ASSUME \A i \in 1..Len(t) : t[i] \notin D, NEW i \in 1..k
      PROVE  b[i] \notin D
  <2>1. n + i \in 1..Len(t)
      BY <1>1
  <2> QED
      BY <1>1, <1>4, <2>1
<1> QED
    BY <1>2, <1>3, <1>4 DEF Free, t, n, k

(* A component with its delimiters is free of what they all are free of. *)
LEMMA FreeParts ==
    ASSUME NEW a \in Texts, NEW b \in Texts, NEW c \in Component, NEW D,
           Free(a, D), Free(b, D), c # None => Free(c, D)
    PROVE  Part(a, c, b) \in Texts /\ Free(Part(a, c, b), D)
<1>1. CASE c = None
    BY <1>1, EmptySeq DEF Part, Free, Texts
<1>2. CASE c # None
  <2>1. c \in Texts
      BY <1>2 DEF Component
  <2>2. a \o c \in Texts /\ Free(a \o c, D)
      BY <1>2, <2>1, FreeTogether, ComesApart
  <2>3. (a \o c) \o b \in Texts /\ Free((a \o c) \o b, D)
    <3> DEFINE x == a \o c
    <3>1. x \in Texts /\ Free(x, D)
        BY <2>2
    <3> HIDE DEF x
    <3>2. x \o b \in Texts /\ Free(x \o b, D)
        BY <3>1, FreeTogether, ComesApart
    <3> QED
        BY <3>2 DEF x
  <2> QED
      BY <1>2, <2>3 DEF Part
<1> QED
    BY <1>1, <1>2

(* A component with its delimiters is a text. *)
LEMMA PartIsText ==
    ASSUME NEW a \in Texts, NEW b \in Texts, NEW c \in Component
    PROVE  Part(a, c, b) \in Texts
<1>1. \A x : Free(x, {})
    BY DEF Free
<1> QED
    BY <1>1, FreeParts

(* A component without delimiters is itself, or nothing. *)
LEMMA Bare ==
    ASSUME NEW c \in Component
    PROVE  Part(<< >>, c, << >>) = IF c = None THEN << >> ELSE c
<1>1. CASE c # None
  <2>1. c \in Seq(Token)
      BY <1>1 DEF Component, Texts
  <2> QED
      BY <1>1, <2>1, ConcatEmptySeq DEF Part
<1> QED
    BY <1>1 DEF Part

(* The delimiters are texts. *)
LEMMA MarksAreTexts ==
    /\ << >> \in Texts /\ <<"@">> \in Texts /\ <<":">> \in Texts
    /\ <<"?">> \in Texts /\ <<"#">> \in Texts /\ <<":", "/", "/">> \in Texts
<1>1. {":", "/", "?", "#", "@"} \subseteq Token
    BY DEF Token
<1>2. << >> \in Texts
    BY EmptySeq DEF Texts
<1>3. \A d \in Token : <<d>> \in Seq(Token)
    OBVIOUS
<1>4. \A d, e, f \in Token : <<d, e, f>> \in Seq(Token)
    OBVIOUS
<1> QED
    BY <1>1, <1>2, <1>3, <1>4 DEF Texts

(* A delimiter is free of the other ones. *)
LEMMA FreeMarks ==
    ASSUME NEW D
    PROVE  Free(<< >>, D) /\ \A d : d \notin D => Free(<<d>>, D)
    BY DEF Free

Cat(x, y) == x \o y

(* Texts are joined in any grouping. *)
LEMMA Joined ==
    ASSUME NEW x \in Texts, NEW y \in Texts, NEW z \in Texts
    PROVE  Cat(x, y) \in Texts /\ Cat(Cat(x, y), z) = Cat(x, Cat(y, z))
<1>1. x \in Seq(Token) /\ y \in Seq(Token) /\ z \in Seq(Token)
    BY DEF Texts
<1>2. x \o y \in Seq(Token)
    BY <1>1, ConcatProperties
<1>3. (x \o y) \o z = x \o (y \o z)
    BY <1>1, ConcatAssociative
<1> QED
    BY <1>2, <1>3 DEF Texts, Cat

(* What TakePath parts: the authority, and what is beyond it. *)
HostAndPort(u) == Part(<< >>, u.host, << >>) \o Part(<<":">>, u.port, << >>)
Authority(u) == Part(<< >>, u.auth, <<"@">>) \o HostAndPort(u)
UpToQuery(u) == Part(<< >>, u.path, << >>) \o Part(<<"?">>, u.query, << >>)
Beyond(u) == UpToQuery(u) \o Part(<<"#">>, u.fragment, << >>)

(* The text of a URL: the scheme, the authority, and what is beyond it. *)
LEMMA TextIsGrouped ==
    ASSUME NEW u, IsUrl(u)
    PROVE  /\ Text(u) = Part(<< >>, u.scheme, <<":", "/", "/">>) \o (Authority(u) \o Beyond(u))
           /\ Text(u) \in Texts /\ HostAndPort(u) \in Texts /\ Authority(u) \in Texts
           /\ UpToQuery(u) \in Texts /\ Beyond(u) \in Texts
<1> DEFINE a == Part(<< >>, u.scheme, <<":", "/", "/">>)
           b == Part(<< >>, u.auth, <<"@">>)
           c == Part(<< >>, u.host, << >>)
           d == Part(<<":">>, u.port, << >>)
           e == Part(<< >>, u.path, << >>)
           f == Part(<<"?">>, u.query, << >>)
           g == Part(<<"#">>, u.fragment, << >>)
<1>1. /\ u.scheme \in Component /\ u.auth \in Component /\ u.host \in Component
      /\ u.port \in Component /\ u.path \in Component /\ u.query \in Component
      /\ u.fragment \in Component
    BY DEF IsUrl
<1>2. /\ a \in Texts /\ b \in Texts /\ c \in Texts /\ d \in Texts
      /\ e \in Texts /\ f \in Texts /\ g \in Texts
    BY <1>1, MarksAreTexts, PartIsText
<1>3. Text(u) = ((((((a \o b) \o c) \o d) \o e) \o f) \o g)
    BY DEF Text
<1>4. /\ HostAndPort(u) = c \o d /\ Authority(u) = b \o (c \o d)
      /\ UpToQuery(u) = e \o f /\ Beyond(u) = (e \o f) \o g
    BY DEF HostAndPort, Authority, UpToQuery, Beyond
<1>5. \A x, y \in Texts : x \o y \in Texts
    BY ConcatProperties DEF Texts
<1> HIDE DEF a, b, c, d, e, f, g
<1>6. Text(u) = a \o ((b \o (c \o d)) \o ((e \o f) \o g))
  <2> DEFINE cd == Cat(c, d)
             ef == Cat(e, f)
             h  == Cat(b, cd)
             k  == Cat(ef, g)
             x  == Cat(a, h)
  <2>1. /\ cd \in Texts /\ ef \in Texts /\ h \in Texts /\ k \in Texts /\ x \in Texts
        /\ Cat(a, b) \in Texts
      BY <1>2, Joined
  <2>2. Cat(Cat(Cat(a, b), c), d) = x
      BY <1>2, <2>1, Joined
  <2> HIDE DEF x, h
  <2>3. Cat(Cat(Cat(x, e), f), g) = Cat(x, k)
      BY <1>2, <2>1, Joined
  <2>4. Cat(x, k) = Cat(a, Cat(h, k))
      BY <1>2, <2>1, Joined DEF x
  <2>5. Text(u) = Cat(Cat(Cat(Cat(Cat(Cat(a, b), c), d), e), f), g)
      BY <1>3 DEF Cat
  <2>6. Text(u) = Cat(a, Cat(h, k))
      BY <2>2, <2>3, <2>4, <2>5
  <2> QED
      BY <2>6 DEF Cat, h
<1>7. /\ HostAndPort(u) \in Texts /\ Authority(u) \in Texts
      /\ UpToQuery(u) \in Texts /\ Beyond(u) \in Texts
    BY <1>2, <1>4, <1>5
<1>8. Text(u) = a \o (Authority(u) \o Beyond(u))
    BY <1>4, <1>6
<1>9. Text(u) \in Texts
    BY <1>2, <1>5, <1>7, <1>8
<1> QED
    BY <1>7, <1>8, <1>9 DEF a
(* Where the parts of a Url's text begin, and what they are free of. *)
LEMMA PartsAreFree ==
    ASSUME NEW u, IsUrl(u)
    PROVE  /\ Free(Authority(u), {"/", "?", "#"}) /\ Free(HostAndPort(u), {"@"})
           /\ Free(UpToQuery(u), {"#"}) /\ Free(Part(<< >>, u.path, << >>), {"?"})
           /\ Part(<< >>, u.path, << >>) \in Texts
<1>1. /\ u.auth \in Component /\ u.host \in Component
      /\ u.port \in Component /\ u.path \in Component /\ u.query \in Component
    BY DEF IsUrl
<1>2. \A D : /\ Free(<< >>, D)
             /\ "@" \notin D => Free(<<"@">>, D)
             /\ ":" \notin D => Free(<<":">>, D)
             /\ "?" \notin D => Free(<<"?">>, D)
    BY FreeMarks
<1>3. /\ u.auth # None => Free(u.auth, {"/", "?", "#"})
      /\ u.host # None => Free(u.host, {"/", "?", "#"}) /\ Free(u.host, {"@"})
      /\ u.port # None => Free(u.port, {"/", "?", "#"}) /\ Free(u.port, {"@"})
      /\ u.path # None => Free(u.path, {"?"}) /\ Free(u.path, {"#"})
      /\ u.query # None => Free(u.query, {"#"})
    BY DEF IsUrl, Free
<1>4. ASSUME NEW D, ":" \notin D, u.host # None => Free(u.host, D), u.port # None => Free(u.port, D)
      PROVE  HostAndPort(u) \in Texts /\ Free(HostAndPort(u), D)
  <2> DEFINE x == Part(<< >>, u.host, << >>)
             y == Part(<<":">>, u.port, << >>)
  <2>1. x \in Texts /\ Free(x, D)
      BY <1>1, <1>2, <1>4, FreeParts, MarksAreTexts
  <2>2. y \in Texts /\ Free(y, D)
      BY <1>1, <1>2, <1>4, FreeParts, MarksAreTexts
  <2>3. HostAndPort(u) = x \o y
      BY DEF HostAndPort
  <2> HIDE DEF x, y
  <2> QED
      BY <2>1, <2>2, <2>3, FreeTogether, ComesApart
<1>5. HostAndPort(u) \in Texts /\ Free(HostAndPort(u), {"@"})
    BY <1>3, <1>4
<1>6. Free(Authority(u), {"/", "?", "#"})
  <2> DEFINE D == {"/", "?", "#"}
             x == Part(<< >>, u.auth, <<"@">>)
             y == HostAndPort(u)
  <2>1. "@" \notin D /\ ":" \notin D
      OBVIOUS
  <2>0. /\ u.host # None => Free(u.host, D)
        /\ u.port # None => Free(u.port, D)
        /\ u.auth # None => Free(u.auth, D)
      BY <1>3
  <2> HIDE DEF D
  <2>2. x \in Texts /\ Free(x, D)
      BY <1>1, <1>2, <2>0, <2>1, FreeParts, MarksAreTexts
  <2>3. y \in Texts /\ Free(y, D)
      BY <1>4, <2>0, <2>1
  <2>4. Authority(u) = x \o y
      BY DEF Authority
  <2> HIDE DEF x, y
  <2>5. Free(Authority(u), D)
      BY <2>2, <2>3, <2>4, FreeTogether
  <2> QED
      BY <2>5 DEF D
<1>7. Part(<< >>, u.path, << >>) \in Texts /\ Free(Part(<< >>, u.path, << >>), {"?"})
    BY <1>1, <1>2, <1>3, FreeParts, MarksAreTexts
<1>8. Free(UpToQuery(u), {"#"})
  <2> DEFINE D == {"#"}
             x == Part(<< >>, u.path, << >>)
             y == Part(<<"?">>, u.query, << >>)
  <2>1. "?" \notin D
      OBVIOUS
  <2>0. /\ u.path # None => Free(u.path, D)
        /\ u.query # None => Free(u.query, D)
      BY <1>3
  <2> HIDE DEF D
  <2>2. x \in Texts /\ Free(x, D)
      BY <1>1, <1>2, <2>0, FreeParts, MarksAreTexts
  <2>3. y \in Texts /\ Free(y, D)
      BY <1>1, <1>2, <2>0, <2>1, FreeParts, MarksAreTexts
  <2>4. UpToQuery(u) = x \o y
      BY DEF UpToQuery
  <2> HIDE DEF x, y
  <2>5. Free(UpToQuery(u), D)
      BY <2>2, <2>3, <2>4, FreeTogether
  <2> QED
      BY <2>5 DEF D
<1> QED
    BY <1>5, <1>6, <1>7, <1>8

(* A component that is given begins with its delimiter. *)
LEMMA PartBegins ==
    ASSUME NEW d \in Token, NEW c \in Component
    PROVE  /\ Part(<<d>>, c, << >>) \in Texts
           /\ c = None => Part(<<d>>, c, << >>) = << >>
           /\ c # None => /\ Part(<<d>>, c, << >>) # << >>
                          /\ Part(<<d>>, c, << >>)[1] = d
<1>1. CASE c = None
    BY <1>1, MarksAreTexts DEF Part
<1>2. CASE c # None
  <2>1. c \in Texts
      BY <1>2 DEF Component
  <2> DEFINE x == <<d>> \o c
  <2>2. x \in Texts /\ x # << >> /\ x[1] = d
      BY <2>1, Delimited
  <2>3. Part(<<d>>, c, << >>) = x \o << >>
      BY <1>2 DEF Part
  <2> HIDE DEF x
  <2>4. x \o << >> = x
      BY <2>2, ConcatEmptySeq DEF Texts
  <2> QED
      BY <1>2, <2>2, <2>3, <2>4
<1> QED
    BY <1>1, <1>2

(* Joined texts begin as the first of them that is not empty. *)
LEMMA CatBegins ==
    ASSUME NEW x \in Texts, NEW y \in Texts
    PROVE  /\ x = << >> => x \o y = y
           /\ x # << >> => x \o y # << >> /\ (x \o y)[1] = x[1]
<1>1. ASSUME x = << >> PROVE x \o y = y
    BY <1>1, ConcatEmptySeq DEF Texts
<1>2. ASSUME x # << >> PROVE x \o y # << >> /\ (x \o y)[1] = x[1]
  <2> DEFINE t == x \o y
             n == Len(x)
  <2>1. /\ t \in Texts /\ Len(t) = n + Len(y) /\ n \in Nat /\ Len(y) \in Nat
        /\ \A i \in 1..n : t[i] = x[i]
      BY ComesApart
  <2>2. n # 0
      BY <1>2, EmptySeq DEF Texts
  <2> HIDE DEF t, n
  <2>3. t[1] = x[1] /\ Len(t) # 0
      BY <2>1, <2>2
  <2>4. t # << >>
      BY <2>3
  <2> QED
      BY <2>3, <2>4 DEF t
<1> QED
    BY <1>1, <1>2

(* What is beyond the authority begins with the delimiter that ends it. *)
LEMMA BeyondBegins ==
    ASSUME NEW u, IsUrl(u)
    PROVE  /\ Beyond(u) = << >> => /\ u.path = None /\ u.query = None /\ u.fragment = None
                                   /\ UpToQuery(u) = << >>
           /\ Beyond(u) # << >> => Beyond(u)[1] \in {"/", "?", "#"}
           /\ UpToQuery(u) = << >> => u.path = None /\ u.query = None
<1> DEFINE e == Part(<< >>, u.path, << >>)
           f == Part(<<"?">>, u.query, << >>)
           g == Part(<<"#">>, u.fragment, << >>)
           h == UpToQuery(u)
<1>0. u.path \in Component /\ u.query \in Component /\ u.fragment \in Component
    BY DEF IsUrl
<1>1. e \in Texts /\ (u.path = None => e = << >>) /\ (u.path # None => e # << >> /\ e[1] = "/")
  <2>1. e = IF u.path = None THEN << >> ELSE u.path
      BY <1>0, Bare
  <2>2. u.path # None => u.path # << >> /\ u.path[1] = "/" /\ u.path \in Texts
      BY DEF IsUrl, Component
  <2> QED
      BY <2>1, <2>2, MarksAreTexts
<1>2. "?" \in Token /\ "#" \in Token
    BY DEF Token
<1>3. f \in Texts /\ (u.query = None => f = << >>) /\ (u.query # None => f # << >> /\ f[1] = "?")
    BY <1>0, <1>2, PartBegins
<1>4. g \in Texts /\ (u.fragment = None => g = << >>)
      /\ (u.fragment # None => g # << >> /\ g[1] = "#")
    BY <1>0, <1>2, PartBegins
<1>5. h = e \o f /\ Beyond(u) = h \o g /\ h \in Texts
    BY TextIsGrouped DEF UpToQuery, Beyond
<1> HIDE DEF e, f, g, h
<1>6. (e = << >> => h = f) /\ (e # << >> => h # << >> /\ h[1] = e[1])
    BY <1>1, <1>3, <1>5, CatBegins
<1>7. (h = << >> => Beyond(u) = g) /\ (h # << >> => Beyond(u) # << >> /\ Beyond(u)[1] = h[1])
    BY <1>4, <1>5, CatBegins
<1>8. h = << >> => u.path = None /\ u.query = None
    BY <1>1, <1>3, <1>6
<1>9. h # << >> => h[1] \in {"/", "?"}
    BY <1>1, <1>3, <1>6
<1> QED
    BY <1>4, <1>7, <1>8, <1>9 DEF h
-----------------------------------------------------------------------------
(* What is parsed: a path that is not given is empty beside a query or a *)
(* fragment.                                                             *)
Plain(u) ==
    Known(u.scheme, u.auth, u.host, u.port,
          IF u.path = None /\ (u.query # None \/ u.fragment # None) THEN << >> ELSE u.path,
          u.query, u.fragment)

(* The parser's state once it has the scheme; the host and its port. *)
LEMMA SchemeParsed ==
    ASSUME NEW u, IsUrl(u), SchemeShows(u), NEW m
    PROVE  TakeScheme(State(Known(None, None, None, None, None, None, None), Text(u), m))
              = State(Known(u.scheme, None, None, None, None, None, None),
                      Authority(u) \o Beyond(u), m)
<1> DEFINE a == Part(<< >>, u.scheme, <<":", "/", "/">>)
           c == Authority(u) \o Beyond(u)
<1>1. Text(u) = a \o c /\ c \in Texts
  <2>1. Authority(u) \in Texts /\ Beyond(u) \in Texts /\ Text(u) = a \o c
      BY TextIsGrouped
  <2> QED
      BY <2>1, ComesApart
<1>2. u.scheme \in Component /\ (u.scheme # None => Free(u.scheme, {":"}))
    BY DEF IsUrl
<1> HIDE DEF c
<1>3. CASE u.scheme # None
  <2>1. u.scheme \in Texts /\ Free(u.scheme, {":"})
      BY <1>2, <1>3 DEF Component
  <2>2. a = u.scheme \o <<":", "/", "/">>
    <3>1. a = (<< >> \o u.scheme) \o <<":", "/", "/">>
        BY <1>3 DEF Part
    <3>2. << >> \o u.scheme = u.scheme
        BY <2>1, ConcatEmptySeq DEF Texts
    <3> QED
        BY <3>1, <3>2
  <2>3. Text(u) = (u.scheme \o <<":", "/", "/">>) \o c
      BY <1>1, <2>2
  <2> QED
      BY <1>1, <2>1, <2>3, SchemeTaken DEF c
<1>4. CASE u.scheme = None
  <2> DEFINE s == State(Known(None, None, None, None, None, None, None), Text(u), m)
  <2>1. a = << >>
      BY <1>4 DEF Part
  <2>2. Text(u) = c
      BY <1>1, <2>1, ConcatEmptySeq DEF Texts
  <2>3. s.rest = Text(u)
      BY DEF State
  <2>4. SchemeEnd(s.rest) = 0
      BY <1>4, <2>3 DEF SchemeShows
  <2>5. TakeScheme(s) = s
      BY <2>4 DEF TakeScheme
  <2> QED
      BY <1>4, <2>2, <2>5 DEF c
<1> QED
    BY <1>3, <1>4

(* The host, in brackets or not, and the port are taken as they are meant. *)
LEMMA HostParsed ==
    ASSUME NEW u, IsUrl(u), NEW sc, NEW au, NEW pa, NEW m
    PROVE  \E r, n :
             TakePort(TakeBracketed(State(Known(sc, au, None, None, pa, None, None),
                                          HostAndPort(u), m)))
                = State(Known(sc, au, u.host, u.port, pa, None, None), r, n)
<1> DEFINE c == Part(<<":">>, u.port, << >>)
           s == State(Known(sc, au, None, None, pa, None, None), HostAndPort(u), m)
<1>1. /\ u.host \in Component /\ u.port \in Component /\ u.port # << >>
      /\ u.host = None => u.port = None
      /\ u.host # None => IsName(u.host) \/ IsAddress(u.host)
      /\ None # << >>
  <2>1. None # << >>
      BY NoneIsNoText, EmptySeq
  <2> QED
      BY <2>1 DEF IsUrl
<1>2. HostAndPort(u) = Part(<< >>, u.host, << >>) \o c
    BY DEF HostAndPort
<1>3. c \in Texts /\ (u.port = None => c = << >>)
    BY <1>1, PartBegins DEF Token
<1>4. s.rest = HostAndPort(u)
    BY DEF State
<1>5. Part(<< >>, u.host, << >>) = IF u.host = None THEN << >> ELSE u.host
    BY <1>1, Bare
<1>6. ASSUME NEW ho, NEW name \in Texts, Free(name, {":"}),
             u.port # None => ho \notin {None, << >>} \/ name # << >>,
             TakeBracketed(s) = State(Known(sc, au, ho, None, pa, None, None), name \o c, m),
             Or(ho, Or(name, None)) = u.host
      PROVE  \E r, n : TakePort(TakeBracketed(s))
                          = State(Known(sc, au, u.host, u.port, pa, None, None), r, n)
  <2> DEFINE z == State(Known(sc, au, ho, None, pa, None, None), name \o c, m)
  <2>1. TakePort(z) = State(Known(sc, au, Or(ho, Or(name, None)), u.port, pa, None, None),
                            z.rest, TakePort(z).malformed)
      BY <1>1, <1>6, PortTaken
  <2> HIDE DEF z
  <2>2. TakePort(z) = State(Known(sc, au, u.host, u.port, pa, None, None),
                            z.rest, TakePort(z).malformed)
      BY <1>6, <2>1
  <2> QED
      BY <1>6, <2>2 DEF z
<1> DEFINE e == << >>
<1>7. Free(e, {":"}) /\ e \in Texts /\ e \o c = c
    BY <1>3, FreeMarks, MarksAreTexts, ConcatEmptySeq DEF Texts
<1> HIDE DEF c, e
<1>8. CASE u.host = None
  <2>1. HostAndPort(u) = << >>
      BY <1>1, <1>2, <1>3, <1>5, <1>7, <1>8 DEF e
  <2>2. TakeBracketed(s) = s
      BY <1>4, <2>1 DEF TakeBracketed
  <2>3. s = State(Known(sc, au, None, None, pa, None, None), e \o c, m)
      BY <1>1, <1>3, <1>7, <1>8, <2>1
  <2>4. Or(None, Or(e, None)) = u.host
      BY <1>8 DEF Or, e
  <2> HIDE DEF s
  <2> QED
      BY <1>1, <1>6, <1>7, <1>8, <2>2, <2>3, <2>4 DEF s
<1>9. CASE u.host # None /\ IsName(u.host)
  <2>1. /\ u.host \in Texts /\ u.host # << >> /\ Free(u.host, {":"}) /\ Free(u.host, {"["})
      BY <1>1, <1>9 DEF Component, IsName, Free
  <2>2. HostAndPort(u) = u.host \o c
      BY <1>2, <1>5, <1>9
  <2>3. HostAndPort(u) # << >> /\ Head(HostAndPort(u)) # "["
    <3>1. u.host \o c # << >> /\ (u.host \o c)[1] = u.host[1] /\ u.host \o c \in Texts
        BY <1>3, <2>1, CatBegins, ComesApart
    <3>2. Len(u.host) \in Nat /\ Len(u.host) # 0
        BY <2>1, EmptySeq, LenProperties DEF Texts
    <3>3. u.host[1] # "["
        BY <2>1, <3>2 DEF Free
    <3>4. Head(u.host \o c) = (u.host \o c)[1]
        BY <3>1, HeadTailProperties DEF Texts
    <3> QED
        BY <2>2, <3>1, <3>3, <3>4
  <2>4. TakeBracketed(s) = s
      BY <1>4, <2>3 DEF TakeBracketed
  <2>5. Or(None, Or(u.host, None)) = u.host
      BY <1>9, <2>1 DEF Or
  <2> HIDE DEF s
  <2> QED
      BY <1>6, <2>1, <2>2, <2>4, <2>5 DEF s
<1>10. CASE u.host # None /\ IsAddress(u.host)
  <2>1. u.host \in Texts
      BY <1>1, <1>10 DEF Component
  <2>2. HostAndPort(u) = u.host \o c
      BY <1>2, <1>5, <1>10
  <2>3. TakeBracketed(s) = State(Known(sc, au, u.host, None, pa, None, None), c, m)
      BY <1>3, <1>10, <2>1, <2>2, AddressTaken
  <2>6. TakeBracketed(s) = State(Known(sc, au, u.host, None, pa, None, None), e \o c, m)
      BY <1>7, <2>3
  <2>4. u.host # << >>
      BY <1>10 DEF IsAddress
  <2>5. Or(u.host, Or(e, None)) = u.host
      BY <1>10, <2>4 DEF Or
  <2> HIDE DEF s
  <2> QED
      BY <1>6, <1>7, <1>10, <2>4, <2>5, <2>6 DEF s
<1> QED
    BY <1>1, <1>8, <1>9, <1>10

(* parse_url takes the text of a Url apart into the Url again. *)
THEOREM TextIsParsed ==
    ASSUME NEW u, IsUrl(u), SchemeShows(u)
    PROVE  Parse(Text(u)) = Plain(u)
<1> DEFINE t == Text(u)
           A == Authority(u)
           B == Beyond(u)
           Q == UpToQuery(u)
           H == HostAndPort(u)
           P == Part(<< >>, u.path, << >>)
           m == Start(t).malformed
           pa == IF B = << >> THEN None ELSE B
           pb == IF B = << >> THEN None ELSE Q
           pc == IF u.query = None THEN pb ELSE P
<1>1. Start(t) = State(Known(None, None, None, None, None, None, None), t, m)
    BY DEF Start, State, Known, NoUrl
<1>2. /\ A \in Texts /\ B \in Texts /\ H \in Texts /\ Q \in Texts /\ P \in Texts
      /\ Free(A, {"/", "?", "#"}) /\ Free(H, {"@"}) /\ Free(Q, {"#"}) /\ Free(P, {"?"})
    BY TextIsGrouped, PartsAreFree
<1>3. /\ u.scheme \in Component /\ u.auth \in Component /\ u.path \in Component
      /\ u.query \in Component /\ u.fragment \in Component
    BY DEF IsUrl
<1>4. /\ A = Part(<< >>, u.auth, <<"@">>) \o H
      /\ Q = P \o Part(<<"?">>, u.query, << >>)
      /\ B = Q \o Part(<<"#">>, u.fragment, << >>)
    BY DEF Authority, UpToQuery, Beyond
<1>5. /\ B = << >> => u.path = None /\ u.query = None /\ u.fragment = None /\ Q = << >>
      /\ B # << >> => B[1] \in {"/", "?", "#"}
    BY BeyondBegins
<1> HIDE DEF m, t
<1>6. TakeScheme(Start(t)) = State(Known(u.scheme, None, None, None, None, None, None), A \o B, m)
    BY <1>1, SchemeParsed DEF t
<1> HIDE DEF A, B, Q, P
<1>7. TakePath(TakeScheme(Start(t)))
         = State(Known(u.scheme, None, None, None, pa, None, None), A, m)
    BY <1>2, <1>5, <1>6, PathTaken
<1> HIDE DEF pa, H
<1>8. TakeAuth(TakePath(TakeScheme(Start(t))))
         = State(Known(u.scheme, u.auth, None, None, pa, None, None), H, m)
    BY <1>2, <1>3, <1>4, <1>7, AuthTaken
<1> DEFINE s == TakePort(TakeBracketed(TakeAuth(TakePath(TakeScheme(Start(t))))))
<1>9. PICK r, n : s = State(Known(u.scheme, u.auth, u.host, u.port, pa, None, None), r, n)
    BY <1>8, HostParsed DEF H
<1> HIDE DEF s
<1> DEFINE k == State(Known(u.scheme, u.auth, u.host, u.port, pb, None, u.fragment), r, n)
<1>10. TakeFragment(s) = k
  <2>1. s.url.path = pa /\ Or(pa, << >>) = B
    <3>1. s.url.path = pa
        BY <1>9 DEF State, Known
    <3>2. Or(pa, << >>) = B
        BY <1>2, NoneIsNoText DEF pa, Or, Texts
    <3> QED
        BY <3>1, <3>2
  <2>2. TakeFragment(s) = IF u.fragment = None THEN s ELSE FragmentPut(s, u.fragment, Q)
      BY <1>2, <1>3, <1>4, <2>1, FragmentTaken
  <2>3. CASE u.fragment = None
    <3>1. B = Q
        BY <1>2, <1>4, <2>3, ConcatEmptySeq DEF Part, Texts
    <3>2. pa = pb
        BY <3>1 DEF pa
    <3> QED
        BY <1>9, <2>2, <2>3, <3>2
  <2>4. CASE u.fragment # None
    <3>1. pb = Q
        BY <1>5, <2>4
    <3> HIDE DEF pb
    <3> QED
        BY <1>9, <2>2, <2>4, <3>1, FragmentWritten
  <2> QED
      BY <2>3, <2>4
<1>11. pb = Q \/ (pb = None /\ Q = << >>)
    BY <1>5
<1> HIDE DEF pb, k
<1>12. TakeQuery(k)
          = State(Known(u.scheme, u.auth, u.host, u.port, pc, u.query, u.fragment), r, n)
  <2>1. k.url.path = pb /\ Or(pb, << >>) = Q
    <3>1. k.url.path = pb
        BY DEF State, Known, k
    <3>2. Or(pb, << >>) = Q
        BY <1>2, <1>11, NoneIsNoText DEF Or, Texts
    <3> QED
        BY <3>1, <3>2
  <2>2. TakeQuery(k) = IF u.query = None THEN k ELSE QueryPut(k, u.query, P)
      BY <1>2, <1>3, <1>4, <2>1, QueryTaken
  <2>3. CASE u.query = None
      BY <2>2, <2>3 DEF k
  <2>4. CASE u.query # None
      BY <2>2, <2>4, QueryWritten DEF k
  <2> QED
      BY <2>3, <2>4
<1> HIDE DEF pc
<1>13. Parse(t) = Known(u.scheme, u.auth, u.host, u.port, pc, u.query, u.fragment)
    BY <1>10, <1>12 DEF Parse, Parsed, s, State
<1>14. pc = IF u.path = None /\ (u.query # None \/ u.fragment # None) THEN << >> ELSE u.path
  <2>1. P = IF u.path = None THEN << >> ELSE u.path
      BY <1>3, Bare DEF P
  <2>2. u.query = None => Q = P
      BY <1>2, <1>4, ConcatEmptySeq DEF Part, Texts
  <2>3. u.query = None /\ u.fragment = None => B = P
      BY <1>2, <1>4, <2>2, ConcatEmptySeq DEF Part, Texts
  <2>4. CASE u.query # None
      BY <2>1, <2>4 DEF pc
  <2>5. CASE u.query = None /\ B = << >>
      BY <1>5, <2>5 DEF pc, pb
  <2>6. CASE u.query = None /\ B # << >>
      BY <2>1, <2>2, <2>3, <2>6 DEF pc, pb
  <2> QED
      BY <2>4, <2>5, <2>6
<1> QED
    BY <1>13, <1>14 DEF t, Plain

(* What is put together again is the same text. *)
LEMMA PlainText ==
    ASSUME NEW u, IsUrl(u)
    PROVE  Text(Plain(u)) = Text(u)
<1> DEFINE p == IF u.path = None /\ (u.query # None \/ u.fragment # None) THEN << >> ELSE u.path
<1>1. Part(<< >>, p, << >>) = Part(<< >>, u.path, << >>)
  <2>1. CASE u.path = None
    <3>1. Part(<< >>, << >>, << >>) = << >>
        BY MarksAreTexts, Bare DEF Component
    <3> QED
        BY <2>1, <3>1 DEF Part
  <2>2. CASE u.path # None
      BY <2>2
  <2> QED
      BY <2>1, <2>2
<1> HIDE DEF p
<1>2. /\ Plain(u).scheme = u.scheme /\ Plain(u).auth = u.auth /\ Plain(u).host = u.host
      /\ Plain(u).port = u.port /\ Plain(u).path = p /\ Plain(u).query = u.query
      /\ Plain(u).fragment = u.fragment
    BY DEF Plain, Known, p
<1> QED
    BY <1>1, <1>2 DEF Text
-----------------------------------------------------------------------------
(* Hosts without the brackets of an IPv6 address. *)
IsHost(host) == host \in Texts /\ (IsName(host) \/ IsAddress(host))

Bared(host) == IF Head(host) = "[" THEN SubSeq(host, 2, Len(host) - 1) ELSE host

(* A name does not begin with a bracket. *)
LEMMA NameStarts ==
    ASSUME NEW host \in Texts, IsName(host)
    PROVE  Head(host) # "[" /\ Len(host) \in Nat /\ Len(host) >= 1
<1>1. Len(host) \in Nat /\ Len(host) # 0
    BY EmptySeq, LenProperties DEF Texts, IsName
<1>2. Head(host) = host[1]
    BY HeadTailProperties DEF Texts, IsName
<1>3. host[1] # "["
    BY <1>1 DEF IsName, Free
<1> QED
    BY <1>1, <1>2, <1>3

(* What an address in brackets has within them. *)
LEMMA Inner ==
    ASSUME NEW host \in Texts, IsAddress(host)
    PROVE  /\ Len(host) \in Nat /\ Len(host) > 2 /\ host[1] = "[" /\ host[Len(host)] = "]"
           /\ Bared(host) = SubSeq(host, 2, Len(host) - 1)
           /\ Bared(host) \in Texts /\ Len(Bared(host)) = Len(host) - 2
           /\ \A i \in 1..Len(host) - 2 : Bared(host)[i] = host[i + 1]
           /\ \E i \in 1..Len(host) - 2 : Bared(host)[i] = ":"
<1> DEFINE n == Len(host)
           x == SubSeq(host, 2, n - 1)
<1>1. n \in Nat /\ n > 2 /\ Head(host) = "[" /\ host[n] = "]"
    BY LenProperties DEF IsAddress, Texts
<1>2. host[1] = "["
  <2>1. host # << >>
      BY <1>1
  <2> QED
      BY <1>1, <2>1, HeadTailProperties DEF Texts
<1>3. Bared(host) = x
    BY <1>1 DEF Bared
<1>4. x \in Seq(Token) /\ Len(x) = n - 2 /\ \A i \in 1..n - 2 : x[i] = host[i + 1]
  <2>1. \A i \in 1..n : host[i] \in Token
      BY ElementOfSeq DEF Texts
  <2>2. \A i \in 2..n - 1 : host[i] \in Token
      BY <1>1, <2>1
  <2>3. host \in Seq(Token) /\ 2 \in 1..n + 1 /\ n - 1 \in 2 - 1..n
      BY <1>1 DEF Texts
  <2> HIDE DEF n
  <2>4. /\ x \in Seq(Token)
        /\ Len(x) = IF 2 <= n - 1 THEN (n - 1) - 2 + 1 ELSE 0
        /\ \A i \in 1..(n - 1) - 2 + 1 : x[i] = host[2 + i - 1]
      BY <2>3, SubSeqProperties DEF n
  <2>5. (n - 1) - 2 + 1 = n - 2 /\ \A i \in 1..n - 2 : 2 + i - 1 = i + 1
      BY <1>1
  <2> QED
      BY <1>1, <2>4, <2>5
<1>5. PICK k \in 2..n - 1 : host[k] = ":"
    BY DEF IsAddress
<1> HIDE DEF n, x
<1>6. k - 1 \in 1..n - 2 /\ (k - 1) + 1 = k
    BY <1>1, <1>5
<1>7. x[k - 1] = ":"
    BY <1>4, <1>5, <1>6
<1>8. \E i \in 1..n - 2 : x[i] = ":"
    BY <1>6, <1>7
<1> QED
    BY <1>1, <1>2, <1>3, <1>4, <1>8 DEF n, x, Texts

(* A pool's own host has no brackets. *)
LEMMA StripBares ==
    ASSUME NEW host, IsHost(host)
    PROVE  Strip(host) = Bared(host)
<1> DEFINE n == Len(host)
           K == {i \in 1..n : host[i] \notin {"[", "]"}}
<1>1. host \in Texts /\ (IsName(host) \/ IsAddress(host))
    BY DEF IsHost
<1>2. Strip(host) = IF K = {} THEN << >> ELSE SubSeq(host, Min(K), Max(K))
    BY DEF Strip
<1>3. ASSUME NEW a \in K, NEW b \in K, \A i \in K : a <= i /\ i <= b,
             \A i \in K : i \in Int
      PROVE  Strip(host) = SubSeq(host, a, b)
  <2> HIDE DEF K
  <2>1. Min(K) \in K /\ \A i \in K : Min(K) <= i
      BY <1>3 DEF Min
  <2>2. Max(K) \in K /\ \A i \in K : Max(K) >= i
      BY <1>3 DEF Max
  <2> DEFINE x == Min(K)
             y == Max(K)
  <2>3. /\ x \in K /\ \A i \in K : x <= i
        /\ y \in K /\ \A i \in K : y >= i
      BY <2>1, <2>2
  <2>4. Strip(host) = SubSeq(host, x, y)
      BY <1>2, <1>3
  <2> HIDE DEF x, y
  <2>5. x = a /\ y = b
    <3>1. x \in Int /\ a \in Int /\ y \in Int /\ b \in Int
        BY <1>3, <2>3
    <3>2. x <= a /\ a <= x /\ y <= b /\ b <= y
        BY <1>3, <2>3
    <3> QED
        BY <3>1, <3>2
  <2> QED
      BY <2>4, <2>5
<1>4. CASE IsName(host)
  <2>1. n \in Nat /\ n >= 1 /\ Head(host) # "["
      BY <1>1, <1>4, NameStarts
  <2>2. K = 1..n
      BY <1>4 DEF IsName, Free
  <2>3. Strip(host) = SubSeq(host, 1, n)
    <3> HIDE DEF n
    <3>1. /\ 1 \in K /\ n \in K /\ \A i \in K : 1 <= i /\ i <= n
          /\ \A i \in K : i \in Int
        BY <2>1, <2>2
    <3> QED
        BY <1>3, <3>1
  <2>4. SubSeq(host, 1, n) = host
    <3> DEFINE x == SubSeq(host, 1, n)
    <3>1. n \in 0..Len(host) /\ host \in Seq(Token)
        BY <1>1, <2>1 DEF Texts
    <3>2. x \in Seq(Token) /\ Len(x) = n /\ \A i \in 1..n : x[i] = host[i]
      <4> HIDE DEF n
      <4> QED
          BY <3>1, FirstPart
    <3> HIDE DEF x
    <3>3. x = host
        BY <3>1, <3>2, SeqEqual
    <3> QED
        BY <3>3 DEF x
  <2> QED
      BY <2>1, <2>3, <2>4 DEF Bared
<1>5. CASE IsAddress(host)
  <2>1. n \in Nat /\ n > 2 /\ host[1] = "[" /\ host[n] = "]"
        /\ Bared(host) = SubSeq(host, 2, n - 1)
      BY <1>1, <1>5, Inner
  <2>2. \A i \in 2..n - 1 : host[i] \notin {"[", "]"}
      BY <1>5 DEF IsAddress
  <2>3. K = 2..n - 1
    <3> HIDE DEF n
    <3>1. \A i \in 1..n : host[i] \notin {"[", "]"} <=> i \in 2..n - 1
        BY <2>1, <2>2
    <3>2. 2..n - 1 \subseteq 1..n
        BY <2>1
    <3> QED
        BY <3>1, <3>2
  <2> HIDE DEF n
  <2>4. /\ 2 \in K /\ n - 1 \in K /\ \A i \in K : 2 <= i /\ i <= n - 1
        /\ \A i \in K : i \in Int
    <3> HIDE DEF K
    <3> QED
        BY <2>1, <2>3
  <2> HIDE DEF K
  <2>5. Strip(host) = SubSeq(host, 2, n - 1)
      BY <1>3, <2>4
  <2> QED
      BY <2>1, <2>5
<1> QED
    BY <1>1, <1>4, <1>5

(* What they name without their brackets tells hosts apart. *)
LEMMA BaredTellApart ==
    ASSUME NEW g, NEW h, IsHost(g), IsHost(h), Bared(g) = Bared(h)
    PROVE  g = h
<1>1. g \in Texts /\ (IsName(g) \/ IsAddress(g)) /\ h \in Texts /\ (IsName(h) \/ IsAddress(h))
    BY DEF IsHost
<1>2. ASSUME NEW x \in Texts, NEW y \in Texts, IsName(x), IsAddress(y)
      PROVE  Bared(x) # Bared(y)
  <2>1. Bared(x) = x
      BY <1>2, NameStarts DEF Bared
  <2>2. Len(Bared(y)) = Len(y) - 2 /\ \E i \in 1..Len(y) - 2 : Bared(y)[i] = ":"
      BY <1>2, Inner
  <2>3. \A i \in 1..Len(x) : x[i] # ":"
      BY <1>2 DEF IsName, Free
  <2> QED
      BY <2>1, <2>2, <2>3
<1>3. CASE IsName(g) /\ IsName(h)
  <2>1. Bared(g) = g /\ Bared(h) = h
      BY <1>1, <1>3, NameStarts DEF Bared
  <2> QED
      BY <2>1
<1>4. CASE IsAddress(g) /\ IsAddress(h)
  <2> DEFINE m == Len(g)
             n == Len(h)
             x == Bared(g)
             y == Bared(h)
  <2>1. /\ m \in Nat /\ m > 2 /\ g[1] = "[" /\ g[m] = "]" /\ Len(x) = m - 2
        /\ \A i \in 1..m - 2 : x[i] = g[i + 1]
      BY <1>1, <1>4, Inner
  <2>2. /\ n \in Nat /\ n > 2 /\ h[1] = "[" /\ h[n] = "]" /\ Len(y) = n - 2
        /\ \A i \in 1..n - 2 : y[i] = h[i + 1]
      BY <1>1, <1>4, Inner
  <2>0. x = y
      OBVIOUS
  <2> HIDE DEF m, n, x, y
  <2>3. m = n
      BY <2>0, <2>1, <2>2
  <2>4. \A i \in 1..m - 2 : g[i + 1] = h[i + 1]
      BY <2>0, <2>1, <2>2, <2>3
  <2>5. ASSUME NEW i \in 1..m PROVE g[i] = h[i]
    <3>1. CASE i \in {1, m}
        BY <2>1, <2>2, <2>3, <3>1
    <3>2. CASE i \notin {1, m}
      <4>1. i - 1 \in 1..m - 2 /\ (i - 1) + 1 = i
          BY <2>1, <3>2
      <4>2. g[(i - 1) + 1] = h[(i - 1) + 1]
          BY <2>4, <4>1
      <4> QED
          BY <4>1, <4>2
    <3> QED
        BY <3>1, <3>2
  <2>6. Len(g) = Len(h) /\ \A i \in 1..Len(g) : g[i] = h[i]
      BY <2>3, <2>5 DEF m, n
  <2> QED
      BY <1>1, <2>6, SeqEqual DEF Texts
<1> QED
    BY <1>1, <1>2, <1>3, <1>4
=============================================================================
