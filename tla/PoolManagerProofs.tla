------------------------- MODULE PoolManagerProofs -------------------------
(***************************************************************************)
(* Proofs about PoolManager, for any number of tasks, hosts and pools and  *)
(* any num_pools, with or without a proxy.                                 *)
(***************************************************************************)
EXTENDS PoolManager, SequenceTheorems, TLAPS

(* Retry objects stay Retry objects. *)
LEMMA IncrementedType ==
    ASSUME NEW r \in Retry, NEW ev \in Events
    PROVE  Incremented(r, ev) \in Retry
<1>1. \A count \in Counter : Decremented(count) \in Counter
    BY RetryConstants DEF Decremented, Counter
<1>2. r.observed + 1 \in Nat
    BY DEF Retry
<1> QED
    BY <1>1, <1>2 DEF Incremented, Retry

(* Retry() of any counters is a Retry. *)
LEMMA NewRetryType ==
    ASSUME NEW total \in Counter, NEW connect \in Counter, NEW read \in Counter,
           NEW redirect \in Counter
    PROVE  NewRetry(total, connect, read, redirect) \in Retry
    BY DEF NewRetry, Retry, Counter

(* from_int makes a Retry of every count, with that count as its total. *)
LEMMA FromIntType ==
    ASSUME NEW count \in Counter, NEW redirect \in BOOLEAN, NEW default \in Retry
    PROVE  FromInt(count, redirect, default) \in Retry
<1>1. {None, Disabled} \subseteq Counter
    BY DEF Counter
<1> QED
    BY <1>1, NewRetryType DEF FromInt

(* The counters of a Retry that is not exhausted are not negative. *)
LEMMA NotExhausted ==
    ASSUME NEW r, ~IsExhausted(r)
    PROVE  /\ r.total \in Int => r.total >= 0
           /\ r.connect \in Int => r.connect >= 0
           /\ r.read \in Int => r.read >= 0
           /\ r.redirect \in Int => r.redirect >= 0
<1>1. \A count \in {r.total, r.connect, r.read, r.redirect} :
          count \in Int => count \notin {None, Disabled} /\ ~(count < 0)
    BY RetryConstants DEF IsExhausted
<1> QED
    BY <1>1

(***************************************************************************)
(* A total that is a number goes down by one with each retry granted, and  *)
(* is not negative then.                                                   *)
(***************************************************************************)
LEMMA GrantTakesTotal ==
    ASSUME NEW r \in Retry, NEW ev \in Events, r.total \in Int, Verdict(r, ev) = "retry"
    PROVE  /\ Incremented(r, ev).total = r.total - 1
           /\ r.total - 1 >= 0
<1>1. Incremented(r, ev).total = Decremented(r.total)
    BY DEF Incremented, Retry
<1>2. Decremented(r.total) = r.total - 1
    BY RetryConstants DEF Decremented
<1>3. ~IsExhausted(Incremented(r, ev))
    BY DEF Verdict
<1> QED
    BY <1>1, <1>2, <1>3, NotExhausted


(***************************************************************************)
(* What __getitem__ does to the order of the entries: those behind the one *)
(* that was found move up, and it goes last.                               *)
(***************************************************************************)
Moved(n, i, k) == IF k < i THEN k ELSE IF k < n THEN k + 1 ELSE i

LEMMA PositionFound ==
    ASSUME NEW dict, NEW key \in KeysOf(dict)
    PROVE  /\ PositionOf(dict, key) \in DOMAIN dict
           /\ dict[PositionOf(dict, key)].key = key
    BY DEF PositionOf, KeysOf

LEMMA GotMoves ==
    ASSUME NEW S, NEW dict \in Seq(S), NEW key \in KeysOf(dict)
    PROVE  /\ Got(dict, key) \in Seq(S)
           /\ Len(Got(dict, key)) = Len(dict)
           /\ \A k \in DOMAIN dict :
                 Got(dict, key)[k] = dict[Moved(Len(dict), PositionOf(dict, key), k)]
<1> DEFINE n == Len(dict)
           p == PositionOf(dict, key)
           front == SubSeq(dict, 1, p - 1)
           back == SubSeq(dict, p + 1, n)
<1>1. n \in Nat /\ DOMAIN dict = 1..n /\ \A k \in 1..n : dict[k] \in S
    BY LenProperties, ElementOfSeq
<1>2. p \in 1..n
    BY <1>1, PositionFound
<1>3. Got(dict, key) = Append(front \o back, dict[p])
    BY DEF Got, RemoveAt
<1> HIDE DEF p, n
<1>4. /\ front \in Seq(S) /\ Len(front) = p - 1
      /\ \A k \in 1..p-1 : front[k] = dict[k]
  <2>1. \A k \in 1..p-1 : dict[k] \in S
      BY <1>1, <1>2
  <2> QED
      BY <2>1, <1>2, SubSeqProperties
<1>5. /\ back \in Seq(S) /\ Len(back) = n - p
      /\ \A k \in 1..n-p : back[k] = dict[p + k]
  <2>1. \A k \in p+1..n : dict[k] \in S
      BY <1>1, <1>2
  <2>2. /\ back \in Seq(S) /\ Len(back) = IF p + 1 <= n THEN n - (p + 1) + 1 ELSE 0
        /\ \A k \in 1 .. n - (p + 1) + 1 : back[k] = dict[(p + 1) + k - 1]
      BY <2>1, <1>1, <1>2, SubSeqProperties
  <2> HIDE DEF back
  <2>3. Len(back) = n - p
      BY <2>2, <1>1, <1>2
  <2>4. ASSUME NEW k \in 1..n-p PROVE back[k] = dict[p + k]
    <3>1. k \in 1 .. n - (p + 1) + 1 /\ (p + 1) + k - 1 = p + k
        BY <1>1, <1>2
    <3> QED
        BY <3>1, <2>2
  <2> QED
      BY <2>2, <2>3, <2>4
<1> HIDE DEF front, back
<1> DEFINE rest == front \o back
<1>6. /\ rest \in Seq(S) /\ Len(rest) = n - 1
      /\ \A k \in 1..n-1 : rest[k] = IF k < p THEN dict[k] ELSE dict[k + 1]
  <2>0. /\ rest \in Seq(S) /\ Len(rest) = Len(front) + Len(back)
        /\ \A k \in 1..Len(front) + Len(back) :
              rest[k] = IF k <= Len(front) THEN front[k] ELSE back[k - Len(front)]
      BY <1>4, <1>5, ConcatProperties
  <2>1. /\ rest \in Seq(S) /\ Len(rest) = (p - 1) + (n - p)
        /\ \A k \in 1..(p - 1) + (n - p) :
              rest[k] = IF k <= p - 1 THEN front[k] ELSE back[k - (p - 1)]
      BY <2>0, <1>4, <1>5
  <2> HIDE DEF rest
  <2>2. (p - 1) + (n - p) = n - 1
      BY <1>1, <1>2
  <2>3. ASSUME NEW k \in 1..n-1
        PROVE  rest[k] = IF k < p THEN dict[k] ELSE dict[k + 1]
    <3>1. CASE k < p
        BY <3>1, <2>1, <2>2, <1>1, <1>2, <1>4
    <3>2. CASE ~(k < p)
      <4>1. k - (p - 1) \in 1..n-p /\ p + (k - (p - 1)) = k + 1
          BY <3>2, <1>1, <1>2
      <4>2. rest[k] = back[k - (p - 1)]
          BY <3>2, <2>1, <2>2, <1>1, <1>2
      <4> QED
          BY <3>2, <4>1, <4>2, <1>5
    <3> QED
        BY <3>1, <3>2
  <2> QED
      BY <2>1, <2>2, <2>3
<1> HIDE DEF rest
<1>7. /\ Append(rest, dict[p]) \in Seq(S) /\ Len(Append(rest, dict[p])) = n
      /\ \A k \in 1..n-1 : Append(rest, dict[p])[k] = rest[k]
      /\ Append(rest, dict[p])[n] = dict[p]
    BY <1>1, <1>2, <1>6, AppendProperties
<1>8. \A k \in 1..n : Append(rest, dict[p])[k] = dict[Moved(n, p, k)]
  <2>1. \A k \in 1..n-1 : Append(rest, dict[p])[k] = dict[Moved(n, p, k)]
      BY <1>1, <1>2, <1>6, <1>7 DEF Moved
  <2>2. Moved(n, p, n) = p
      BY <1>1, <1>2 DEF Moved
  <2> QED
      BY <2>1, <2>2, <1>1, <1>7
<1> QED
    BY <1>1, <1>3, <1>7, <1>8 DEF p, n, rest

(* Moving is a permutation of the places. *)
LEMMA MovedPermutes ==
    ASSUME NEW n \in Nat, NEW i \in 1..n
    PROVE  /\ \A k \in 1..n : Moved(n, i, k) \in 1..n
           /\ \A k, l \in 1..n : Moved(n, i, k) = Moved(n, i, l) => k = l
           /\ \A l \in 1..n : \E k \in 1..n : Moved(n, i, k) = l
<1>1. ASSUME NEW l \in 1..n
      PROVE  \E k \in 1..n : Moved(n, i, k) = l
  <2>1. CASE l < i
      BY <2>1 DEF Moved
  <2>2. CASE l = i
    <3>1. Moved(n, i, n) = l /\ n \in 1..n
        BY <2>2 DEF Moved
    <3> QED
        BY <3>1
  <2>3. CASE l > i
    <3>1. Moved(n, i, l - 1) = l /\ l - 1 \in 1..n
        BY <2>3 DEF Moved
    <3> QED
        BY <3>1
  <2> QED
      BY <2>1, <2>2, <2>3
<1>2. \A k \in 1..n : Moved(n, i, k) \in 1..n
    BY DEF Moved
<1>3. \A k, l \in 1..n : Moved(n, i, k) = Moved(n, i, l) => k = l
    BY DEF Moved
<1> QED
    BY <1>1, <1>2, <1>3

(* No key and no value is twice in the container. *)
Distinct(dict) ==
    \A i, j \in DOMAIN dict : dict[i].key = dict[j].key \/ dict[i].value = dict[j].value => i = j

LEMMA EntriesOf ==
    ASSUME NEW a, NEW b, \A k \in DOMAIN a : \E l \in DOMAIN b : a[k] = b[l]
    PROVE  KeysOf(a) \subseteq KeysOf(b) /\ ValuesOf(a) \subseteq ValuesOf(b)
<1>1. KeysOf(a) \subseteq KeysOf(b)
    BY DEF KeysOf
<1>2. ValuesOf(a) \subseteq ValuesOf(b)
    BY DEF ValuesOf
<1> QED
    BY <1>1, <1>2

(***************************************************************************)
(* __getitem__ changes nothing but the order.                              *)
(***************************************************************************)
LEMMA GotKeeps ==
    ASSUME NEW S, NEW dict \in Seq(S), NEW key \in KeysOf(dict)
    PROVE  /\ KeysOf(Got(dict, key)) = KeysOf(dict)
           /\ ValuesOf(Got(dict, key)) = ValuesOf(dict)
           /\ Distinct(dict) => Distinct(Got(dict, key))
<1> DEFINE i == PositionOf(dict, key)
           n == Len(dict)
           got == Got(dict, key)
<1>1. n \in Nat /\ DOMAIN dict = 1..n /\ i \in 1..n
    BY PositionFound, LenProperties
<1>2. DOMAIN got = 1..n /\ \A k \in 1..n : got[k] = dict[Moved(n, i, k)]
    BY <1>1, GotMoves, LenProperties
<1> HIDE DEF i, n, got
<1>3. /\ \A k \in 1..n : Moved(n, i, k) \in 1..n
      /\ \A k, l \in 1..n : Moved(n, i, k) = Moved(n, i, l) => k = l
      /\ \A l \in 1..n : \E k \in 1..n : Moved(n, i, k) = l
    BY <1>1, MovedPermutes
<1>4. \A k \in DOMAIN got : \E l \in DOMAIN dict : got[k] = dict[l]
    BY <1>1, <1>2, <1>3
<1>5. \A l \in DOMAIN dict : \E k \in DOMAIN got : got[k] = dict[l]
    BY <1>1, <1>2, <1>3
<1>6. KeysOf(got) = KeysOf(dict) /\ ValuesOf(got) = ValuesOf(dict)
  <2>1. KeysOf(got) \subseteq KeysOf(dict) /\ ValuesOf(got) \subseteq ValuesOf(dict)
      BY <1>4, EntriesOf
  <2>2. KeysOf(dict) \subseteq KeysOf(got) /\ ValuesOf(dict) \subseteq ValuesOf(got)
      BY <1>5, EntriesOf
  <2> QED
      BY <2>1, <2>2
<1>7. ASSUME Distinct(dict) PROVE Distinct(got)
  <2> SUFFICES ASSUME NEW k \in 1..n, NEW l \in 1..n,
                      got[k].key = got[l].key \/ got[k].value = got[l].value
               PROVE  k = l
      BY <1>2, Zenon DEF Distinct
  <2>1. Moved(n, i, k) \in DOMAIN dict /\ Moved(n, i, l) \in DOMAIN dict
        /\ got[k] = dict[Moved(n, i, k)] /\ got[l] = dict[Moved(n, i, l)]
      BY <1>1, <1>2, <1>3
  <2>2. Moved(n, i, k) = Moved(n, i, l)
      BY <2>1, <1>7, Zenon DEF Distinct
  <2> QED
      BY <2>2, <1>3
<1> QED
    BY <1>6, <1>7 DEF got

(***************************************************************************)
(* What __setitem__ does for a new key, in a container that is not over    *)
(* its limit: the entry joins the line, and the head of the line goes if   *)
(* it has become too long.                                                 *)
(***************************************************************************)
Line(dict, entry, k) == IF k <= Len(dict) THEN dict[k] ELSE entry

LEMMA SetItemMoves ==
    ASSUME NEW S, NEW dict \in Seq(S), NEW key, NEW value, NEW maxsize \in Nat,
           Entry(key, value) \in S, key \notin KeysOf(dict), Len(dict) <= maxsize,
           NEW stored, stored = SetItem(dict, key, value, maxsize)
    PROVE  \E over \in {0, 1} :
               /\ stored.left \in Seq(S)
               /\ Len(stored.left) = Len(dict) + 1 - over
               /\ Len(stored.left) <= maxsize
               /\ \A k \in DOMAIN stored.left :
                     stored.left[k] = Line(dict, Entry(key, value), k + over)
               /\ over = 0 => stored.disposed = {}
               /\ over = 1 => stored.disposed = {Line(dict, Entry(key, value), 1).value}
<1> DEFINE entry == Entry(key, value)
           added == Append(dict, entry)
           n == Len(dict)
<1>1. n \in Nat /\ n <= maxsize
    BY LenProperties
<1>2. /\ added \in Seq(S) /\ added # << >> /\ Len(added) = n + 1
      /\ \A k \in 1..n+1 : added[k] = Line(dict, entry, k)
    BY AppendProperties, LenProperties DEF Line
<1>3. stored = IF Len(added) > maxsize
               THEN [left |-> Tail(added), disposed |-> {Head(added).value}]
               ELSE [left |-> added, disposed |-> {}]
    BY DEF SetItem
<1> HIDE DEF added, entry, n
<1>4. CASE n < maxsize
  <2>1. stored.left = added /\ stored.disposed = {}
      BY <1>1, <1>2, <1>3, <1>4
  <2>2. DOMAIN added = 1..n+1
      BY <1>2, LenProperties
  <2>3. /\ Len(stored.left) = n + 1 - 0 /\ Len(stored.left) <= maxsize
        /\ \A k \in DOMAIN stored.left : k + 0 = k /\ stored.left[k] = Line(dict, entry, k)
      BY <2>1, <2>2, <1>1, <1>2, <1>4
  <2> WITNESS 0 \in {0, 1}
  <2> QED
      BY <2>1, <2>3, <1>2 DEF entry, n
<1>5. CASE n >= maxsize
  <2>1. stored.left = Tail(added) /\ stored.disposed = {Head(added).value}
      BY <1>1, <1>2, <1>3, <1>5
  <2>2. /\ Tail(added) \in Seq(S) /\ Len(Tail(added)) = n
        /\ \A k \in 1..n : Tail(added)[k] = added[k + 1]
      BY <1>1, <1>2, HeadTailProperties
  <2>3. Head(added) = Line(dict, entry, 1)
      BY <1>1, <1>2
  <2>4. DOMAIN Tail(added) = 1..n
      BY <2>2, LenProperties
  <2>5. \A k \in 1..n : Tail(added)[k] = Line(dict, entry, k + 1)
      BY <2>2, <1>1, <1>2
  <2>6. Len(stored.left) = n + 1 - 1 /\ Len(stored.left) <= maxsize
      BY <2>1, <2>2, <1>1, <1>5
  <2> WITNESS 1 \in {0, 1}
  <2> QED
      BY <2>1, <2>2, <2>3, <2>4, <2>5, <2>6 DEF entry, n
<1> QED
    BY <1>1, <1>4, <1>5

(***************************************************************************)
(* Of the entries and the new one, each stays or is disposed of, not both. *)
(***************************************************************************)
LEMMA SetItemKeeps ==
    ASSUME NEW S, NEW dict \in Seq(S), NEW key, NEW value, NEW maxsize \in Nat,
           Entry(key, value) \in S, key \notin KeysOf(dict), Len(dict) <= maxsize,
           Distinct(dict), value \notin ValuesOf(dict),
           NEW stored, stored = SetItem(dict, key, value, maxsize)
    PROVE  /\ Distinct(stored.left)
           /\ ValuesOf(dict) \cup {value} = ValuesOf(stored.left) \cup stored.disposed
           /\ stored.disposed \cap ValuesOf(stored.left) = {}
<1> DEFINE entry == Entry(key, value)
           n == Len(dict)
           left == stored.left
           line(k) == Line(dict, entry, k)
<1>1. n \in Nat /\ DOMAIN dict = 1..n
    BY LenProperties
<1>2. PICK over \in {0, 1} :
               /\ left \in Seq(S) /\ Len(left) = n + 1 - over
               /\ \A k \in DOMAIN left : left[k] = line(k + over)
               /\ over = 0 => stored.disposed = {}
               /\ over = 1 => stored.disposed = {line(1).value}
    BY SetItemMoves
<1>3. DOMAIN left = 1 .. n + 1 - over
    BY <1>2, LenProperties
<1>4. entry.key = key /\ entry.value = value
    BY DEF Entry
<1>5. /\ \A k \in 1..n : line(k) = dict[k]
      /\ line(n + 1) = entry
    BY <1>1 DEF Line
<1> HIDE DEF entry, n, left, line
<1>6. ASSUME NEW k \in 1..n+1, NEW l \in 1..n+1,
             line(k).key = line(l).key \/ line(k).value = line(l).value
      PROVE  k = l
  <2>1. \A m \in 1..n : dict[m].key # key /\ dict[m].value # value
      BY <1>1 DEF KeysOf, ValuesOf
  <2>2. \A i, j \in 1..n :
            dict[i].key = dict[j].key \/ dict[i].value = dict[j].value => i = j
      BY <1>1 DEF Distinct
  <2>3. CASE k \in 1..n /\ l \in 1..n
      BY <2>2, <2>3, <1>5, <1>6
  <2>4. CASE k = n + 1 /\ l \in 1..n
      BY <2>1, <2>4, <1>4, <1>5, <1>6
  <2>5. CASE k \in 1..n /\ l = n + 1
      BY <2>1, <2>5, <1>4, <1>5, <1>6
  <2> QED
      BY <2>3, <2>4, <2>5, <1>1
<1>7. Distinct(left)
  <2> SUFFICES ASSUME NEW k \in DOMAIN left, NEW l \in DOMAIN left,
                      left[k].key = left[l].key \/ left[k].value = left[l].value
               PROVE  k = l
      BY DEF Distinct
  <2>1. k + over \in 1..n+1 /\ l + over \in 1..n+1
      BY <1>1, <1>3
  <2>2. k + over = l + over
      BY <2>1, <1>2, <1>6
  <2> QED
      BY <2>2, <1>1, <1>3
<1>8. ValuesOf(left) = {line(k).value : k \in 1+over..n+1}
  <2>1. \A k \in DOMAIN left : k + over \in 1+over..n+1
      BY <1>1, <1>3
  <2>2. \A k \in 1+over..n+1 : k - over \in DOMAIN left /\ (k - over) + over = k
      BY <1>1, <1>3
  <2>3. \A k \in 1+over..n+1 : left[k - over].value = line(k).value
      BY <2>2, <1>2
  <2> QED
    <3>1. ASSUME NEW k \in DOMAIN left
          PROVE  \E l \in 1+over..n+1 : left[k].value = line(l).value
        BY <2>1, <1>2
    <3>2. ASSUME NEW l \in 1+over..n+1
          PROVE  \E k \in DOMAIN left : left[k].value = line(l).value
        BY <2>2, <2>3
    <3>3. ValuesOf(left) = {left[k].value : k \in DOMAIN left}
        BY DEF ValuesOf
    <3> QED
        BY <3>1, <3>2, <3>3
<1>9. ValuesOf(dict) \cup {value} = {line(k).value : k \in 1..n+1}
  <2>1. ValuesOf(dict) = {line(k).value : k \in 1..n}
      BY <1>1, <1>5 DEF ValuesOf
  <2>2. 1..n+1 = 1..n \cup {n + 1}
      BY <1>1
  <2> QED
      BY <2>1, <2>2, <1>4, <1>5
<1>10. ValuesOf(dict) \cup {value} = ValuesOf(left) \cup stored.disposed
  <2>1. CASE over = 0
      BY <2>1, <1>1, <1>2, <1>8, <1>9
  <2>2. CASE over = 1
    <3>1. 1..n+1 = 1+over..n+1 \cup {1}
        BY <2>2, <1>1
    <3> QED
        BY <2>2, <3>1, <1>2, <1>8, <1>9
  <2> QED
      BY <2>1, <2>2, <1>3
<1>11. stored.disposed \cap ValuesOf(left) = {}
  <2>1. CASE over = 0
      BY <2>1, <1>2
  <2>2. CASE over = 1
    <3>1. \A k \in 1+over..n+1 : k \in 1..n+1 /\ k # 1
        BY <2>2, <1>1
    <3>2. 1 \in 1..n+1
        BY <1>1
    <3>3. \A k \in 1+over..n+1 : line(k).value # line(1).value
        BY <3>1, <3>2, <1>6
    <3> QED
        BY <2>2, <3>3, <1>2, <1>8
  <2> QED
      BY <2>1, <2>2, <1>3
<1> QED
    BY <1>7, <1>10, <1>11 DEF left

-----------------------------------------------------------------------------
(***************************************************************************)
(* Type correctness.  That __setitem__ meets no container over its limit   *)
(* is Capacity, and that a pool that _new_pool returns is not in the       *)
(* container is what Fresh says.                                           *)
(***************************************************************************)
Entries == [key : Keys, value : Pools]

Calls == [at : Places, host : Keys, pool : Pools \cup {NoPool}, retries : RetriesArg,
          attempt : Retry, passed : RetriesArg, hops : 0..HopBound]

LEMMA DefaultRetryType == DefaultRetry \in Retry
<1>1. 3 \in Counter /\ None \in Counter
    BY DEF Counter
<1> QED
    BY <1>1, NewRetryType DEF DefaultRetry

LEMMA AsRetryType ==
    ASSUME NEW arg \in RetriesArg, NEW redirect \in BOOLEAN
    PROVE  AsRetry(arg, redirect) \in Retry
<1>1. DefaultRetry \in Retry
    BY DefaultRetryType
<1>2. CASE arg.given = "retry"
    BY <1>2 DEF AsRetry, RetriesArg
<1>3. CASE arg.given # "retry"
  <2>1. arg.count \in Counter
      BY <1>3 DEF RetriesArg
  <2> QED
      BY <1>1, <1>3, <2>1, FromIntType DEF AsRetry
<1> QED
    BY <1>2, <1>3

LEMMA NewCallType ==
    ASSUME NEW h \in Keys, NEW arg \in RetriesArg
    PROVE  NewCall(h, arg) \in Calls /\ NewCall(h, arg).pool = NoPool
<1>1. DefaultRetry \in Retry
    BY DefaultRetryType
<1>2. 0 \in 0..HopBound
    BY ManagerConstants
<1> QED
    BY <1>1, <1>2 DEF NewCall, Calls, Places

LEMMA NoCallType == NoCall \in Calls /\ NoCall.pool = NoPool /\ NoCall.at = "idle"
<1>1. ProxyHost \in Keys /\ CountArg(None) \in RetriesArg
    BY DEF Keys, CountArg, RetriesArg, Counter
<1>2. NewCall(ProxyHost, CountArg(None)) \in Calls
    BY <1>1, NewCallType
<1> QED
    BY <1>2 DEF NoCall, NewCall, Calls, Places

LEMMA KeyOfType == ASSUME NEW h \in Keys PROVE KeyOf(h) \in Keys
    BY DEF KeyOf, Keys

(* The part of TypeOK that is about the tasks. *)
CallsOK ==
    /\ call \in [Tasks -> Calls]
    /\ \A t \in Tasks : (call[t].pool # NoPool) = (call[t].at \in {"called", "flight"})

LEMMA EndedType ==
    ASSUME CallsOK, NEW t \in Tasks, Ended(t)
    PROVE  CallsOK'
    BY NoCallType DEF CallsOK, Ended

LEMMA CallType ==
    ASSUME CallsOK, NEW t \in Tasks, NEW p \in Pools, Call(t, p)
    PROVE  CallsOK'
<1> DEFINE attempt == AsRetry(call[t].retries, FALSE)
<1>1. attempt \in Retry
    BY AsRetryType DEF CallsOK, Calls
<1> DEFINE called == [call[t] EXCEPT !.pool = p, !.attempt = attempt, !.at = "called"]
<1>2. call' = [call EXCEPT ![t] = called]
    BY DEF Call, CallsOK
<1> HIDE DEF attempt
<1>3. called \in Calls /\ called.pool = p /\ called.at = "called"
    BY <1>1 DEF CallsOK, Calls, Places
<1>4. p # NoPool
    BY ManagerConstants
<1> HIDE DEF called
<1> QED
    BY <1>2, <1>3, <1>4 DEF CallsOK

LEMMA StepCallType ==
    ASSUME CallsOK, NEW t \in Tasks,
           \/ Enter(t)
           \/ Respond(t)
           \/ \E ev \in ErrorEvents \cup {"status"} : Fail(t, ev)
           \/ \E h \in Hosts : Redirect(t, h)
           \/ \E h \in Hosts, arg \in RetriesArgs : Request(t, h, arg)
    PROVE  CallsOK'
<1>1. CASE Enter(t)
    BY <1>1, EndedType DEF Enter, CallsOK, Calls, Places, At
<1>2. CASE Respond(t)
    BY <1>2, EndedType DEF Respond
<1>3. ASSUME NEW ev \in ErrorEvents \cup {"status"}, Fail(t, ev) PROVE CallsOK'
  <2>1. Incremented(call[t].attempt, ev) \in Retry
      BY IncrementedType DEF CallsOK, Calls, Events
  <2> QED
      BY <1>3, <2>1, EndedType DEF Fail, CallsOK, Calls, Places, At
<1>4. ASSUME NEW h \in Hosts, Redirect(t, h) PROVE CallsOK'
  <2> DEFINE given == AsRetry(call[t].retries, TRUE)
             next == Incremented(given, "status")
             new == NewCall(h, RetryArg(next))
  <2>1. next \in Retry
      BY AsRetryType, IncrementedType DEF CallsOK, Calls, Events
  <2>2. new \in Calls /\ new.pool = NoPool /\ new.at = "opening"
    <3>1. h \in Keys /\ RetryArg(next) \in RetriesArg
        BY <2>1 DEF Keys, RetryArg, RetriesArg
    <3>2. new.at = "opening"
        BY DEF NewCall
    <3> QED
        BY <3>1, <3>2, NewCallType
  <2> HIDE DEF new
  <2> DEFINE more == IF call[t].hops < HopBound THEN call[t].hops + 1 ELSE HopBound
  <2>3. more \in 0..HopBound
      BY ManagerConstants DEF CallsOK, Calls
  <2> HIDE DEF more
  <2>4. CASE call' = [call EXCEPT ![t] = [new EXCEPT !.passed = call[t].passed,
                                                     !.hops = more]]
    <3> DEFINE replaced == [new EXCEPT !.passed = call[t].passed, !.hops = more]
    <3>1. replaced \in Calls /\ replaced.pool = NoPool /\ replaced.at = "opening"
        BY <2>2, <2>3 DEF CallsOK, Calls
    <3>2. call' = [call EXCEPT ![t] = replaced]
        BY <2>4
    <3> HIDE DEF replaced
    <3> QED
        BY <3>1, <3>2 DEF CallsOK
  <2> QED
      BY <1>4, <2>4, EndedType DEF Redirect, new, more
<1>5. ASSUME NEW h \in Hosts, NEW arg \in RetriesArgs, Request(t, h, arg) PROVE CallsOK'
  <2>1. NewCall(h, arg) \in Calls /\ NewCall(h, arg).pool = NoPool
      BY ManagerConstants, NewCallType DEF Keys
  <2>2. NewCall(h, arg).at = "opening"
      BY DEF NewCall
  <2> QED
      BY <1>5, <2>1, <2>2 DEF Request, CallsOK
<1> QED
    BY <1>1, <1>2, <1>3, <1>4, <1>5

(***************************************************************************)
(* What making a pool does to the container, whatever becomes of the       *)
(* request: the new pool is a fresh one, under the key of the URL's host.  *)
(***************************************************************************)
LEMMA MakeStores ==
    ASSUME TypeOK, Capacity, NEW t \in Tasks, Make(t)
    PROVE  \E new \in Fresh :
               LET key    == KeyOf(call[t].host)
                   stored == SetItem(pools, key, new, NumPools)
               IN  /\ key \in Keys \ KeysOf(pools) /\ new \in Pools \ ValuesOf(pools)
                   /\ Entry(key, new) \in Entries
                   /\ pools' = stored.left
                   /\ status' = [p \in Pools |->
                                    IF p \in stored.disposed THEN "closed"
                                    ELSE [status EXCEPT ![new] = "open"][p]]
                   /\ Call(t, new) \/ Ended(t)
                   /\ Looked(key)
<1> DEFINE key == KeyOf(call[t].host)
<1>1. key \in Keys
    BY KeyOfType DEF TypeOK
<1>2. PICK new \in Fresh :
               LET stored == SetItem(pools, key, new, NumPools)
               IN  /\ pools' = stored.left
                   /\ status' = [p \in Pools |->
                                    IF p \in stored.disposed THEN "closed"
                                    ELSE [status EXCEPT ![new] = "open"][p]]
                   /\ Call(t, new) \/ Ended(t)
    BY DEF Make
<1>3. key \notin KeysOf(pools) /\ Looked(key)
    BY DEF Make
<1>4. new \in Pools \ ValuesOf(pools)
    BY DEF Fresh
<1>5. Entry(key, new) \in Entries
    BY <1>1, <1>4 DEF Entry, Entries
<1> HIDE DEF key
<1> QED
    BY <1>1, <1>2, <1>3, <1>4, <1>5 DEF key

(* What Find does to the container. *)
LEMMA FindGets ==
    ASSUME TypeOK, NEW t \in Tasks, Find(t)
    PROVE  \E key \in Keys :
               /\ key \in KeysOf(pools)
               /\ pools' = Got(pools, key)
               /\ Looked(key)
               /\ \E p \in ValuesOf(pools) : Call(t, p)
<1>1. KeyOf(call[t].host) \in Keys
    BY KeyOfType DEF TypeOK
<1>2. \A key \in KeysOf(pools) : ValueAt(pools, key) \in ValuesOf(pools)
    BY PositionFound DEF ValueAt, ValuesOf
<1> QED
    BY <1>1, <1>2 DEF Find

(* The part of TypeOK, with Capacity, that is about the container. *)
PoolsOK == pools \in Seq(Entries) /\ Distinct(pools) /\ Len(pools) <= NumPools

LEMMA TypeParts ==
    TypeOK /\ Capacity <=> /\ PoolsOK
                           /\ status \in [Pools -> {"open", "closed", "shut"}]
                           /\ CallsOK
                           /\ since \in [Keys -> SUBSET Keys]
    BY DEF TypeOK, Capacity, PoolsOK, CallsOK, Calls, Entries, Distinct

LEMMA ValuesInPools ==
    ASSUME NEW dict \in Seq(Entries)
    PROVE  ValuesOf(dict) \subseteq Pools
<1>1. \A i \in DOMAIN dict : dict[i] \in Entries
    BY ElementOfSeq, LenProperties
<1> QED
    BY <1>1 DEF ValuesOf, Entries

LEMMA LookedType ==
    ASSUME NEW key \in Keys, since \in [Keys -> SUBSET Keys], Looked(key)
    PROVE  since' \in [Keys -> SUBSET Keys]
    BY DEF Looked

LEMMA TypeStep == TypeOK /\ Capacity /\ [Next]_vars => TypeOK' /\ Capacity'
<1> SUFFICES ASSUME TypeOK, Capacity, [Next]_vars
             PROVE  /\ PoolsOK'
                    /\ status' \in [Pools -> {"open", "closed", "shut"}]
                    /\ CallsOK'
                    /\ since' \in [Keys -> SUBSET Keys]
    BY DEF TypeOK, Capacity, PoolsOK, CallsOK, Calls, Entries, Distinct
<1>0. /\ PoolsOK /\ CallsOK
      /\ status \in [Pools -> {"open", "closed", "shut"}] /\ since \in [Keys -> SUBSET Keys]
    BY TypeParts
<1>1. ASSUME UNCHANGED pools PROVE PoolsOK'
    BY <1>0, <1>1 DEF PoolsOK
<1>2. ASSUME UNCHANGED call PROVE CallsOK'
    BY <1>0, <1>2 DEF CallsOK
<1>a. CASE \E t \in Tasks : \/ Enter(t) \/ Respond(t)
                            \/ \E ev \in ErrorEvents \cup {"status"} : Fail(t, ev)
                            \/ \E h \in Hosts : Redirect(t, h)
                            \/ \E h \in Hosts, arg \in RetriesArgs : Request(t, h, arg)
  <2>1. UNCHANGED managerVars
      BY <1>a DEF Enter, Respond, Fail, Redirect, Request
  <2>2. CallsOK'
      BY <1>a, <1>0, StepCallType
  <2> QED
      BY <2>1, <2>2, <1>0, <1>1 DEF managerVars
<1>b. ASSUME NEW t \in Tasks, Find(t)
      PROVE  /\ PoolsOK' /\ CallsOK' /\ since' \in [Keys -> SUBSET Keys] /\ UNCHANGED status
  <2>1. PICK key \in Keys : /\ key \in KeysOf(pools) /\ pools' = Got(pools, key)
                            /\ Looked(key) /\ \E p \in ValuesOf(pools) : Call(t, p)
      BY <1>b, FindGets
  <2>2. ValuesOf(pools) \subseteq Pools
      BY <1>0, ValuesInPools DEF PoolsOK
  <2>3. CallsOK'
      BY <2>1, <2>2, <1>0, CallType
  <2>4. PoolsOK'
      BY <2>1, <1>0, GotMoves, GotKeeps DEF PoolsOK
  <2> QED
      BY <2>1, <2>3, <2>4, <1>0, <1>b, LookedType DEF Find
<1>c. ASSUME NEW t \in Tasks, Make(t)
      PROVE  /\ PoolsOK' /\ CallsOK' /\ since' \in [Keys -> SUBSET Keys]
             /\ status' \in [Pools -> {"open", "closed", "shut"}]
  <2> DEFINE key == KeyOf(call[t].host)
  <2>1. PICK new \in Fresh :
            LET stored == SetItem(pools, key, new, NumPools)
            IN  /\ key \in Keys \ KeysOf(pools) /\ new \in Pools \ ValuesOf(pools)
                /\ Entry(key, new) \in Entries
                /\ pools' = stored.left
                /\ status' = [p \in Pools |-> IF p \in stored.disposed THEN "closed"
                                              ELSE [status EXCEPT ![new] = "open"][p]]
                /\ Call(t, new) \/ Ended(t)
                /\ Looked(key)
      BY <1>c, MakeStores
  <2> HIDE DEF key
  <2>2. CallsOK'
      BY <2>1, <1>0, CallType, EndedType
  <2>3. PoolsOK'
    <3>1. NumPools \in Nat
        BY ManagerConstants
    <3> QED
        BY <2>1, <3>1, <1>0, SetItemMoves, SetItemKeeps DEF PoolsOK
  <2>4. status' \in [Pools -> {"open", "closed", "shut"}]
      BY <2>1, <1>0
  <2> QED
      BY <2>1, <2>2, <2>3, <2>4, <1>0, LookedType
<1>d. ASSUME Clear PROVE PoolsOK' /\ status' \in [Pools -> {"open", "closed", "shut"}]
  <2>1. PoolsOK'
      BY <1>d, ManagerConstants, EmptySeq DEF Clear, PoolsOK, Distinct
  <2> QED
      BY <2>1, <1>d, <1>0 DEF Clear
<1>e. ASSUME NEW p \in Pools, Shut(p)
      PROVE  status' \in [Pools -> {"open", "closed", "shut"}]
    BY <1>e, <1>0 DEF Shut
<1>f. CASE Clear
    BY <1>f, <1>d, <1>0, <1>2 DEF Clear
<1>g. CASE \E p \in Pools : Shut(p)
    BY <1>g, <1>e, <1>0, <1>1, <1>2 DEF Shut
<1>h. CASE UNCHANGED vars
    BY <1>h, <1>0, <1>1, <1>2 DEF vars
<1>i. CASE \E t \in Tasks : Find(t) \/ Make(t)
    BY <1>i, <1>0, <1>b, <1>c
<1> QED
    BY <1>a, <1>f, <1>g, <1>h, <1>i DEF Next, Step

LEMMA TypeInit == Init => TypeOK /\ Capacity
<1> SUFFICES ASSUME Init
             PROVE  /\ PoolsOK
                    /\ status \in [Pools -> {"open", "closed", "shut"}]
                    /\ CallsOK
                    /\ since \in [Keys -> SUBSET Keys]
    BY TypeParts
<1>1. PoolsOK
    BY ManagerConstants, EmptySeq DEF Init, PoolsOK, Distinct
<1>2. CallsOK
    BY NoCallType DEF Init, CallsOK
<1> QED
    BY <1>1, <1>2 DEF Init

(***************************************************************************)
(* Every variable keeps its type, and the manager keeps no more pools than *)
(* num_pools: whoever looks up, makes, clears or shuts them, in any order. *)
(***************************************************************************)
THEOREM ManagerTypeCorrect == Spec => [](TypeOK /\ Capacity)
<1>1. TypeOK /\ Capacity /\ [Next]_vars => (TypeOK /\ Capacity)'
    BY TypeStep
<1> QED
    BY <1>1, TypeInit, PTL DEF Spec

(* TypeOK and Capacity are one invariant; this is the part a user sees. *)
THEOREM ManagerCapacity == Spec => []Capacity
    BY ManagerTypeCorrect, PTL

-----------------------------------------------------------------------------
(***************************************************************************)
(* The redirects followed and the total that is left add up to no more     *)
(* than the total the caller allowed.                                      *)
(***************************************************************************)
OnBudget(c) ==
    LET allowed == AsRetry(c.passed, TRUE).total
        left    == AsRetry(c.retries, TRUE).total
    IN  allowed \in Nat => left \in Nat /\ c.hops + left <= allowed

BudgetKept == \A t \in Tasks : OnBudget(call[t])

LEMMA OnBudgetCarries ==
    ASSUME NEW c, NEW d, OnBudget(c), d.passed = c.passed, d.retries = c.retries,
           d.hops = c.hops
    PROVE  OnBudget(d)
    BY DEF OnBudget

LEMMA NewOnBudget ==
    ASSUME NEW h \in Keys, NEW arg \in RetriesArg
    PROVE  OnBudget(NewCall(h, arg))
<1> DEFINE new == NewCall(h, arg)
<1>1. new.passed = arg /\ new.retries = arg /\ new.hops = 0
    BY DEF NewCall
<1> HIDE DEF new
<1>2. OnBudget(new)
  <2> DEFINE total == AsRetry(arg, TRUE).total
  <2> HIDE DEF total
  <2>1. total \in Nat => 0 + total <= total
      OBVIOUS
  <2> QED
      BY <1>1, <2>1 DEF OnBudget, total
<1> QED
    BY <1>2 DEF new

LEMMA NoneOnBudget == OnBudget(NoCall)
<1>1. ProxyHost \in Keys /\ CountArg(None) \in RetriesArg
    BY DEF Keys, CountArg, RetriesArg, Counter
<1> DEFINE new == NewCall(ProxyHost, CountArg(None))
<1>2. OnBudget(new) /\ new \in Calls
    BY <1>1, NewOnBudget, NewCallType
<1>3. NoCall = [new EXCEPT !.at = "idle"]
    BY DEF NoCall
<1> HIDE DEF new
<1>4. NoCall.passed = new.passed /\ NoCall.retries = new.retries /\ NoCall.hops = new.hops
    BY <1>2, <1>3 DEF Calls
<1> QED
    BY <1>2, <1>4, OnBudgetCarries

(* A redirect that is followed costs one of the total that is left. *)
LEMMA RedirectOnBudget ==
    ASSUME CallsOK, NEW t \in Tasks, OnBudget(call[t]), NEW h \in Hosts, Redirect(t, h)
    PROVE  OnBudget(call'[t])
<1> DEFINE given == AsRetry(call[t].retries, TRUE)
           next == Incremented(given, "status")
           new == NewCall(h, RetryArg(next))
           more == IF call[t].hops < HopBound THEN call[t].hops + 1 ELSE HopBound
           replaced == [new EXCEPT !.passed = call[t].passed, !.hops = more]
<1>1. given \in Retry /\ "status" \in Events
    BY AsRetryType DEF CallsOK, Calls, Events
<1>2. /\ next \in Retry
      /\ new \in Calls /\ new.retries = RetryArg(next)
  <2>1. next \in Retry
      BY <1>1, IncrementedType
  <2>2. RetryArg(next) \in RetriesArg /\ h \in Keys
      BY <2>1 DEF RetryArg, RetriesArg, Keys
  <2>3. new.retries = RetryArg(next)
      BY DEF NewCall
  <2> QED
      BY <2>1, <2>2, <2>3, NewCallType
<1>3. AsRetry(RetryArg(next), TRUE) = next
    BY DEF AsRetry, RetryArg
<1>4. \/ Verdict(given, "status") = "retry" /\ call' = [call EXCEPT ![t] = replaced]
      \/ Ended(t)
    BY DEF Redirect
<1>5. call[t].hops \in Nat /\ more <= call[t].hops + 1 /\ more \in Int
    BY ManagerConstants DEF CallsOK, Calls
<1>6. given.total = AsRetry(call[t].retries, TRUE).total
    OBVIOUS
<1>7. given.total \in Nat /\ Verdict(given, "status") = "retry"
      => next.total = given.total - 1 /\ given.total - 1 >= 0
  <2> HIDE DEF given
  <2> QED
      BY <1>1, GrantTakesTotal
<1> HIDE DEF given, next, new, more
<1>8. CASE Verdict(given, "status") = "retry" /\ call' = [call EXCEPT ![t] = replaced]
  <2>1. /\ replaced.passed = call[t].passed /\ replaced.hops = more
        /\ replaced.retries = RetryArg(next)
      BY <1>2 DEF Calls
  <2> HIDE DEF replaced
  <2>2. OnBudget(replaced)
    <3> SUFFICES ASSUME AsRetry(call[t].passed, TRUE).total \in Nat
                 PROVE  /\ next.total \in Nat
                        /\ more + next.total <= AsRetry(call[t].passed, TRUE).total
        BY <2>1, <1>3 DEF OnBudget
    <3>1. given.total \in Nat
          /\ call[t].hops + given.total <= AsRetry(call[t].passed, TRUE).total
        BY <1>6 DEF OnBudget
    <3>2. next.total = given.total - 1 /\ given.total - 1 >= 0
        BY <3>1, <1>7, <1>8
    <3> DEFINE allowed == AsRetry(call[t].passed, TRUE).total
               was == given.total
               is == next.total
               hops == call[t].hops
    <3>3. /\ allowed \in Nat /\ was \in Nat /\ hops \in Nat /\ hops + was <= allowed
          /\ is = was - 1 /\ was - 1 >= 0 /\ more \in Int /\ more <= hops + 1
        BY <3>1, <3>2, <1>5
    <3> HIDE DEF allowed, was, is, hops
    <3>4. is \in Nat /\ more + is <= allowed
        BY <3>3
    <3> QED
        BY <3>4 DEF allowed, is
  <2> QED
      BY <2>2, <1>8 DEF CallsOK
<1>9. CASE Ended(t)
    BY <1>9, NoneOnBudget DEF Ended, CallsOK
<1> QED
    BY <1>4, <1>8, <1>9

LEMMA BudgetStep == TypeOK /\ Capacity /\ BudgetKept /\ [Next]_vars => BudgetKept'
<1> SUFFICES ASSUME TypeOK, Capacity, BudgetKept, [Next]_vars PROVE BudgetKept'
    OBVIOUS
<1>0. CallsOK
    BY TypeParts
<1>1. ASSUME NEW t \in Tasks, NEW new, call' = [call EXCEPT ![t] = new], OnBudget(new)
      PROVE  BudgetKept'
    BY <1>0, <1>1 DEF BudgetKept, CallsOK
<1>2. ASSUME NEW t \in Tasks, Ended(t) PROVE BudgetKept'
    BY <1>1, <1>2, NoneOnBudget DEF Ended
<1>3. ASSUME NEW t \in Tasks, NEW p, Call(t, p) PROVE BudgetKept'
  <2> DEFINE attempt == AsRetry(call[t].retries, FALSE)
             new == [call[t] EXCEPT !.pool = p, !.attempt = attempt, !.at = "called"]
  <2>1. call' = [call EXCEPT ![t] = new]
      BY <1>0, <1>3 DEF Call, CallsOK
  <2>2. new.passed = call[t].passed /\ new.retries = call[t].retries
        /\ new.hops = call[t].hops
      BY <1>0 DEF CallsOK, Calls
  <2> HIDE DEF new
  <2>3. OnBudget(new)
      BY <2>2, OnBudgetCarries DEF BudgetKept
  <2> QED
      BY <2>1, <2>3, <1>1
<1>a. ASSUME NEW t \in Tasks, Find(t) \/ Make(t) PROVE BudgetKept'
    BY <1>a, <1>2, <1>3, FindGets, MakeStores
<1>b. ASSUME NEW t \in Tasks, Enter(t) \/ Respond(t) PROVE BudgetKept'
  <2> DEFINE new == [call[t] EXCEPT !.at = "flight"]
  <2>1. call' = [call EXCEPT ![t] = new] \/ Ended(t)
      BY <1>0, <1>b DEF Enter, Respond, CallsOK
  <2>2. new.passed = call[t].passed /\ new.retries = call[t].retries
        /\ new.hops = call[t].hops
      BY <1>0 DEF CallsOK, Calls
  <2> HIDE DEF new
  <2> QED
      BY <2>1, <2>2, <1>1, <1>2, OnBudgetCarries DEF BudgetKept
<1>c. ASSUME NEW t \in Tasks, NEW ev, Fail(t, ev) PROVE BudgetKept'
  <2> DEFINE attempt == Incremented(call[t].attempt, ev)
             new == [call[t] EXCEPT !.attempt = attempt, !.at = "called"]
  <2>1. call' = [call EXCEPT ![t] = new] \/ Ended(t)
      BY <1>0, <1>c DEF Fail, CallsOK
  <2>2. new.passed = call[t].passed /\ new.retries = call[t].retries
        /\ new.hops = call[t].hops
      BY <1>0 DEF CallsOK, Calls
  <2> HIDE DEF new
  <2> QED
      BY <2>1, <2>2, <1>1, <1>2, OnBudgetCarries DEF BudgetKept
<1>d. ASSUME NEW t \in Tasks, NEW h \in Hosts, Redirect(t, h) PROVE BudgetKept'
  <2>1. OnBudget(call'[t])
      BY <1>0, <1>d, RedirectOnBudget DEF BudgetKept
  <2>2. \A u \in Tasks \ {t} : call'[u] = call[u]
      BY <1>0, <1>d DEF Redirect, Ended, CallsOK
  <2> QED
      BY <2>1, <2>2 DEF BudgetKept
<1>e. ASSUME NEW t \in Tasks, NEW h \in Hosts, NEW arg \in RetriesArgs, Request(t, h, arg)
      PROVE  BudgetKept'
  <2>1. OnBudget(NewCall(h, arg))
      BY ManagerConstants, NewOnBudget DEF Keys
  <2> QED
      BY <2>1, <1>1, <1>e DEF Request
<1>f. ASSUME UNCHANGED call PROVE BudgetKept'
    BY <1>f DEF BudgetKept
<1>g. CASE Clear
    BY <1>f, <1>g DEF Clear
<1>h. CASE \E p \in Pools : Shut(p)
    BY <1>f, <1>h DEF Shut
<1>i. CASE UNCHANGED vars
    BY <1>f, <1>i DEF vars
<1>j. CASE \E t \in Tasks : Step(t)
    BY <1>a, <1>b, <1>c, <1>d, <1>j DEF Step
<1> QED
    BY <1>e, <1>g, <1>h, <1>i, <1>j DEF Next

(***************************************************************************)
(* A request follows no more redirects than its total allows, through any  *)
(* number of hosts and whatever else the manager does in between.          *)
(***************************************************************************)
THEOREM TotalLimitsRedirects == Spec => []RedirectsWithinTotal
<1>1. Init => BudgetKept
    BY NoneOnBudget DEF Init, BudgetKept
<1>2. TypeOK /\ BudgetKept => RedirectsWithinTotal
  <2> SUFFICES ASSUME TypeOK, BudgetKept, NEW t \in Tasks,
                      AsRetry(call[t].passed, TRUE).total \in Nat
               PROVE  call[t].hops <= AsRetry(call[t].passed, TRUE).total
      BY DEF RedirectsWithinTotal
  <2> DEFINE allowed == AsRetry(call[t].passed, TRUE).total
             left == AsRetry(call[t].retries, TRUE).total
             hops == call[t].hops
  <2>1. hops \in Nat
      BY ManagerConstants DEF TypeOK
  <2>2. allowed \in Nat /\ left \in Nat /\ hops + left <= allowed
      BY DEF BudgetKept, OnBudget
  <2> HIDE DEF allowed, left, hops
  <2>3. hops <= allowed
      BY <2>1, <2>2
  <2> QED
      BY <2>3 DEF allowed, hops
<1> QED
    BY <1>1, <1>2, BudgetStep, ManagerTypeCorrect, PTL DEF Spec

-----------------------------------------------------------------------------
(***************************************************************************)
(* The container lists its pools in the order in which they were used.     *)
(***************************************************************************)
InOrderOfUse ==
    \A i, j \in DOMAIN pools :
        i < j => /\ pools[j].key \in since[pools[i].key]
                 /\ pools[i].key \notin since[pools[j].key]

(* A found entry goes to the end of the line, and its key is the last used. *)
LEMMA FindKeepsOrder ==
    ASSUME PoolsOK, since \in [Keys -> SUBSET Keys], InOrderOfUse,
           NEW key \in Keys, key \in KeysOf(pools), pools' = Got(pools, key), Looked(key)
    PROVE  InOrderOfUse'
<1> DEFINE n == Len(pools)
           p == PositionOf(pools, key)
           k(i) == pools[i].key
           m(i) == Moved(n, p, i)
<1>1. n \in Nat /\ DOMAIN pools = 1..n /\ p \in 1..n /\ k(p) = key
    BY PositionFound, LenProperties DEF PoolsOK
<1>2. DOMAIN pools' = 1..n /\ \A i \in 1..n : pools'[i] = pools[m(i)]
    BY <1>1, GotMoves, LenProperties DEF PoolsOK
<1>3. \A i \in 1..n : k(i) \in Keys /\ (k(i) = key => i = p)
  <2>1. \A i \in 1..n : pools[i] \in Entries
      BY <1>1, ElementOfSeq DEF PoolsOK
  <2> QED
      BY <1>1, <2>1 DEF PoolsOK, Distinct, Entries
<1>4. \A i, j \in 1..n : i < j => k(j) \in since[k(i)] /\ k(i) \notin since[k(j)]
    BY <1>1 DEF InOrderOfUse
<1>5. /\ \A h \in Keys \ {key} : since'[h] = since[h] \cup {key}
      /\ since'[key] = {}
    BY DEF Looked
<1>6. ASSUME NEW i \in 1..n, NEW j \in 1..n, i < j
      PROVE  \/ m(j) = p /\ m(i) \in (1..n) \ {p}
             \/ (m(i) < m(j) /\ m(i) \in (1..n) \ {p} /\ m(j) \in (1..n) \ {p})
  <2>1. CASE j = n
      BY <2>1, <1>1, <1>6 DEF Moved
  <2>2. CASE j < n
      BY <2>2, <1>1, <1>6 DEF Moved
  <2> HIDE DEF m, n, p
  <2>3. j = n \/ j < n
      BY <1>1
  <2> QED
      BY <2>1, <2>2, <2>3
<1> HIDE DEF n, p, k, m
<1> SUFFICES ASSUME NEW i \in 1..n, NEW j \in 1..n, i < j
             PROVE  /\ k(m(j)) \in since'[k(m(i))]
                    /\ k(m(i)) \notin since'[k(m(j))]
    BY <1>2 DEF InOrderOfUse, k
<1>7. CASE m(j) = p /\ m(i) \in (1..n) \ {p}
    BY <1>1, <1>3, <1>5, <1>7
<1>8. CASE m(i) < m(j) /\ m(i) \in (1..n) \ {p} /\ m(j) \in (1..n) \ {p}
    BY <1>1, <1>3, <1>4, <1>5, <1>8
<1> QED
    BY <1>6, <1>7, <1>8

(* A new entry is the last in the line, and its key is the last used. *)
LEMMA MakeKeepsOrder ==
    ASSUME PoolsOK, since \in [Keys -> SUBSET Keys], InOrderOfUse,
           NEW key \in Keys \ KeysOf(pools), NEW new \in Pools, Entry(key, new) \in Entries,
           pools' = SetItem(pools, key, new, NumPools).left, Looked(key)
    PROVE  InOrderOfUse'
<1> DEFINE n == Len(pools)
           k(i) == Line(pools, Entry(key, new), i).key
<1>1. n \in Nat /\ DOMAIN pools = 1..n /\ NumPools \in Nat
    BY ManagerConstants, LenProperties DEF PoolsOK
<1>2. PICK over \in {0, 1} :
          /\ pools' \in Seq(Entries) /\ Len(pools') = n + 1 - over
          /\ \A i \in DOMAIN pools' : pools'[i] = Line(pools, Entry(key, new), i + over)
    BY <1>1, SetItemMoves DEF PoolsOK
<1>3. DOMAIN pools' = 1 .. n + 1 - over
    BY <1>2, LenProperties
<1>4. \A i \in 1..n : k(i) = pools[i].key /\ k(i) \in Keys \ {key}
  <2>1. \A i \in 1..n : pools[i] \in Entries
      BY <1>1, ElementOfSeq DEF PoolsOK
  <2> QED
      BY <1>1, <2>1 DEF KeysOf, Entries, Line
<1>5. k(n + 1) = key
    BY <1>1 DEF Line, Entry
<1>6. \A i, j \in 1..n : i < j => k(j) \in since[k(i)] /\ k(i) \notin since[k(j)]
    BY <1>1, <1>4 DEF InOrderOfUse
<1>7. /\ \A h \in Keys \ {key} : since'[h] = since[h] \cup {key}
      /\ since'[key] = {}
    BY DEF Looked
<1>8. \A i \in DOMAIN pools' : pools'[i].key = k(i + over) /\ i + over \in 1..n+1
    BY <1>1, <1>2, <1>3
<1> HIDE DEF n, k
<1> SUFFICES ASSUME NEW i \in 1..n+1, NEW j \in 1..n+1, i < j
             PROVE  /\ k(j) \in since'[k(i)]
                    /\ k(i) \notin since'[k(j)]
  <2>1. \A i, j \in DOMAIN pools' : i < j => i + over < j + over
      BY <1>1, <1>3
  <2> QED
      BY <2>1, <1>8 DEF InOrderOfUse
<1>9. CASE j = n + 1
    BY <1>1, <1>4, <1>5, <1>7, <1>9
<1>10. CASE j \in 1..n
    BY <1>1, <1>4, <1>6, <1>7, <1>10
<1> QED
    BY <1>1, <1>9, <1>10

LEMMA OrderStep == TypeOK /\ Capacity /\ InOrderOfUse /\ [Next]_vars => InOrderOfUse'
<1> SUFFICES ASSUME TypeOK, Capacity, InOrderOfUse, [Next]_vars PROVE InOrderOfUse'
    OBVIOUS
<1>0. PoolsOK /\ since \in [Keys -> SUBSET Keys]
    BY TypeParts
<1>a. ASSUME NEW t \in Tasks, Find(t) PROVE InOrderOfUse'
    BY <1>0, <1>a, FindGets, FindKeepsOrder
<1>b. ASSUME NEW t \in Tasks, Make(t) PROVE InOrderOfUse'
    BY <1>0, <1>b, MakeStores, MakeKeepsOrder
<1>c. CASE Clear
    BY <1>c, EmptySeq DEF Clear, InOrderOfUse
<1>d. CASE UNCHANGED <<pools, since>>
    BY <1>d DEF InOrderOfUse
<1> QED
    BY <1>a, <1>b, <1>c, <1>d
    DEF Next, Step, Enter, Respond, Fail, Redirect, Request, Shut, managerVars, vars

(***************************************************************************)
(* What is evicted for a new pool is the least recently used: every pool   *)
(* that stays has been looked up after it was.                             *)
(***************************************************************************)
THEOREM LeastRecentlyUsedGoes == Spec => EvictsLeastRecentlyUsed
<1> DEFINE Kept == \A gone \in KeysOf(pools) \ KeysOf(pools'), stays \in KeysOf(pools') :
                       stays \in KeysOf(pools) =>
                           stays \in since[gone] /\ gone \notin since[stays]
<1>1. Init => InOrderOfUse
    BY EmptySeq DEF Init, InOrderOfUse
<1>2. TypeOK /\ Capacity /\ InOrderOfUse /\ [Next]_vars => [Kept]_vars
  <2> SUFFICES ASSUME TypeOK, Capacity, InOrderOfUse, Next PROVE Kept
      OBVIOUS
  <2>0. PoolsOK
      BY TypeParts
  <2>a. ASSUME NEW t \in Tasks, Find(t) PROVE Kept
    <3>1. KeysOf(pools') = KeysOf(pools)
        BY <2>0, <2>a, FindGets, GotKeeps DEF PoolsOK
    <3> QED
        BY <3>1
  <2>b. ASSUME NEW t \in Tasks, Make(t) PROVE Kept
    <3> DEFINE key == KeyOf(call[t].host)
               n == Len(pools)
    <3>1. PICK new \in Fresh :
              /\ key \in Keys \ KeysOf(pools) /\ Entry(key, new) \in Entries
              /\ pools' = SetItem(pools, key, new, NumPools).left
        BY <2>b, MakeStores
    <3>2. n \in Nat /\ DOMAIN pools = 1..n /\ NumPools \in Nat
        BY <2>0, ManagerConstants, LenProperties DEF PoolsOK
    <3> HIDE DEF key
    <3>3. PICK over \in {0, 1} :
              /\ pools' \in Seq(Entries) /\ Len(pools') = n + 1 - over
              /\ \A i \in DOMAIN pools' : pools'[i] = Line(pools, Entry(key, new), i + over)
        BY <2>0, <3>1, <3>2, SetItemMoves DEF PoolsOK
    <3>4. DOMAIN pools' = 1 .. n + 1 - over
        BY <3>3, LenProperties
    <3>5. ASSUME NEW i \in 2..n PROVE pools[i].key \in KeysOf(pools')
      <4>1. i - over \in DOMAIN pools' /\ (i - over) + over = i
          BY <3>2, <3>4
      <4>2. pools'[i - over] = pools[i]
          BY <4>1, <3>2, <3>3 DEF Line
      <4> QED
          BY <4>1, <4>2 DEF KeysOf
    <3>6. ASSUME NEW gone \in KeysOf(pools) \ KeysOf(pools'),
                 NEW stays \in KeysOf(pools'), stays \in KeysOf(pools)
          PROVE  stays \in since[gone] /\ gone \notin since[stays]
      <4>1. PICK i \in 1..n, j \in 1..n : gone = pools[i].key /\ stays = pools[j].key
          BY <3>2, <3>6 DEF KeysOf
      <4>2. i = 1 /\ j # 1
          BY <3>2, <3>5, <3>6, <4>1
      <4> QED
          BY <3>2, <4>1, <4>2 DEF InOrderOfUse
    <3> QED
        BY <3>6
  <2>c. CASE Clear
      BY <2>c, EmptySeq DEF Clear, KeysOf
  <2>d. CASE UNCHANGED pools
      BY <2>d
  <2> QED
      BY <2>a, <2>b, <2>c, <2>d
      DEF Next, Step, Enter, Respond, Fail, Redirect, Request, Shut, managerVars
<1>3. [][Kept]_vars <=> EvictsLeastRecentlyUsed
    BY PTL DEF EvictsLeastRecentlyUsed
<1> QED
    BY <1>1, <1>2, <1>3, OrderStep, ManagerTypeCorrect, PTL DEF Spec

-----------------------------------------------------------------------------
(***************************************************************************)
(* What making a pool does to the others: those that leave are closed.     *)
(***************************************************************************)
LEMMA MakeCloses ==
    ASSUME TypeOK, Capacity, NEW t \in Tasks, Make(t)
    PROVE  \E new \in Pools \ ValuesOf(pools) :
               /\ ValuesOf(pools') \subseteq ValuesOf(pools) \cup {new}
               /\ status'[new] = "open" \/ new \notin ValuesOf(pools')
               /\ \A p \in ValuesOf(pools) :
                     \/ p \in ValuesOf(pools') /\ status'[p] = status[p]
                     \/ p \notin ValuesOf(pools') /\ status'[p] = "closed"
<1>0. PoolsOK /\ status \in [Pools -> {"open", "closed", "shut"}] /\ NumPools \in Nat
    BY TypeParts, ManagerConstants
<1> DEFINE key == KeyOf(call[t].host)
           stored(new) == SetItem(pools, key, new, NumPools)
<1>1. PICK new \in Fresh :
          /\ key \in Keys \ KeysOf(pools) /\ new \in Pools \ ValuesOf(pools)
          /\ Entry(key, new) \in Entries
          /\ pools' = stored(new).left
          /\ status' = [p \in Pools |-> IF p \in stored(new).disposed THEN "closed"
                                        ELSE [status EXCEPT ![new] = "open"][p]]
    BY MakeStores
<1> HIDE DEF key
<1> DEFINE gone == stored(new).disposed
<1>2. /\ ValuesOf(pools) \cup {new} = ValuesOf(pools') \cup gone
      /\ gone \cap ValuesOf(pools') = {}
    BY <1>0, <1>1, SetItemKeeps DEF PoolsOK
<1>3. ValuesOf(pools) \subseteq Pools
    BY <1>0, ValuesInPools DEF PoolsOK
<1>4. \A p \in Pools : status'[p] = IF p \in gone THEN "closed"
                                   ELSE IF p = new THEN "open" ELSE status[p]
    BY <1>0, <1>1
<1> HIDE DEF stored, gone
<1> QED
    BY <1>1, <1>2, <1>3, <1>4

LEMMA UsableStep ==
    TypeOK /\ Capacity /\ CachedPoolsUsable /\ [Next]_vars => CachedPoolsUsable'
<1> SUFFICES ASSUME TypeOK, Capacity, CachedPoolsUsable, [Next]_vars
             PROVE  CachedPoolsUsable'
    OBVIOUS
<1>0. PoolsOK /\ status \in [Pools -> {"open", "closed", "shut"}]
    BY TypeParts
<1>a. ASSUME NEW t \in Tasks, Find(t) PROVE CachedPoolsUsable'
  <2>1. ValuesOf(pools') = ValuesOf(pools)
      BY <1>0, <1>a, FindGets, GotKeeps DEF PoolsOK
  <2> QED
      BY <2>1, <1>a DEF Find, CachedPoolsUsable
<1>b. ASSUME NEW t \in Tasks, Make(t) PROVE CachedPoolsUsable'
  <2>1. PICK new \in Pools \ ValuesOf(pools) :
               /\ ValuesOf(pools') \subseteq ValuesOf(pools) \cup {new}
               /\ status'[new] = "open" \/ new \notin ValuesOf(pools')
               /\ \A p \in ValuesOf(pools) :
                     \/ p \in ValuesOf(pools') /\ status'[p] = status[p]
                     \/ p \notin ValuesOf(pools') /\ status'[p] = "closed"
      BY <1>b, MakeCloses
  <2> QED
      BY <2>1 DEF CachedPoolsUsable
<1>c. CASE Clear
    BY <1>c, EmptySeq DEF Clear, CachedPoolsUsable, ValuesOf
<1>d. ASSUME NEW p \in Pools, Shut(p) PROVE CachedPoolsUsable'
    BY <1>0, <1>d DEF Shut, CachedPoolsUsable
<1>e. CASE UNCHANGED <<pools, status>>
    BY <1>e DEF CachedPoolsUsable
<1> QED
    BY <1>a, <1>b, <1>c, <1>d, <1>e
    DEF Next, Step, Enter, Respond, Fail, Redirect, Request, managerVars, vars

(***************************************************************************)
(* What connection_from_host finds is never a pool that the manager itself *)
(* has closed.                                                             *)
(***************************************************************************)
THEOREM CachedStayUsable == Spec => []CachedPoolsUsable
<1>1. Init => CachedPoolsUsable
    BY EmptySeq DEF Init, CachedPoolsUsable, ValuesOf
<1> QED
    BY <1>1, UsableStep, ManagerTypeCorrect, PTL DEF Spec

(***************************************************************************)
(* No pool is forgotten with its connections: it is closed as it leaves    *)
(* the container, unless a shut one made clear() raise.  A pool before     *)
(* which clear() stops is shut and not merely closed, since no cached pool *)
(* is closed: that is where CachedPoolsUsable comes in.                    *)
(***************************************************************************)
THEOREM ForgottenAreClosed == Spec => NoPoolLeak
<1> DEFINE Kept == LET left == ValuesOf(pools) \ ValuesOf(pools') IN
                   \A p \in left : status'[p] = "closed" \/ \E q \in left : status[q] = "shut"
<1>1. TypeOK /\ Capacity /\ CachedPoolsUsable /\ [Next]_vars => [Kept]_vars
  <2> SUFFICES ASSUME TypeOK, Capacity, CachedPoolsUsable, Next PROVE Kept
      OBVIOUS
  <2>0. PoolsOK /\ status \in [Pools -> {"open", "closed", "shut"}]
      BY TypeParts
  <2>1. ValuesOf(pools) \subseteq Pools
      BY <2>0, ValuesInPools DEF PoolsOK
  <2>a. ASSUME NEW t \in Tasks, Find(t) PROVE Kept
    <3>1. ValuesOf(pools') = ValuesOf(pools)
        BY <2>0, <2>a, FindGets, GotKeeps DEF PoolsOK
    <3> QED
        BY <3>1
  <2>b. ASSUME NEW t \in Tasks, Make(t) PROVE Kept
    <3>1. \A p \in ValuesOf(pools) : p \in ValuesOf(pools') \/ status'[p] = "closed"
        BY <2>b, MakeCloses
    <3> QED
        BY <3>1
  <2>c. CASE Clear
    <3>1. ValuesOf(pools') = {}
        BY <2>c, EmptySeq DEF Clear, ValuesOf
    <3>2. ASSUME NEW p \in ValuesOf(pools)
          PROVE  status'[p] = "closed" \/ \E q \in ValuesOf(pools) : status[q] = "shut"
      <4>1. PICK i \in DOMAIN pools : pools[i].value = p
          BY DEF ValuesOf
      <4>2. i \in Nat /\ 1..i-1 \subseteq DOMAIN pools
          BY <2>0, LenProperties DEF PoolsOK
      <4>3. CASE \A j \in 1..i-1 : status[pools[j].value] = "open"
          BY <2>c, <2>1, <4>1, <4>3 DEF Clear
      <4>4. ASSUME NEW j \in 1..i-1, status[pools[j].value] # "open"
            PROVE  \E q \in ValuesOf(pools) : status[q] = "shut"
        <5>1. pools[j].value \in ValuesOf(pools)
            BY <4>2 DEF ValuesOf
        <5>2. status[pools[j].value] = "shut"
            BY <2>0, <2>1, <4>4, <5>1 DEF CachedPoolsUsable
        <5> QED
            BY <5>1, <5>2
      <4> QED
          BY <4>3, <4>4
    <3> QED
        BY <3>1, <3>2
  <2>d. CASE UNCHANGED pools
      BY <2>d
  <2> QED
      BY <2>a, <2>b, <2>c, <2>d
      DEF Next, Step, Enter, Respond, Fail, Redirect, Request, Shut, managerVars
<1>2. [][Kept]_vars <=> NoPoolLeak
    BY PTL DEF NoPoolLeak
<1> QED
    BY <1>1, <1>2, CachedStayUsable, ManagerTypeCorrect, PTL DEF Spec
=============================================================================
