------------------------- MODULE ResponseBodyProofs -------------------------
(***************************************************************************)
(* Proofs about ResponseBody, for bodies of any length, any of the         *)
(* encodings and reads of any size.                                        *)
(***************************************************************************)
EXTENDS ResponseBody, SequenceLemmas

Formats == {"zlib", "gzip", "raw", "spoilt"}

DecoderRecord == [trying : BOOLEAN, data : Seq(Int), format : Formats, fed : Seq(Int)]

(* A decoder that still tries takes what it is fed for zlib. *)
IsDecoder(d) == d \in DecoderRecord /\ (d.trying => d.format = "zlib")

(* None is the None of the program, not a decoder. *)
NoneIsNoDecoder == \A d : IsDecoder(d) => d # None

MessageType ==
    /\ message.encoding \in AllEncodings /\ message.length \in Nat
    /\ {message.framed, message.decode, message.preload} \subseteq BOOLEAN
    /\ message.encoding = "raw" => message.length # 1

BodyTypes == MessageType /\ TypeOK /\ (decoder # None => IsDecoder(decoder))
-----------------------------------------------------------------------------
(***************************************************************************)
(* What is on the wire: as many bytes as the format has before the         *)
(* content, the content, and what damages it.                              *)
(***************************************************************************)
Ahead == IF message.encoding \in {"zlib", "gzip", "damaged"} THEN 2 ELSE 0

WireShape ==
    /\ Wire \in Seq(Int)
    /\ Len(Wire) = Ahead + message.length + IF message.encoding = "damaged" THEN 1 ELSE 0
    /\ \A i \in 1..message.length : Wire[Ahead + i] = i
    /\ \A i \in 1..Ahead : Wire[i] = IF message.encoding = "gzip" THEN GzipByte ELSE ZlibByte
    /\ message.encoding = "damaged" => Wire[Len(Wire)] = BadByte

(* The content is the numbers up to its length. *)
LEMMA ContentShape ==
    ASSUME MessageType
    PROVE  /\ Content \in Seq(Int) /\ Len(Content) = message.length
           /\ \A i \in 1..message.length : Content[i] = i
<1>1. Content \in [1..message.length -> Int]
    BY DEF Content, MessageType
<1>2. Content \in Seq(Int)
    BY <1>1, SeqDef DEF MessageType
<1> QED
    BY <1>1, <1>2, LenProperties DEF Content, MessageType

(* Two bytes are ahead of zlib and gzip streams, none of the others. *)
LEMMA PrefixShape ==
    /\ Prefix("gzip") \in Seq(Int) /\ Len(Prefix("gzip")) = 2
    /\ Prefix("gzip")[1] = GzipByte /\ Prefix("gzip")[2] = GzipByte
    /\ Prefix("zlib") \in Seq(Int) /\ Len(Prefix("zlib")) = 2
    /\ Prefix("zlib")[1] = ZlibByte /\ Prefix("zlib")[2] = ZlibByte
    /\ \A other : other \notin {"gzip", "zlib"} => Prefix(other) = << >>
    BY DEF Prefix, ZlibByte, GzipByte

(* What is sent in each encoding. *)
LEMMA WireHasShape ==
    ASSUME MessageType
    PROVE  WireShape
<1> DEFINE l == message.length
           c == Content
<1>1. /\ c \in Seq(Int) /\ Len(c) = l /\ l \in Nat
      /\ \A i \in 1..l : c[i] = i
    BY ContentShape DEF MessageType
<1> HIDE DEF l, c
<1>2. ASSUME NEW p \in Seq(Int), Len(p) = 2
      PROVE  /\ p \o c \in Seq(Int) /\ Len(p \o c) = 2 + l
             /\ \A i \in 1..l : (p \o c)[2 + i] = i
             /\ (p \o c)[1] = p[1] /\ (p \o c)[2] = p[2]
  <2>1. /\ p \o c \in Seq(Int) /\ Len(p \o c) = 2 + l
        /\ \A i \in 1..2 + l : (p \o c)[i] = IF i <= 2 THEN p[i] ELSE c[i - 2]
    <3>1. /\ p \o c \in Seq(Int) /\ Len(p \o c) = Len(p) + Len(c)
          /\ \A i \in 1..Len(p) + Len(c) :
                (p \o c)[i] = IF i <= Len(p) THEN p[i] ELSE c[i - Len(p)]
        BY <1>1, ConcatProperties
    <3> QED
        BY <1>1, <1>2, <3>1
  <2>2. \A i \in 1..l : 2 + i \in 1..2 + l /\ ~ (2 + i <= 2) /\ 2 + i - 2 = i
      BY <1>1
  <2>3. 1 \in 1..2 + l /\ 2 \in 1..2 + l
      BY <1>1
  <2> QED
      BY <1>1, <2>1, <2>2, <2>3
<1>3. CASE message.encoding \in {"zlib", "gzip"}
  <2> DEFINE p == Prefix(message.encoding)
  <2>1. Wire = p \o c /\ Ahead = 2
      BY <1>3 DEF Wire, Ahead, c
  <2>2. /\ p \in Seq(Int) /\ Len(p) = 2
        /\ \A i \in 1..2 : p[i] = IF message.encoding = "gzip" THEN GzipByte ELSE ZlibByte
      BY <1>3, PrefixShape
  <2> HIDE DEF p
  <2>3. \A i \in 1..2 : i = 1 \/ i = 2
      OBVIOUS
  <2>4. message.encoding # "damaged"
      BY <1>3
  <2> QED
      BY <1>1, <1>2, <2>1, <2>2, <2>3, <2>4 DEF WireShape, l
<1>4. CASE message.encoding = "damaged"
  <2> DEFINE p == Prefix("zlib")
             w == p \o c
  <2>1. Wire = Append(w, BadByte) /\ Ahead = 2
      BY <1>4 DEF Wire, Ahead, c
  <2>2. p \in Seq(Int) /\ Len(p) = 2 /\ p[1] = ZlibByte /\ p[2] = ZlibByte
      BY PrefixShape
  <2> HIDE DEF p
  <2>3. /\ w \in Seq(Int) /\ Len(w) = 2 + l
        /\ \A i \in 1..l : w[2 + i] = i
        /\ w[1] = ZlibByte /\ w[2] = ZlibByte
      BY <1>2, <2>2
  <2> HIDE DEF w
  <2>4. BadByte \in Int
      BY DEF BadByte
  <2>5. /\ Append(w, BadByte) \in Seq(Int)
        /\ Len(Append(w, BadByte)) = Len(w) + 1
        /\ \A i \in 1.. Len(w) : Append(w, BadByte)[i] = w[i]
        /\ Append(w, BadByte)[Len(w) + 1] = BadByte
      BY <2>3, <2>4, AppendProperties
  <2>6. /\ Wire \in Seq(Int) /\ Len(Wire) = 2 + l + 1
        /\ \A i \in 1..2 + l : Wire[i] = w[i]
        /\ Wire[2 + l + 1] = BadByte
      BY <2>1, <2>3, <2>5
  <2>7. /\ \A i \in 1..l : 2 + i \in 1..2 + l
        /\ 1 \in 1..2 + l /\ 2 \in 1..2 + l
        /\ \A i \in 1..2 : i = 1 \/ i = 2
      BY <1>1
  <2> QED
      BY <1>1, <1>4, <2>1, <2>3, <2>6, <2>7 DEF WireShape, l
<1>5. CASE message.encoding \in {"identity", "raw"}
  <2>1. Wire = c /\ Ahead = 0
    <3>1. Wire = << >> \o c
        BY <1>5, PrefixShape DEF Wire, c
    <3> QED
        BY <1>1, <1>5, <3>1, ConcatEmptySeq DEF Ahead
  <2>2. message.encoding # "damaged" /\ \A i \in 1..l : 0 + i = i
      BY <1>1, <1>5
  <2> QED
      BY <1>1, <2>1, <2>2 DEF WireShape, l
<1> QED
    BY <1>3, <1>4, <1>5 DEF MessageType, AllEncodings
-----------------------------------------------------------------------------
(***************************************************************************)
(* Reading from the stream.                                                *)
(***************************************************************************)
Arrived == SubSeq(Wire, 1, pos)

(* What is read is what follows on the wire, and all of it if no amount *)
(* is given.                                                            *)
LEMMA FetchedNext ==
    ASSUME BodyTypes, NEW amt \in Amounts \cup {None}
    PROVE  /\ Fetched(amt) \in Seq(Int)
           /\ pos + Len(Fetched(amt)) \in pos..Len(Wire)
           /\ Arrived \o Fetched(amt) = SubSeq(Wire, 1, pos + Len(Fetched(amt)))
           /\ ended => Fetched(amt) = << >>
           /\ amt = None /\ ~ended => pos + Len(Fetched(amt)) = Len(Wire)
<1> DEFINE n == Len(Wire)
           data == Fetched(amt)
<1>1. Wire \in Seq(Int) /\ n \in Nat /\ pos \in 0..n
    BY WireHasShape, LenProperties DEF BodyTypes, WireShape, TypeOK
<1>2. Rest \in Seq(Int) /\ Len(Rest) = n - pos /\ \A i \in 1..n - pos : Rest[i] = Wire[pos + i]
  <2>1. /\ Rest \in Seq(Int) /\ Len(Rest) = IF pos <= n THEN n - pos ELSE 0
        /\ \A i \in 1..n - pos : Rest[i] = Wire[pos + i]
    <3>1. pos \in Nat
        BY <1>1
    <3> QED
        BY <1>1, <3>1, LastPart DEF Rest
  <2> HIDE DEF n
  <2> QED
      BY <1>1, <2>1
<1>3. /\ data \in Seq(Int) /\ Len(data) \in 0..n - pos
      /\ \A i \in 1..Len(data) : data[i] = Wire[pos + i]
      /\ amt = None /\ ~ended => Len(data) = n - pos
  <2>1. CASE ended
    <3>1. data = << >> /\ Len(<< >>) = 0 /\ << >> \in Seq(Int)
        BY <2>1 DEF Fetched
    <3> HIDE DEF n, data
    <3> QED
        BY <1>1, <2>1, <3>1
  <2>2. CASE ~ended /\ (amt = None \/ amt > Len(Rest))
    <3>1. data = Rest
        BY <2>2 DEF Fetched
    <3> HIDE DEF n, data
    <3> QED
        BY <1>1, <1>2, <3>1
  <2>3. CASE ~ended /\ ~ (amt = None \/ amt > Len(Rest))
    <3>1. data = SubSeq(Rest, 1, amt) /\ amt \in Nat
        BY <2>3, BodyConstants DEF Fetched
    <3> HIDE DEF n, data
    <3>2. amt \in 0..Len(Rest)
        BY <1>1, <1>2, <2>3, <3>1
    <3>3. data \in Seq(Int) /\ Len(data) = amt /\ \A i \in 1..amt : data[i] = Rest[i]
        BY <1>2, <3>1, <3>2, FirstPart
    <3>4. amt \in 0..n - pos /\ amt # None
        BY <1>2, <2>3, <3>2
    <3>5. \A i \in 1..amt : i \in 1..n - pos
        BY <1>1, <3>4
    <3> QED
        BY <1>2, <3>3, <3>4, <3>5
  <2> QED
      BY <2>1, <2>2, <2>3
<1>4. Arrived \in Seq(Int) /\ Len(Arrived) = pos /\ \A i \in 1..pos : Arrived[i] = Wire[i]
    BY <1>1, FirstPart DEF Arrived
<1> DEFINE k == Len(data)
           s == Arrived \o data
           t == SubSeq(Wire, 1, pos + k)
<1>5. k \in Nat /\ pos + k \in pos..n /\ pos \in Nat
  <2> HIDE DEF n, data
  <2> QED
      BY <1>1, <1>3
<1>6. s = t
  <2> HIDE DEF data
  <2>1. /\ s \in Seq(Int) /\ Len(s) = pos + k
        /\ \A i \in 1..pos + k : s[i] = IF i <= pos THEN Arrived[i] ELSE data[i - pos]
      BY <1>3, <1>4, ConcatProperties
  <2>2. t \in Seq(Int) /\ Len(t) = pos + k /\ \A i \in 1..pos + k : t[i] = Wire[i]
    <3>1. pos + k \in 0..Len(Wire)
        BY <1>5
    <3> QED
        BY <1>1, <3>1, FirstPart
  <2> HIDE DEF s, t, k
  <2>3. ASSUME NEW i \in 1..pos + k PROVE s[i] = t[i]
    <3>1. CASE i <= pos
      <4>1. i \in 1..pos
          BY <1>5, <3>1
      <4>2. s[i] = Arrived[i] /\ t[i] = Wire[i]
          BY <2>1, <2>2, <3>1
      <4> QED
          BY <1>4, <4>1, <4>2
    <3>2. CASE ~ (i <= pos)
      <4>1. i - pos \in 1..k /\ pos + (i - pos) = i
          BY <1>5, <3>2
      <4>2. data[i - pos] = Wire[pos + (i - pos)]
          BY <1>3, <4>1 DEF k
      <4> QED
          BY <2>1, <2>2, <3>2, <4>1, <4>2
    <3> QED
        BY <3>1, <3>2
  <2> QED
      BY <2>1, <2>2, <2>3, SeqEqual
<1>7. amt = None /\ ~ended => pos + k = n
  <2> HIDE DEF n
  <2> QED
      BY <1>1, <1>3
<1>8. ended => data = << >>
    BY DEF Fetched
<1> QED
    BY <1>3, <1>5, <1>6, <1>7, <1>8
-----------------------------------------------------------------------------
(* The output is what is behind the bytes of the format. *)
LEMMA OutputType ==
    ASSUME NEW format, NEW bytes \in Seq(Int)
    PROVE  /\ Len(Prefix(format)) = IF format \in {"zlib", "gzip"} THEN 2 ELSE 0
           /\ Output(format, bytes) \in Seq(Int)
           /\ Len(Output(format, bytes)) =
                 IF Len(Prefix(format)) <= Len(bytes) THEN Len(bytes) - Len(Prefix(format)) ELSE 0
           /\ \A i \in 1..Len(bytes) - Len(Prefix(format)) :
                 Output(format, bytes)[i] = bytes[Len(Prefix(format)) + i]
<1> DEFINE p == Len(Prefix(format))
<1>1. p = IF format \in {"zlib", "gzip"} THEN 2 ELSE 0
    BY PrefixShape
<1> HIDE DEF p
<1>2. p \in Nat
    BY <1>1
<1>3. Output(format, bytes) = SubSeq(bytes, p + 1, Len(bytes))
    BY DEF Output, p
<1>4. /\ Output(format, bytes) \in Seq(Int)
      /\ Len(Output(format, bytes)) = IF p <= Len(bytes) THEN Len(bytes) - p ELSE 0
      /\ \A i \in 1..Len(bytes) - p : Output(format, bytes)[i] = bytes[p + i]
    BY <1>2, <1>3, LastPart
<1> QED
    BY <1>1, <1>4 DEF p

(* More input only adds to the output. *)
LEMMA OutputGrows ==
    ASSUME NEW format, NEW fed \in Seq(Int), NEW data \in Seq(Int)
    PROVE  LET before == Output(format, fed)
               after  == Output(format, fed \o data)
               out    == SubSeq(after, Len(before) + 1, Len(after))
           IN  /\ out \in Seq(Int)
               /\ before \o out = after
               /\ data = << >> => out = << >>
<1> DEFINE before == Output(format, fed)
           after  == Output(format, fed \o data)
           out    == SubSeq(after, Len(before) + 1, Len(after))
           p      == Len(Prefix(format))
           b      == Len(before)
           l      == Len(fed)
           k      == Len(data)
<1>1. /\ fed \o data \in Seq(Int) /\ Len(fed \o data) = l + k
      /\ \A i \in 1..l + k : (fed \o data)[i] = IF i <= l THEN fed[i] ELSE data[i - l]
    BY ConcatProperties
<1>2. l \in Nat /\ k \in Nat
    BY LenProperties
<1>3. p \in Nat
    BY OutputType
<1>4. /\ before \in Seq(Int) /\ b = IF p <= l THEN l - p ELSE 0
      /\ \A i \in 1..l - p : before[i] = fed[p + i]
    BY OutputType
<1>5. /\ after \in Seq(Int) /\ Len(after) = IF p <= l + k THEN l + k - p ELSE 0
      /\ \A i \in 1..l + k - p : after[i] = (fed \o data)[p + i]
  <2> DEFINE all == fed \o data
  <2>1. all \in Seq(Int) /\ Len(all) = l + k
      BY <1>1
  <2> HIDE DEF all, l, k
  <2>2. /\ Output(format, all) \in Seq(Int)
        /\ Len(Output(format, all)) = IF p <= Len(all) THEN Len(all) - p ELSE 0
        /\ \A i \in 1..Len(all) - p : Output(format, all)[i] = all[p + i]
      BY <2>1, OutputType
  <2>3. /\ Output(format, all) \in Seq(Int)
        /\ Len(Output(format, all)) = IF p <= l + k THEN l + k - p ELSE 0
        /\ \A i \in 1..l + k - p : Output(format, all)[i] = all[p + i]
    <3> HIDE DEF p
    <3> QED
        BY <1>2, <1>3, <2>1, <2>2
  <2> HIDE DEF p
  <2> QED
      BY <2>3 DEF all
<1> HIDE DEF before, after, p, l, k
<1>6. b \in Nat /\ b <= Len(after) /\ Len(after) \in Nat
    BY <1>2, <1>3, <1>4, <1>5
<1>7. out \in Seq(Int)
    BY <1>5, <1>6, LastPart
<1>8. SubSeq(after, 1, b) = before
  <2>1. b \in 0..Len(after)
      BY <1>6
  <2>2. /\ SubSeq(after, 1, b) \in Seq(Int) /\ Len(SubSeq(after, 1, b)) = b
        /\ \A i \in 1..b : SubSeq(after, 1, b)[i] = after[i]
      BY <1>5, <2>1, FirstPart
  <2>3. ASSUME NEW i \in 1..b PROVE after[i] = before[i]
    <3> HIDE DEF b
    <3>1. i \in 1..l - p /\ i \in 1..l + k - p /\ p + i \in 1..l + k /\ p + i <= l
        BY <1>2, <1>3, <1>4
    <3> QED
        BY <1>1, <1>4, <1>5, <3>1
  <2>4. Len(SubSeq(after, 1, b)) = Len(before)
      BY <2>2
  <2>5. \A i \in 1..Len(SubSeq(after, 1, b)) : SubSeq(after, 1, b)[i] = before[i]
      BY <2>2, <2>3
  <2> HIDE DEF b
  <2> QED
      BY <1>4, <2>2, <2>4, <2>5, SeqEqual
<1>9. before \o out = after
  <2>1. 1 \in 1..Len(after)+1 /\ b \in 1-1..Len(after) /\ Len(after) \in b..Len(after)
      BY <1>6
  <2>2. SubSeq(after, 1, b) \o out = SubSeq(after, 1, Len(after))
      BY <1>5, <2>1, ConcatAdjacentSubSeq
  <2> QED
      BY <1>5, <1>8, <2>2, SubSeqFull
<1>10. ASSUME data = << >> PROVE out = << >>
  <2>1. fed \o data = fed
      BY <1>10, ConcatEmptySeq
  <2>2. after = before
      BY <2>1 DEF after, before
  <2>3. Len(after) < b + 1
      BY <1>6, <2>2
  <2> QED
      BY <1>6, <2>3, SubSeqEmpty
<1> QED
    BY <1>7, <1>9, <1>10 DEF before, after

(* A decompressobj that accepts what it is fed remembers it. *)
LEMMA DirectResult ==
    ASSUME NEW d, IsDecoder(d), NEW data \in Seq(Int)
    PROVE  LET r == Direct(d, data) IN
           /\ r.ok = Accepts(d.format, d.fed \o data)
           /\ r.out \in Seq(Int)
           /\ r.decoder \in DecoderRecord
           /\ r.decoder.trying = d.trying /\ r.decoder.data = d.data
           /\ r.decoder.format = IF r.ok THEN d.format ELSE "spoilt"
           /\ r.ok => /\ r.decoder.fed = d.fed \o data
                      /\ Output(d.format, d.fed) \o r.out = Output(d.format, d.fed \o data)
           /\ r.ok /\ data = << >> => r.out = << >>
<1> DEFINE fed == d.fed \o data
           out == SubSeq(Output(d.format, fed), Len(Output(d.format, d.fed)) + 1,
                         Len(Output(d.format, fed)))
           r == Direct(d, data)
<1>1. d.fed \in Seq(Int) /\ d \in DecoderRecord
    BY DEF IsDecoder, DecoderRecord
<1>2. fed \in Seq(Int)
    BY <1>1, ConcatProperties
<1>3. /\ out \in Seq(Int)
      /\ Output(d.format, d.fed) \o out = Output(d.format, fed)
      /\ data = << >> => out = << >>
    BY <1>1, OutputGrows
<1>4. Accepts(d.format, fed) \in BOOLEAN
    BY DEF Accepts
<1>5. r = IF Accepts(d.format, fed) THEN [ok |-> TRUE, decoder |-> [d EXCEPT !.fed = fed], out |-> out]
          ELSE [ok |-> FALSE, decoder |-> [d EXCEPT !.format = "spoilt"], out |-> << >>]
    BY DEF Direct, Decoding
<1> HIDE DEF fed, out, r
<1>6. << >> \in Seq(Int)
    BY EmptySeq
<1>7. CASE Accepts(d.format, fed)
  <2> DEFINE e == [d EXCEPT !.fed = fed]
  <2>1. /\ e \in DecoderRecord /\ e.trying = d.trying /\ e.data = d.data
        /\ e.format = d.format /\ e.fed = fed
      BY <1>1, <1>2 DEF DecoderRecord
  <2>2. r = [ok |-> TRUE, decoder |-> e, out |-> out]
      BY <1>5, <1>7
  <2> HIDE DEF e
  <2> QED
      BY <1>3, <1>7, <2>1, <2>2 DEF r, fed
<1>8. CASE ~Accepts(d.format, fed)
  <2> DEFINE e == [d EXCEPT !.format = "spoilt"]
  <2>1. /\ e \in DecoderRecord /\ e.trying = d.trying /\ e.data = d.data
        /\ e.format = "spoilt"
      BY <1>1 DEF DecoderRecord, Formats
  <2>2. r = [ok |-> FALSE, decoder |-> e, out |-> << >>]
      BY <1>5, <1>8
  <2> HIDE DEF e
  <2>3. r.ok = Accepts(d.format, fed)
      BY <1>4, <1>8, <2>2
  <2>4. ~r.ok /\ r.decoder = e /\ r.out = << >>
      BY <2>2
  <2> HIDE DEF r
  <2> QED
      BY <1>6, <2>1, <2>3, <2>4 DEF r, fed
<1> QED
    BY <1>7, <1>8

(***************************************************************************)
(* What DeflateDecoder.decompress makes of it: the same, unless the stream *)
(* turns out not to be zlib; then all there was is taken for raw deflate.  *)
(***************************************************************************)
LEMMA DecompressResult ==
    ASSUME NEW d, IsDecoder(d), NEW data \in Seq(Int)
    PROVE  LET r == Decompress(d, data) IN
           /\ r.ok \in BOOLEAN /\ r.out \in Seq(Int) /\ IsDecoder(r.decoder)
           /\ Accepts(d.format, d.fed \o data) =>
                 /\ r.ok
                 /\ r.decoder.trying = d.trying /\ r.decoder.format = d.format
                 /\ d.trying => r.decoder.data = d.data \o data
                 /\ r.decoder.fed = d.fed \o data
                 /\ Output(d.format, d.fed) \o r.out = Output(d.format, d.fed \o data)
                 /\ data = << >> => r.out = << >>
           /\ ~Accepts(d.format, d.fed \o data) /\ d.trying =>
                 /\ r.ok = Accepts("raw", d.data \o data)
                 /\ r.ok => /\ ~r.decoder.trying /\ r.decoder.format = "raw"
                            /\ r.decoder.fed = d.data \o data
                            /\ r.out = d.data \o data
<1> DEFINE more  == d.data \o data
           kept  == IF d.trying THEN [d EXCEPT !.data = more] ELSE d
           first == Direct(kept, data)
           again == Direct(RawDecoder, more)
           r     == Decompress(d, data)
<1>1. d \in DecoderRecord /\ d.data \in Seq(Int) /\ d.fed \in Seq(Int) /\ d.trying \in BOOLEAN
    BY DEF IsDecoder, DecoderRecord
<1>2. more \in Seq(Int)
    BY <1>1, ConcatProperties
<1>3. r = IF first.ok \/ ~d.trying THEN first ELSE Direct(RawDecoder, kept.data)
    BY DEF Decompress
<1>4. /\ IsDecoder(kept) /\ kept.trying = d.trying /\ kept.format = d.format /\ kept.fed = d.fed
      /\ d.trying => kept.data = more
  <2> HIDE DEF more
  <2>1. CASE d.trying
    <3>1. kept = [d EXCEPT !.data = more]
        BY <2>1
    <3> HIDE DEF kept
    <3>2. /\ kept \in DecoderRecord /\ kept.trying = d.trying /\ kept.format = d.format
          /\ kept.fed = d.fed /\ kept.data = more
        BY <1>1, <1>2, <3>1 DEF DecoderRecord
    <3> QED
        BY <3>2 DEF IsDecoder
  <2>2. CASE ~d.trying
      BY <2>2
  <2> QED
      BY <2>1, <2>2
<1>5. /\ first.ok = Accepts(d.format, d.fed \o data)
      /\ first.out \in Seq(Int)
      /\ first.decoder \in DecoderRecord
      /\ first.decoder.trying = d.trying /\ first.decoder.data = kept.data
      /\ first.decoder.format = IF first.ok THEN d.format ELSE "spoilt"
      /\ first.ok => /\ first.decoder.fed = d.fed \o data
                     /\ Output(d.format, d.fed) \o first.out = Output(d.format, d.fed \o data)
      /\ first.ok /\ data = << >> => first.out = << >>
  <2> HIDE DEF kept, first
  <2>1. /\ first.ok = Accepts(kept.format, kept.fed \o data)
        /\ first.out \in Seq(Int)
        /\ first.decoder \in DecoderRecord
        /\ first.decoder.trying = kept.trying /\ first.decoder.data = kept.data
        /\ first.decoder.format = IF first.ok THEN kept.format ELSE "spoilt"
        /\ first.ok => /\ first.decoder.fed = kept.fed \o data
                       /\ Output(kept.format, kept.fed) \o first.out
                             = Output(kept.format, kept.fed \o data)
        /\ first.ok /\ data = << >> => first.out = << >>
      BY <1>4, DirectResult DEF first
  <2> QED
      BY <1>4, <2>1
<1>6. /\ IsDecoder(RawDecoder) /\ ~RawDecoder.trying /\ RawDecoder.format = "raw"
      /\ RawDecoder.fed = << >>
    BY EmptySeq DEF RawDecoder, IsDecoder, DecoderRecord, Formats
<1> HIDE DEF more, kept, first
<1>7. << >> \o more = more
    BY <1>2, ConcatEmptySeq
<1>8. /\ again.ok = Accepts("raw", more)
      /\ again.out \in Seq(Int)
      /\ again.decoder \in DecoderRecord
      /\ ~again.decoder.trying
      /\ again.ok => /\ again.decoder.format = "raw" /\ again.decoder.fed = more
                     /\ Output("raw", << >>) \o again.out = Output("raw", more)
  <2> HIDE DEF again
  <2>1. /\ again.ok = Accepts(RawDecoder.format, RawDecoder.fed \o more)
        /\ again.out \in Seq(Int)
        /\ again.decoder \in DecoderRecord
        /\ again.decoder.trying = RawDecoder.trying
        /\ again.decoder.format = IF again.ok THEN RawDecoder.format ELSE "spoilt"
        /\ again.ok => /\ again.decoder.fed = RawDecoder.fed \o more
                       /\ Output(RawDecoder.format, RawDecoder.fed) \o again.out
                             = Output(RawDecoder.format, RawDecoder.fed \o more)
      BY <1>2, <1>6, DirectResult DEF again
  <2> QED
      BY <1>6, <1>7, <2>1
<1> HIDE DEF again
<1>9. Output("raw", << >>) = << >> /\ Output("raw", more) = more
  <2>1. Len(Prefix("raw")) = 0
      BY PrefixShape, EmptySeq
  <2>2. Output("raw", << >>) = SubSeq(<< >>, 1, 0) /\ Output("raw", more) = SubSeq(more, 1, Len(more))
      BY <2>1, EmptySeq DEF Output
  <2>3. SubSeq(<< >>, 1, 0) = << >>
      BY SubSeqEmpty
  <2> QED
      BY <1>2, <2>2, <2>3, SubSeqFull
<1>10. again.ok => again.out = more
    BY <1>8, <1>9, ConcatEmptySeq
<1>11. CASE Accepts(d.format, d.fed \o data)
  <2>1. r = first /\ first.ok
      BY <1>3, <1>5, <1>11
  <2>2. IsDecoder(first.decoder) /\ (d.trying => first.decoder.data = more)
      BY <1>1, <1>4, <1>5, <2>1 DEF IsDecoder
  <2> HIDE DEF r
  <2> QED
      BY <1>5, <1>11, <2>1, <2>2 DEF r, more
<1>12. CASE ~Accepts(d.format, d.fed \o data) /\ d.trying
  <2>1. r = again
      BY <1>3, <1>4, <1>5, <1>12 DEF again
  <2>2. IsDecoder(again.decoder) /\ again.ok \in BOOLEAN
      BY <1>8 DEF IsDecoder, Accepts
  <2> HIDE DEF r
  <2> QED
      BY <1>8, <1>10, <1>12, <2>1, <2>2 DEF r, more
<1>13. CASE ~Accepts(d.format, d.fed \o data) /\ ~d.trying
  <2>1. r = first
      BY <1>3, <1>13
  <2>2. IsDecoder(first.decoder) /\ first.ok \in BOOLEAN
      BY <1>5, <1>13 DEF IsDecoder, Accepts
  <2> HIDE DEF r
  <2> QED
      BY <1>5, <1>13, <2>1, <2>2 DEF r
<1> QED
    BY <1>1, <1>11, <1>12, <1>13

(* Whether the bytes are ones that a decoder for the format accepts. *)
LEMMA AcceptsBytes ==
    ASSUME NEW format \in {"zlib", "gzip", "raw"}, NEW bytes \in Seq(Int)
    PROVE  LET n    == IF format = "raw" THEN 0 ELSE 2
               byte == IF format = "gzip" THEN GzipByte ELSE ZlibByte
           IN  Accepts(format, bytes) <=>
                  (Len(bytes) >= n => /\ \A i \in 1..n : bytes[i] = byte
                                      /\ \A i \in n+1..Len(bytes) : bytes[i] > 0)
<1> DEFINE n    == IF format = "raw" THEN 0 ELSE 2
           byte == IF format = "gzip" THEN GzipByte ELSE ZlibByte
           p    == Prefix(format)
           l    == Len(bytes)
           first == SubSeq(bytes, 1, n)
<1>1. p \in Seq(Int) /\ Len(p) = n /\ \A i \in 1..n : p[i] = byte
  <2>1. CASE format = "raw"
    <3>1. p = << >>
        BY <2>1, PrefixShape
    <3>2. n = 0 /\ << >> \in Seq(Int) /\ Len(<< >>) = 0 /\ \A i \in 1..0 : FALSE
        BY <2>1, EmptySeq
    <3> HIDE DEF n, byte, p
    <3> QED
        BY <3>1, <3>2
  <2>2. CASE format \in {"zlib", "gzip"}
    <3>1. \A i \in 1..2 : i = 1 \/ i = 2
        OBVIOUS
    <3>2. n = 2 /\ (format = "zlib" \/ format = "gzip")
        BY <2>2
    <3> HIDE DEF n
    <3>3. format = "zlib" => byte = ZlibByte
        OBVIOUS
    <3>4. format = "gzip" => byte = GzipByte
        OBVIOUS
    <3> HIDE DEF byte
    <3> QED
        BY <3>1, <3>2, <3>3, <3>4, PrefixShape
  <2> QED
      BY <2>1, <2>2
<1>2. Accepts(format, bytes) <=> (l >= n => first = p /\ \A i \in n+1..l : bytes[i] > 0)
    BY <1>1 DEF Accepts
<1>3. n \in Nat /\ l \in Nat
    BY LenProperties
<1> HIDE DEF n, byte, p, l
<1>4. ASSUME l >= n PROVE first = p <=> \A i \in 1..n : bytes[i] = byte
  <2>1. n \in 0..Len(bytes)
      BY <1>3, <1>4 DEF l
  <2>2. first \in Seq(Int) /\ Len(first) = n /\ \A i \in 1..n : first[i] = bytes[i]
      BY <2>1, FirstPart
  <2> HIDE DEF first
  <2>3. ASSUME first = p PROVE \A i \in 1..n : bytes[i] = byte
      BY <1>1, <2>2, <2>3
  <2>4. ASSUME \A i \in 1..n : bytes[i] = byte PROVE first = p
    <3>1. Len(first) = Len(p) /\ \A i \in 1..Len(first) : first[i] = p[i]
        BY <1>1, <2>2, <2>4
    <3> QED
        BY <1>1, <2>2, <3>1, SeqEqual
  <2> QED
      BY <2>3, <2>4
<1> HIDE DEF first
<1> QED
    BY <1>2, <1>4 DEF n, byte, l

(* What each decoder does with what arrives. *)
LEMMA ArrivedAccepted ==
    ASSUME MessageType, NEW q \in 0..Len(Wire)
    PROVE  LET part == SubSeq(Wire, 1, q) IN
           /\ message.encoding \in {"gzip", "zlib"} => Accepts(message.encoding, part)
           /\ message.encoding = "damaged" =>
                 /\ q < Len(Wire) => Accepts("zlib", part)
                 /\ q = Len(Wire) => ~Accepts("zlib", part) /\ ~Accepts("raw", part)
           /\ message.encoding = "raw" =>
                 /\ Accepts("raw", part)
                 /\ q <= 1 => Accepts("zlib", part)
                 /\ q > 1 => ~Accepts("zlib", part)
<1> DEFINE part == SubSeq(Wire, 1, q)
           n == Len(Wire)
           l == message.length
<1>1. /\ Wire \in Seq(Int) /\ n = Ahead + l + IF message.encoding = "damaged" THEN 1 ELSE 0
      /\ \A i \in 1..l : Wire[Ahead + i] = i
      /\ \A i \in 1..Ahead : Wire[i] = IF message.encoding = "gzip" THEN GzipByte ELSE ZlibByte
      /\ message.encoding = "damaged" => Wire[n] = BadByte
    BY WireHasShape DEF WireShape
<1>2. part \in Seq(Int) /\ Len(part) = q /\ \A i \in 1..q : part[i] = Wire[i]
    BY <1>1, FirstPart
<1>3. n \in Nat /\ l \in Nat /\ q \in 0..n /\ q \in Nat
    BY <1>1, LenProperties DEF MessageType
<1> HIDE DEF part, n, l
<1>4. ASSUME NEW i \in Ahead+1..Ahead+l PROVE Wire[i] > 0
  <2>1. i - Ahead \in 1..l /\ Ahead + (i - Ahead) = i /\ i - Ahead > 0
      BY <1>3 DEF Ahead
  <2>2. Wire[Ahead + (i - Ahead)] = i - Ahead
      BY <1>1, <2>1
  <2> QED
      BY <2>1, <2>2
<1>5. ZlibByte = 0 /\ GzipByte = -1 /\ BadByte = -2
    BY DEF ZlibByte, GzipByte, BadByte
<1>6. CASE message.encoding \in {"gzip", "zlib"}
  <2> DEFINE byte == IF message.encoding = "gzip" THEN GzipByte ELSE ZlibByte
  <2>1. Ahead = 2 /\ n = 2 + l
      BY <1>1, <1>3, <1>6 DEF Ahead
  <2>2. ASSUME q >= 2
        PROVE  (\A i \in 1..2 : part[i] = byte) /\ \A i \in 3..q : part[i] > 0
    <3>1. ASSUME NEW i \in 1..2 PROVE part[i] = byte
      <4>1. i \in 1..q
          BY <1>3, <2>2
      <4> QED
          BY <1>1, <1>2, <2>1, <4>1
    <3>2. ASSUME NEW i \in 3..q PROVE part[i] > 0
      <4>1. i \in 1..q /\ i \in Ahead+1..Ahead+l
          BY <1>3, <2>1
      <4> QED
          BY <1>2, <1>4, <4>1
    <3> QED
        BY <3>1, <3>2
  <2>3. Accepts(message.encoding, part)
      BY <1>2, <1>6, <2>2, AcceptsBytes
  <2> QED
      BY <1>6, <2>3 DEF part
<1>7. CASE message.encoding = "damaged"
  <2>1. Ahead = 2 /\ n = 3 + l
      BY <1>1, <1>3, <1>7 DEF Ahead
  <2>2. ASSUME q < n PROVE Accepts("zlib", part)
    <3>1. ASSUME q >= 2
          PROVE  (\A i \in 1..2 : part[i] = ZlibByte) /\ \A i \in 3..q : part[i] > 0
      <4>1. ASSUME NEW i \in 1..2 PROVE part[i] = ZlibByte
        <5>1. i \in 1..q
            BY <1>3, <3>1
        <5> QED
            BY <1>1, <1>2, <1>7, <2>1, <5>1
      <4>2. ASSUME NEW i \in 3..q PROVE part[i] > 0
        <5>1. i \in 1..q /\ i \in Ahead+1..Ahead+l
            BY <1>3, <2>1, <2>2
        <5> QED
            BY <1>2, <1>4, <5>1
      <4> QED
          BY <4>1, <4>2
    <3> QED
        BY <1>2, <3>1, AcceptsBytes
  <2>3. ASSUME q = n PROVE ~Accepts("zlib", part) /\ ~Accepts("raw", part)
    <3>1. q >= 2 /\ q \in 3..q /\ q \in 1..q /\ q >= 0
        BY <1>3, <2>1, <2>3
    <3>2. part[q] = BadByte
        BY <1>1, <1>2, <1>7, <2>3, <3>1
    <3>3. ~ (part[q] > 0)
        BY <1>5, <3>2
    <3> QED
        BY <1>2, <3>1, <3>3, AcceptsBytes
  <2> QED
      BY <1>7, <2>2, <2>3 DEF part, n
<1>8. CASE message.encoding = "raw"
  <2>1. Ahead = 0 /\ n = l
      BY <1>1, <1>3, <1>8 DEF Ahead
  <2>2. \A i \in 1..q : part[i] > 0
    <3>1. \A i \in 1..q : i \in Ahead+1..Ahead+l
        BY <1>3, <2>1
    <3> QED
        BY <1>2, <1>4, <3>1
  <2>3. Accepts("raw", part)
    <3>1. \A i \in 0+1..q : part[i] > 0
        BY <2>2
    <3>2. \A i \in 1..0 : part[i] = ZlibByte
        OBVIOUS
    <3> QED
        BY <1>2, <3>1, <3>2, AcceptsBytes
  <2>4. ASSUME q <= 1 PROVE Accepts("zlib", part)
    <3>1. ~ (q >= 2)
        BY <1>3, <2>4
    <3> QED
        BY <1>2, <3>1, AcceptsBytes
  <2>5. ASSUME q > 1 PROVE ~Accepts("zlib", part)
    <3>1. q >= 2 /\ 1 \in 1..q /\ 1 \in 1..2
        BY <1>3, <2>5
    <3>2. part[1] # ZlibByte
        BY <1>5, <2>2, <3>1
    <3> QED
        BY <1>2, <3>1, <3>2, AcceptsBytes
  <2> QED
      BY <1>8, <2>3, <2>4, <2>5 DEF part
<1> QED
    BY <1>6, <1>7, <1>8 DEF part, n
-----------------------------------------------------------------------------
(***************************************************************************)
(* The inductive invariant.  Where no decoder is involved, what was        *)
(* returned is what arrived.  Else the decoder was fed just that, as long  *)
(* as readinto() takes none of it; one that still tries has it at hand;    *)
(* and it is for another format than the server's only while the bytes do  *)
(* not tell the two apart.                                                 *)
(***************************************************************************)
Plain == ~message.decode \/ message.encoding = "identity"

Decodes ==
    /\ Decoder.fed = Arrived
    /\ returned = Output(Decoder.format, Arrived)
    /\ Decoder.trying => Decoder.data = Arrived
    /\ message.encoding = "gzip" => Decoder.format = "gzip" /\ ~Decoder.trying
    /\ message.encoding \in {"zlib", "damaged"} => Decoder.format = "zlib" /\ Decoder.trying
    /\ message.encoding = "damaged" => pos < Len(Wire)
    /\ message.encoding = "raw" => \/ Decoder.format = "zlib" /\ Decoder.trying /\ pos <= 1
                                   \/ Decoder.format = "raw" /\ ~Decoder.trying

Delivered ==
    ~failed => /\ Plain => returned = Arrived
               /\ ~Plain /\ taken = 0 => Decodes

(* What is cached was the rest of the body when it was read. *)
Cached ==
    ~failed /\ (Plain \/ taken = 0) /\ body # << >> =>
        pos = Len(Wire) /\ IsSuffix(body, returned)

(* Where nothing is encoded nothing is decoded. *)
NoneForIdentity == message.encoding = "identity" => decoder = None

BodyInv == BodyTypes /\ NoneForIdentity /\ Delivered /\ Cached

(* What is encoded has a decoder from its first read on. *)
LEMMA DecoderIsOne ==
    ASSUME BodyTypes, message.encoding # "identity"
    PROVE  IsDecoder(Decoder)
<1>1. IsDecoder(NewDecoder(message.encoding))
    BY EmptySeq DEF NewDecoder, IsDecoder, DecoderRecord, Formats
<1> QED
    BY <1>1 DEF Decoder, BodyTypes

(* What read() makes of what it fetched, and what becomes of the decoder. *)
LEMMA DecodedResult ==
    ASSUME NoneIsNoDecoder, BodyTypes, NoneForIdentity, NEW data \in Seq(Int)
    PROVE  LET r == Decoded(data) IN
           /\ r.ok \in BOOLEAN /\ r.out \in Seq(Int)
           /\ r.decoder # None => IsDecoder(r.decoder)
           /\ message.encoding = "identity" => r.decoder = None
           /\ Plain => r.ok /\ r.out = data
           /\ ~Plain => r = Decompress(Decoder, data) /\ IsDecoder(Decoder)
<1> DEFINE r == Decoded(data)
<1>1. CASE message.encoding = "identity"
  <2>1. Decoder = None
      BY <1>1 DEF Decoder, NewDecoder, NoneForIdentity
  <2>2. r = [ok |-> TRUE, decoder |-> None, out |-> data]
      BY <2>1 DEF Decoded, Decoding
  <2> HIDE DEF r
  <2> QED
      BY <1>1, <2>2 DEF r, Plain
<1>2. CASE message.encoding # "identity" /\ ~message.decode
  <2>1. r = [ok |-> TRUE, decoder |-> Decoder, out |-> data]
      BY <1>2 DEF Decoded, Decoding
  <2> HIDE DEF r
  <2> QED
      BY <1>2, <2>1, DecoderIsOne DEF r, Plain
<1>3. CASE message.encoding # "identity" /\ message.decode
  <2>1. IsDecoder(Decoder)
      BY <1>3, DecoderIsOne
  <2>2. CASE Decoder # None
    <3>1. r = Decompress(Decoder, data)
        BY <1>3, <2>2 DEF Decoded
    <3> HIDE DEF r
    <3>2. r.ok \in BOOLEAN /\ r.out \in Seq(Int) /\ IsDecoder(r.decoder)
        BY <2>1, <3>1, DecompressResult
    <3> QED
        BY <1>3, <2>1, <3>1, <3>2 DEF r, Plain
  <2>3. CASE Decoder = None
      BY <2>1, <2>3 DEF NoneIsNoDecoder
  <2> QED
      BY <2>2, <2>3
<1> QED
    BY <1>1, <1>2, <1>3 DEF BodyTypes, MessageType

(* What read() reads is delivered, if it can be decoded. *)
LEMMA ReadDelivers ==
    ASSUME NoneIsNoDecoder, BodyInv, NEW amt \in Amounts \cup {None}, ReadBytes(amt),
           ~failed, Decoded(Fetched(amt)).ok,
           returned' = returned \o Decoded(Fetched(amt)).out
    PROVE  /\ Plain => returned' = Arrived'
           /\ ~Plain /\ taken = 0 => Decodes'
           /\ Fetched(amt) = << >> /\ (Plain \/ taken = 0) => Decoded(Fetched(amt)).out = << >>
<1> DEFINE data == Fetched(amt)
           r == Decoded(data)
<1>1. BodyTypes /\ NoneForIdentity /\ Delivered
    BY DEF BodyInv
<1>2. message' = message /\ Wire' = Wire /\ pos' = pos + Len(data) /\ decoder' = r.decoder
    BY DEF ReadBytes, Wire, Content
<1>3. /\ data \in Seq(Int) /\ pos' \in pos..Len(Wire)
      /\ Arrived \o data = Arrived'
  <2>1. /\ data \in Seq(Int) /\ pos + Len(data) \in pos..Len(Wire)
        /\ Arrived \o data = SubSeq(Wire, 1, pos + Len(data))
      BY <1>1, FetchedNext
  <2> HIDE DEF data
  <2> QED
      BY <1>2, <2>1 DEF Arrived
<1> HIDE DEF data
<1>4. CASE Plain
  <2>1. r.out = data
      BY <1>1, <1>3, <1>4, DecodedResult
  <2>2. returned = Arrived
      BY <1>1, <1>4 DEF Delivered
  <2> QED
      BY <1>3, <1>4, <2>1, <2>2 DEF data
<1>5. CASE ~Plain /\ taken = 0
  <2> DEFINE d == Decoder
  <2>1. r = Decompress(d, data) /\ IsDecoder(d)
      BY <1>1, <1>3, <1>5, DecodedResult
  <2>2. Decodes
      BY <1>1, <1>5 DEF Delivered
  <2>3. IsDecoder(r.decoder) /\ Decoder' = r.decoder
    <3>1. IsDecoder(r.decoder)
        BY <1>3, <2>1, DecompressResult
    <3> QED
        BY <1>2, <3>1 DEF NoneIsNoDecoder, Decoder
  <2>4. pos' \in 0..Len(Wire) /\ pos \in Nat /\ pos' \in Nat /\ Len(Wire) \in Nat
    <3>1. pos \in 0..Len(Wire) /\ Len(Wire) \in Nat
        BY <1>1, WireHasShape, LenProperties DEF BodyTypes, TypeOK, WireShape
    <3> QED
        BY <1>3, <3>1
  <2>5. Arrived' = SubSeq(Wire, 1, pos')
      BY <1>2 DEF Arrived
  <2>6. message.encoding \in {"gzip", "zlib", "damaged", "raw"}
      BY <1>1, <1>5 DEF Plain, BodyTypes, MessageType, AllEncodings
  <2> HIDE DEF r, d
  <2>7. r.ok
      BY DEF r, data
  <2>8. d.fed \o data = Arrived' /\ returned = Output(d.format, d.fed)
      BY <1>3, <2>2 DEF Decodes, d
  (* Fed on, the decoder gives what is next. *)
  <2>9. ASSUME Accepts(d.format, Arrived')
        PROVE  /\ r.decoder.trying = d.trying /\ r.decoder.format = d.format
               /\ d.trying => r.decoder.data = Arrived'
               /\ r.decoder.fed = Arrived'
               /\ returned' = Output(d.format, Arrived')
               /\ data = << >> => r.out = << >>
    <3>1. /\ r.decoder.trying = d.trying /\ r.decoder.format = d.format
          /\ d.trying => r.decoder.data = d.data \o data
          /\ r.decoder.fed = d.fed \o data
          /\ Output(d.format, d.fed) \o r.out = Output(d.format, d.fed \o data)
          /\ data = << >> => r.out = << >>
        BY <1>3, <2>1, <2>8, <2>9, DecompressResult
    <3>2. d.trying => d.data \o data = Arrived'
        BY <1>3, <2>2 DEF Decodes, d
    <3> QED
        BY <2>8, <3>1, <3>2 DEF r, data
  (* Found not to be zlib, all is decoded as raw. *)
  <2>10. ASSUME ~Accepts(d.format, Arrived'), d.trying
         PROVE  /\ Accepts("raw", Arrived')
                /\ ~r.decoder.trying /\ r.decoder.format = "raw"
                /\ r.decoder.fed = Arrived' /\ r.out = Arrived'
    <3>1. d.data \o data = Arrived'
        BY <1>3, <2>2, <2>10 DEF Decodes, d
    <3> QED
        BY <1>3, <2>1, <2>7, <2>8, <2>10, <3>1, DecompressResult
  <2>11. MessageType
      BY <1>1 DEF BodyTypes
  <2>12. CASE message.encoding \in {"gzip", "zlib"}
    <3>1. d.format = message.encoding
        BY <2>2, <2>12 DEF Decodes, d
    <3>2. Accepts(d.format, Arrived')
        BY <2>4, <2>5, <2>11, <2>12, <3>1, ArrivedAccepted
    <3>3. Decodes'
        BY <1>2, <2>2, <2>3, <2>9, <2>12, <3>2 DEF Decodes, d
    <3> QED
        BY <1>5, <2>9, <3>2, <3>3 DEF r, data
  <2>13. CASE message.encoding = "damaged"
    <3>1. d.format = "zlib" /\ d.trying
        BY <2>2, <2>13 DEF Decodes, d
    <3>2. pos' < Len(Wire) /\ Accepts("zlib", Arrived')
      <4>1. CASE pos' = Len(Wire)
          BY <2>4, <2>5, <2>10, <2>11, <2>13, <3>1, <4>1, ArrivedAccepted
      <4>2. CASE pos' # Len(Wire)
        <5>1. pos' < Len(Wire)
            BY <2>4, <4>2
        <5> QED
            BY <2>4, <2>5, <2>11, <2>13, <5>1, ArrivedAccepted
      <4> QED
          BY <4>1, <4>2
    <3>3. Decodes'
        BY <1>2, <2>2, <2>3, <2>9, <2>13, <3>1, <3>2 DEF Decodes, d
    <3> QED
        BY <1>5, <2>9, <3>1, <3>2, <3>3 DEF r, data
  <2>14. CASE message.encoding = "raw"
    <3>1. Accepts("raw", Arrived') /\ (pos' <= 1 => Accepts("zlib", Arrived'))
          /\ (pos' > 1 => ~Accepts("zlib", Arrived'))
        BY <2>4, <2>5, <2>11, <2>14, ArrivedAccepted
    <3>2. \/ d.format = "zlib" /\ d.trying /\ pos <= 1
          \/ d.format = "raw" /\ ~d.trying
        BY <2>2, <2>14 DEF Decodes, d
    <3>3. CASE d.format = "raw" /\ ~d.trying
      <4>1. Decodes'
          BY <1>2, <2>2, <2>3, <2>9, <2>14, <3>1, <3>3 DEF Decodes, d
      <4> QED
          BY <1>5, <2>9, <3>1, <3>3, <4>1 DEF r, data
    <3>4. CASE d.format = "zlib" /\ d.trying /\ pos' <= 1
      <4>1. Decodes'
          BY <1>2, <2>2, <2>3, <2>9, <2>14, <3>1, <3>4 DEF Decodes, d
      <4> QED
          BY <1>5, <2>9, <3>1, <3>4, <4>1 DEF r, data
    <3>5. CASE d.format = "zlib" /\ d.trying /\ pos' > 1
      <4>1. ~Accepts(d.format, Arrived')
          BY <3>1, <3>5
      <4>2. /\ ~r.decoder.trying /\ r.decoder.format = "raw"
            /\ r.decoder.fed = Arrived' /\ r.out = Arrived'
          BY <2>10, <3>5, <4>1
      <4>3. Arrived \in Seq(Int) /\ Len(Arrived) = pos /\ Arrived' \in Seq(Int)
        <5>1. Wire \in Seq(Int) /\ pos \in 0..Len(Wire)
            BY <1>1, WireHasShape DEF BodyTypes, TypeOK, WireShape
        <5> QED
            BY <2>4, <2>5, <5>1, FirstPart DEF Arrived
      <4>4. returned = << >>
        <5>1. returned = Output("zlib", Arrived)
            BY <2>2, <3>5 DEF Decodes, d
        <5>2. pos <= 1
            BY <3>2, <3>5
        <5>3. Output("zlib", Arrived) \in Seq(Int) /\ Len(Output("zlib", Arrived)) = 0
          <6>1. /\ Len(Prefix("zlib")) = 2 /\ Output("zlib", Arrived) \in Seq(Int)
                /\ Len(Output("zlib", Arrived)) =
                      IF Len(Prefix("zlib")) <= Len(Arrived)
                      THEN Len(Arrived) - Len(Prefix("zlib")) ELSE 0
              BY <4>3, OutputType
          <6>2. ~ (2 <= pos)
              BY <2>4, <5>2
          <6> QED
              BY <4>3, <6>1, <6>2
        <5> QED
            BY <5>1, <5>3, EmptySeq
      <4>5. returned' = Arrived'
          BY <4>2, <4>3, <4>4, ConcatEmptySeq DEF r, data
      <4>6. Output("raw", Arrived') = Arrived'
        <5>1. Len(Prefix("raw")) = 0
            BY PrefixShape, EmptySeq
        <5>2. \A bytes : Output("raw", bytes) = SubSeq(bytes, 1, Len(bytes))
            BY <5>1 DEF Output
        <5>3. \A bytes \in Seq(Int) : SubSeq(bytes, 1, Len(bytes)) = bytes
            BY SubSeqFull
        <5> QED
            BY <4>3, <5>2, <5>3
      <4>7. Decodes'
          BY <1>2, <2>3, <2>14, <4>2, <4>5, <4>6 DEF Decodes
      <4>8. data # << >>
        <5>1. CASE data = << >>
          <6>1. pos' = pos
              BY <1>2, <2>4, <5>1, EmptySeq
          <6> QED
              BY <3>2, <3>5, <6>1, <2>4
        <5> QED
            BY <5>1
      <4> QED
          BY <1>5, <4>7, <4>8 DEF data
    <3> QED
        BY <2>4, <3>2, <3>3, <3>4, <3>5
  <2> QED
      BY <2>6, <2>12, <2>13, <2>14
<1> QED
    BY <1>4, <1>5 DEF data

-----------------------------------------------------------------------------
(***************************************************************************)
(* Each call keeps the invariant.                                          *)
(***************************************************************************)

(* The types, and what is delivered, of a call that reads. *)
LEMMA ReadKeeps ==
    ASSUME NoneIsNoDecoder, BodyInv, NEW amt \in Amounts \cup {None}, ReadBytes(amt),
           returned' = returned \o Decoded(Fetched(amt)).out
    PROVE  /\ MessageType' /\ Wire' = Wire
           /\ pos' \in 0..Len(Wire) /\ pos' \in pos..Len(Wire) /\ taken' = taken /\ taken \in 0..pos'
           /\ {ended', connection', failed'} \subseteq BOOLEAN
           /\ decoder' # None => IsDecoder(decoder')
           /\ Decoded(Fetched(amt)).out \in Seq(Int) /\ returned' \in Seq(Int)
           /\ NoneForIdentity' /\ Delivered' /\ (Plain' <=> Plain)
           /\ ~failed' => ~failed /\ Decoded(Fetched(amt)).ok
<1> DEFINE data == Fetched(amt)
           r == Decoded(data)
<1>1. BodyTypes /\ NoneForIdentity /\ TypeOK /\ MessageType
    BY DEF BodyInv, BodyTypes
<1>2. data \in Seq(Int) /\ pos + Len(data) \in pos..Len(Wire)
    BY <1>1, FetchedNext
<1> HIDE DEF data
<1>3. /\ r.ok \in BOOLEAN /\ r.out \in Seq(Int)
      /\ r.decoder # None => IsDecoder(r.decoder)
      /\ message.encoding = "identity" => r.decoder = None
    BY <1>1, <1>2, DecodedResult
<1> HIDE DEF r
<1>4. /\ message' = message /\ taken' = taken /\ pos' = pos + Len(data) /\ decoder' = r.decoder
      /\ failed' = (failed \/ ~r.ok)
      /\ \E over \in Ends(amt) : ended' = over /\ connection' = (connection /\ ~over)
    BY DEF ReadBytes, ReleaseIf, r, data
<1>5. Wire' = Wire /\ (Plain' <=> Plain) /\ MessageType' /\ NoneForIdentity'
    BY <1>1, <1>3, <1>4 DEF Wire, Content, Plain, MessageType, NoneForIdentity
<1>6. pos' \in pos..Len(Wire) /\ pos' \in 0..Len(Wire) /\ taken \in 0..pos'
  <2>1. pos \in 0..Len(Wire) /\ taken \in 0..pos /\ Len(Wire) \in Nat
      BY <1>1, WireHasShape, LenProperties DEF TypeOK, WireShape
  <2> QED
      BY <1>2, <1>4, <2>1
<1>7. {ended', connection', failed'} \subseteq BOOLEAN
  <2>1. Ends(amt) \subseteq BOOLEAN
      BY DEF Ends
  <2> QED
      BY <1>1, <1>3, <1>4, <2>1 DEF TypeOK
<1>8. returned' \in Seq(Int)
  <2>1. returned \in Seq(Int) /\ returned' = returned \o r.out
      BY <1>1 DEF TypeOK, r, data
  <2> QED
      BY <1>3, <2>1, ConcatProperties
<1>9. ~failed' => ~failed /\ r.ok
    BY <1>3, <1>4
<1>10. Delivered'
  <2> SUFFICES ASSUME ~failed'
               PROVE  /\ Plain' => returned' = Arrived'
                      /\ ~Plain' /\ taken' = 0 => Decodes'
      BY DEF Delivered
  <2>1. ~failed /\ Decoded(Fetched(amt)).ok
      BY <1>9 DEF r, data
  <2> QED
      BY <1>4, <1>5, <2>1, ReadDelivers
<1> QED
    BY <1>3, <1>4, <1>5, <1>6, <1>7, <1>8, <1>9, <1>10 DEF r, data

(* The stream at its end has nothing more: what is cached stays the end of *)
(* what was returned.                                                      *)
LEMMA CachedStays ==
    ASSUME NoneIsNoDecoder, BodyInv, NEW amt \in Amounts \cup {None}, ReadBytes(amt),
           returned' = returned \o Decoded(Fetched(amt)).out, body' = body
    PROVE  Cached'
<1> SUFFICES ASSUME ~failed', Plain' \/ taken' = 0, body # << >>
             PROVE  pos' = Len(Wire') /\ IsSuffix(body, returned')
    BY DEF Cached
<1>1. /\ Wire' = Wire /\ pos' \in pos..Len(Wire) /\ taken' = taken /\ (Plain' <=> Plain)
      /\ ~failed /\ Decoded(Fetched(amt)).ok
    BY ReadKeeps
<1>2. pos = Len(Wire) /\ IsSuffix(body, returned) /\ BodyTypes /\ returned \in Seq(Int)
    BY <1>1 DEF BodyInv, Cached, BodyTypes, TypeOK
<1>3. Fetched(amt) = << >>
  <2> DEFINE data == Fetched(amt)
  <2>1. data \in Seq(Int) /\ pos + Len(data) \in pos..Len(Wire)
      BY <1>2, FetchedNext
  <2> HIDE DEF data
  <2>2. Len(Wire) \in Nat
      BY <1>2, WireHasShape, LenProperties DEF BodyTypes, WireShape
  <2>3. Len(data) = 0
      BY <1>2, <2>1, <2>2, LenProperties
  <2> QED
      BY <2>1, <2>3, EmptySeq DEF data
<1>4. Decoded(Fetched(amt)).out = << >>
    BY <1>1, <1>3, ReadDelivers
<1>5. returned' = returned
    BY <1>2, <1>4, ConcatEmptySeq
<1>6. pos' = Len(Wire)
  <2>1. Len(Wire) \in Nat
      BY <1>2, WireHasShape, LenProperties DEF BodyTypes, WireShape
  <2> QED
      BY <1>1, <1>2, <2>1
<1> QED
    BY <1>1, <1>2, <1>5, <1>6

(* A body read to its end may be cached. *)
LEMMA CachesRest ==
    ASSUME NoneIsNoDecoder, BodyInv, ReadBytes(None),
           returned' = returned \o Decoded(Fetched(None)).out,
           body' = Decoded(Fetched(None)).out
    PROVE  Cached'
<1> SUFFICES ASSUME ~failed', Plain' \/ taken' = 0, body' # << >>
             PROVE  pos' = Len(Wire') /\ IsSuffix(body', returned')
    BY DEF Cached
<1>1. /\ Wire' = Wire /\ taken' = taken /\ (Plain' <=> Plain)
      /\ ~failed /\ Decoded(Fetched(None)).ok /\ Decoded(Fetched(None)).out \in Seq(Int)
    BY ReadKeeps
<1>2. returned \in Seq(Int) /\ BodyTypes
    BY DEF BodyInv, BodyTypes, TypeOK
<1>3. Fetched(None) # << >>
    BY <1>1, ReadDelivers
<1>4. pos' = Len(Wire)
  <2>1. pos' = pos + Len(Fetched(None))
      BY DEF ReadBytes
  <2> QED
      BY <1>2, <1>3, <2>1, FetchedNext
<1> QED
    BY <1>1, <1>2, <1>4, EndsWithLast

(* How many blocks there are, and where they begin. *)
LEMMA BlockBounds ==
    ASSUME NEW l \in Nat, NEW size \in Nat \ {0}
    PROVE  LET n == (l + size - 1) \div size IN
           /\ n \in Nat
           /\ (n = 0) = (l = 0)
           /\ l <= size * n
           /\ \A i \in 1..n : size * (i - 1) < l
<1> DEFINE n == (l + size - 1) \div size
<1>1. n \in Int /\ size * n <= l + size - 1 /\ l + size - 1 < size * n + size
    OBVIOUS
<1> HIDE DEF n
<1>2. n \in Nat
  <2>1. CASE n < 0
    <3>1. size * n <= -size
        BY <2>1, <1>1
    <3> QED
        BY <3>1, <1>1
  <2> QED
      BY <1>1, <2>1
<1>3. l <= size * n
    BY <1>1
<1>4. ASSUME n = 0 PROVE l = 0
    BY <1>3, <1>4
<1>5. ASSUME l = 0, n # 0 PROVE FALSE
  <2>1. size * n >= size
      BY <1>5, <1>2
  <2> QED
      BY <2>1, <1>1, <1>5
<1>6. ASSUME NEW i \in 1..n PROVE size * (i - 1) < l
  <2>1. size * i <= size * n
      BY <1>2
  <2>2. size * (i - 1) = size * i - size
      OBVIOUS
  <2> QED
      BY <2>1, <2>2, <1>1
<1> QED
    BY <1>2, <1>3, <1>4, <1>5, <1>6 DEF n

(* The blocks that stream() returns are what it read, put together. *)
LEMMA BlocksJoin ==
    ASSUME NEW S, NEW data \in Seq(S), NEW size \in Nat \ {0}
    PROVE  FlattenSeq(Blocks(data, size)) = data
<1> DEFINE l == Len(data)
           n == (l + size - 1) \div size
           till(i) == IF size * i < l THEN size * i ELSE l
           blocks == [i \in 1..n |-> SubSeq(data, size * (i - 1) + 1, till(i))]
           g == [i \in 1..n |-> SubSeq(data, 1, till(i))]
<1>1. Blocks(data, size) = blocks
    BY DEF Blocks
<1>2. l \in Nat
    BY LenProperties
<1> HIDE DEF l
<1>3. /\ n \in Nat /\ (n = 0) = (l = 0) /\ l <= size * n
      /\ \A i \in 1..n : size * (i - 1) < l
    BY <1>2, BlockBounds
<1> HIDE DEF n
<1>4. CASE n = 0
  <2>1. blocks = << >> /\ data = << >>
      BY <1>3, <1>4, EmptySeq DEF l
  <2>2. FlattenSeq(<< >>) = << >>
      BY DEF FlattenSeq
  <2> QED
      BY <1>1, <2>1, <2>2
<1>5. CASE n # 0
  <2>1. Len(blocks) = n
      BY <1>3
  <2>2. ASSUME NEW i \in 1..n
        PROVE  g[i] = IF i = 1 THEN blocks[i] ELSE g[i-1] \o blocks[i]
    <3> DEFINE a == size * (i - 1)
               b == till(i)
    <3>1. a \in Nat /\ a < l /\ size * i = a + size
      <4>1. \A j \in Nat : size * j \in Nat
          OBVIOUS
      <4>2. i - 1 \in Nat
          BY <1>3
      <4>3. a < l
          BY <1>3
      <4>4. size * i = size * (i - 1) + size
          BY <1>3
      <4> QED
          BY <4>1, <4>2, <4>3, <4>4
    <3>2. b \in a..l
      <4> HIDE DEF a
      <4>1. b = IF a + size < l THEN a + size ELSE l
          BY <3>1
      <4> QED
          BY <1>2, <3>1, <4>1
    <3>3. g[i] = SubSeq(data, 1, b) /\ blocks[i] = SubSeq(data, a + 1, b)
        OBVIOUS
    <3>4. CASE i = 1
      <4>1. a = 0
          BY <3>4
      <4> HIDE DEF a, b, g, blocks, till
      <4>2. a + 1 = 1
          BY <4>1
      <4> QED
          BY <3>3, <3>4, <4>2
    <3>5. CASE i # 1
      <4>1. i - 1 \in 1..n
          BY <1>3, <3>5
      <4>2. till(i - 1) = a
          BY <3>1
      <4>3. g[i-1] = SubSeq(data, 1, till(i - 1))
          BY <4>1
      <4>4. g[i-1] = SubSeq(data, 1, a)
          BY <4>2, <4>3
      <4> HIDE DEF a, b, g, blocks, till
      <4>5. SubSeq(data, 1, a) \o SubSeq(data, a + 1, b) = SubSeq(data, 1, b)
        <5>1. 1 \in 1..l+1 /\ a \in 1-1..l /\ b \in a..l
            BY <1>2, <3>1, <3>2
        <5> QED
            BY <5>1, ConcatAdjacentSubSeq DEF l
      <4> QED
          BY <3>3, <3>5, <4>4, <4>5
    <3> QED
        BY <3>4, <3>5
  <2>3. g[n] = data
    <3>1. till(n) = l /\ n \in 1..n
        BY <1>2, <1>3, <1>5
    <3>2. g[n] = SubSeq(data, 1, till(n))
        BY <3>1
    <3>3. SubSeq(data, 1, l) = data
        BY SubSeqFull DEF l
    <3> QED
        BY <3>1, <3>2, <3>3
  <2> HIDE DEF g, blocks
  <2>4. n \in Nat \ {0}
      BY <1>3, <1>5
  <2>5. \A i \in 1..n : g[i] = IF i = 1 THEN blocks[i] ELSE g[i-1] \o blocks[i]
      BY <2>2
  <2>6. FlattenSeq(blocks) = g[n]
      BY <2>1, <2>4, <2>5, Flattened
  <2> QED
      BY <1>1, <2>3, <2>6
<1> QED
    BY <1>4, <1>5

(* A call that reads, and perhaps caches the body, keeps it all. *)
LEMMA ReadsStep ==
    ASSUME NoneIsNoDecoder, BodyInv, NEW amt \in Amounts \cup {None}, ReadBytes(amt),
           returned' = returned \o Decoded(Fetched(amt)).out,
           stage' \in {"new", "ready", "raised"}, seen' \in Seq(Int), recached' \in BOOLEAN,
           \/ body' = body
           \/ body' = Decoded(Fetched(None)).out /\ amt = None
    PROVE  BodyInv'
<1>1. BodyTypes'
  <2>1. body' \in Seq(Int)
      BY ReadKeeps DEF BodyInv, BodyTypes, TypeOK
  <2> QED
      BY <2>1, ReadKeeps DEF BodyTypes, TypeOK, IsDecoder, DecoderRecord, Formats
<1>2. NoneForIdentity' /\ Delivered'
    BY ReadKeeps
<1>3. Cached'
    BY CachedStays, CachesRest
<1> QED
    BY <1>1, <1>2, <1>3 DEF BodyInv

(* What leaves the stream and the cache alone. *)
LEMMA QuietStep ==
    ASSUME BodyInv, UNCHANGED <<message, pos, decoder, body, taken, returned, failed>>,
           {ended', connection', recached'} \subseteq BOOLEAN,
           stage' \in {"new", "ready", "raised"}, seen' \in Seq(Int)
    PROVE  BodyInv'
<1>1. Wire' = Wire /\ Arrived' = Arrived /\ Decoder' = Decoder /\ (Plain' <=> Plain)
    BY DEF Wire, Content, Arrived, Decoder, Plain
<1>2. BodyTypes' /\ NoneForIdentity'
    BY <1>1 DEF BodyInv, BodyTypes, MessageType, TypeOK, NoneForIdentity
<1>3. Delivered'
    BY <1>1 DEF BodyInv, Delivered, Decodes
<1>4. Cached'
    BY <1>1 DEF BodyInv, Cached
<1> QED
    BY <1>2, <1>3, <1>4 DEF BodyInv

(* readinto() delivers what is not encoded; of the rest nothing is claimed. *)
LEMMA ReadIntoStep ==
    ASSUME BodyInv, NEW n \in Amounts, ReadInto(n)
    PROVE  BodyInv'
<1> DEFINE data == Fetched(n)
           k == Len(data)
<1>1. BodyTypes /\ TypeOK /\ MessageType
    BY DEF BodyInv, BodyTypes
<1>2. /\ UNCHANGED <<message, decoder, body, bytes_read, connection, stage, failed, seen, recached>>
      /\ pos' = pos + k /\ taken' = taken + k /\ returned' = returned \o data
      /\ ended' \in Ends(n)
    BY DEF ReadInto, Returns
<1>3. Wire' = Wire /\ Decoder' = Decoder /\ (Plain' <=> Plain)
    BY <1>2 DEF Wire, Content, Decoder, Plain
<1>4. data \in Seq(Int) /\ pos + k \in pos..Len(Wire) /\ Arrived \o data = SubSeq(Wire, 1, pos + k)
    BY <1>1, FetchedNext
<1>5. Arrived' = Arrived \o data
    BY <1>2, <1>3, <1>4 DEF Arrived
<1>6. pos \in 0..Len(Wire) /\ taken \in 0..pos /\ Len(Wire) \in Nat /\ k \in Nat
  <2>1. k \in Nat
    <3> HIDE DEF data
    <3> QED
        BY <1>4, LenProperties
  <2> QED
      BY <1>1, <2>1, WireHasShape, LenProperties DEF TypeOK, WireShape
<1>7. returned \in Seq(Int)
    BY <1>1 DEF TypeOK
<1> HIDE DEF data
<1>8. k = 0 => data = << >> /\ returned' = returned
    BY <1>2, <1>4, <1>7, EmptySeq, ConcatEmptySeq
<1>9. BodyTypes'
  <2>1. ended' \in BOOLEAN
      BY <1>2 DEF Ends
  <2>2. returned' \in Seq(Int)
      BY <1>2, <1>4, <1>7, ConcatProperties
  <2>3. MessageType'
      BY <1>1, <1>2 DEF MessageType
  <2> HIDE DEF k
  <2>4. pos' \in 0..Len(Wire') /\ taken' \in 0..pos'
      BY <1>2, <1>3, <1>4, <1>6
  <2> QED
      BY <1>1, <1>2, <2>1, <2>2, <2>3, <2>4 DEF BodyTypes, TypeOK
<1>10. Delivered'
  <2> SUFFICES ASSUME ~failed
               PROVE  /\ Plain => returned' = Arrived'
                      /\ ~Plain /\ taken' = 0 => Decodes'
      BY <1>2, <1>3 DEF Delivered
  <2>1. ASSUME Plain PROVE returned' = Arrived'
      BY <1>2, <1>5, <2>1 DEF BodyInv, Delivered
  <2>2. ASSUME ~Plain, taken' = 0 PROVE Decodes'
    <3>1. k = 0 /\ taken = 0 /\ pos' = pos
      <4> HIDE DEF k
      <4> QED
          BY <1>2, <1>6, <2>2
    <3>2. Arrived' = Arrived /\ returned' = returned
        BY <1>3, <1>8, <3>1 DEF Arrived
    <3>3. Decodes
        BY <2>2, <3>1 DEF BodyInv, Delivered
    <3> QED
        BY <1>2, <1>3, <3>1, <3>2, <3>3 DEF Decodes
  <2> QED
      BY <2>1, <2>2
<1>11. Cached'
  <2> SUFFICES ASSUME ~failed, Plain \/ taken' = 0, body # << >>
               PROVE  pos' = Len(Wire) /\ IsSuffix(body, returned')
      BY <1>2, <1>3 DEF Cached
  <2>1. Plain \/ taken = 0
    <3> HIDE DEF k
    <3> QED
        BY <1>2, <1>6
  <2>2. pos = Len(Wire) /\ IsSuffix(body, returned)
      BY <2>1 DEF BodyInv, Cached
  <2>3. k = 0 /\ pos' = Len(Wire)
    <3> HIDE DEF k
    <3> QED
        BY <1>2, <1>4, <1>6, <2>2
  <2> QED
      BY <1>8, <2>2, <2>3
<1>12. NoneForIdentity'
    BY <1>2 DEF BodyInv, NoneForIdentity
<1> QED
    BY <1>9, <1>10, <1>11, <1>12 DEF BodyInv

(* A read that failed leaves nothing to claim but the types. *)
LEMMA ReadFailsStep ==
    ASSUME NoneIsNoDecoder, BodyInv, ReadFails
    PROVE  BodyInv'
<1>1. /\ UNCHANGED <<message, pos, body, bytes_read, taken, returned, seen, recached>>
      /\ failed' = TRUE /\ decoder' = Decoder /\ stage' \in {stage, "raised"}
      /\ \E over \in BOOLEAN : ended' = over /\ connection' = (connection /\ ~over)
    BY DEF ReadFails, ReleaseIf
<1>2. Delivered' /\ Cached'
    BY <1>1 DEF Delivered, Cached
<1>3. NoneForIdentity' /\ (decoder' # None => IsDecoder(decoder'))
    BY <1>1, DecoderIsOne DEF BodyInv, NoneForIdentity, Decoder, NewDecoder
<1>4. BodyTypes'
    BY <1>1, <1>3 DEF BodyInv, BodyTypes, MessageType, TypeOK, Wire, Content, IsDecoder, DecoderRecord,
       Formats
<1> QED
    BY <1>2, <1>3, <1>4 DEF BodyInv

(* Each step keeps the invariant. *)
LEMMA BodyStep ==
    ASSUME NoneIsNoDecoder, BodyInv, [Next]_vars
    PROVE  BodyInv'
<1>1. /\ body \in Seq(Int) /\ seen \in Seq(Int) /\ stage \in {"new", "ready", "raised"}
      /\ {ended, connection, failed, recached} \subseteq BOOLEAN
    BY DEF BodyInv, BodyTypes, TypeOK
<1>2. CASE Construct
  <2>1. CASE message.preload
    <3>1. /\ ReadBytes(None) /\ returned' = returned \o Decoded(Fetched(None)).out
          /\ body' = Decoded(Fetched(None)).out /\ stage' \in {"ready", "raised"}
          /\ seen' = seen /\ recached' = recached
        BY <1>2, <2>1 DEF Construct, Returns
    <3> QED
        BY <1>1, <3>1, ReadsStep
  <2>2. CASE ~message.preload
      BY <1>1, <1>2, <2>2, QuietStep DEF Construct
  <2> QED
      BY <2>1, <2>2
<1>3. CASE Data
  <2>1. CASE body # << >>
      BY <1>1, <1>3, <2>1, QuietStep DEF Data
  <2>2. CASE body = << >>
    <3> DEFINE r == Decoded(Fetched(None))
    <3>1. /\ ReadBytes(None) /\ returned' = returned \o r.out
          /\ body' = (IF r.ok THEN r.out ELSE body) /\ seen' = (IF r.ok THEN r.out ELSE seen)
          /\ stage' = stage /\ recached' = recached
        BY <1>3, <2>2 DEF Data, Returns
    <3>2. r.out \in Seq(Int)
        BY <3>1, ReadKeeps
    <3> QED
        BY <1>1, <3>1, <3>2, ReadsStep
  <2> QED
      BY <2>1, <2>2
<1>4. ASSUME NEW amt \in Amounts \cup {None}, NEW cache \in BOOLEAN, Read(amt, cache)
      PROVE  BodyInv'
  <2> DEFINE r == Decoded(Fetched(amt))
             caches == cache /\ amt = None /\ r.ok
  <2>1. /\ ReadBytes(amt) /\ returned' = returned \o r.out
        /\ body' = (IF caches THEN r.out ELSE body)
        /\ recached' = (recached \/ (caches /\ body # << >>))
        /\ stage' = stage /\ seen' = seen
      BY <1>4 DEF Read, Returns
  <2> QED
      BY <1>1, <2>1, ReadsStep
<1>5. ASSUME NEW n \in Amounts \ {0}, Stream(n) PROVE BodyInv'
  <2> DEFINE out == Decoded(Fetched(None)).out
  <2>1. /\ ReadBytes(None) /\ returned' = returned \o FlattenSeq(Blocks(out, n))
        /\ UNCHANGED <<body, stage, seen, recached>>
      BY <1>5 DEF Stream, Returns
  <2>2. out \in Seq(Int)
    <3>1. BodyTypes /\ NoneForIdentity /\ Fetched(None) \in Seq(Int)
        BY FetchedNext DEF BodyInv
    <3> QED
        BY <3>1, DecodedResult
  <2>3. FlattenSeq(Blocks(out, n)) = out
    <3> HIDE DEF out
    <3>1. n \in Nat \ {0}
        BY BodyConstants
    <3> QED
        BY <2>2, <3>1, BlocksJoin
  <2> QED
      BY <1>1, <2>1, <2>3, ReadsStep
<1>6. ASSUME NEW n \in Amounts \ {0}, ReadInto(n) PROVE BodyInv'
    BY <1>6, ReadIntoStep
<1>7. CASE ReadFails
    BY <1>7, ReadFailsStep
<1>8. CASE Release \/ Close
    BY <1>1, <1>8, QuietStep DEF Release, Close, ReleaseIf
<1>9. CASE UNCHANGED vars
    BY <1>1, <1>9, QuietStep DEF vars
<1> QED
    BY <1>2, <1>3, <1>4, <1>5, <1>6, <1>7, <1>8, <1>9 DEF Next

(* Nothing decodes to nothing. *)
LEMMA OutputOfNothing ==
    ASSUME NEW format
    PROVE  Output(format, << >>) = << >>
<1>1. << >> \in Seq(Int) /\ Len(<< >>) = 0
    BY EmptySeq
<1>2. /\ Len(Prefix(format)) = IF format \in {"zlib", "gzip"} THEN 2 ELSE 0
      /\ Output(format, << >>) \in Seq(Int)
      /\ Len(Output(format, << >>)) =
            IF Len(Prefix(format)) <= Len(<< >>) THEN Len(<< >>) - Len(Prefix(format)) ELSE 0
    BY <1>1, OutputType
<1>3. Len(Output(format, << >>)) = 0
    BY <1>1, <1>2
<1> QED
    BY <1>2, <1>3, EmptySeq

(* Nothing has arrived, and nothing was returned. *)
LEMMA BodyInit ==
    ASSUME Init
    PROVE  BodyInv
<1>1. /\ message.encoding \in Encodings /\ message.length \in 0..MaxLength
      /\ {message.framed, message.decode, message.preload} \subseteq BOOLEAN
      /\ message.encoding = "raw" => message.length # 1
      /\ pos = 0 /\ ended = FALSE /\ decoder = None /\ body = << >> /\ connection = TRUE
      /\ stage = "new" /\ taken = 0 /\ returned = << >> /\ failed = FALSE /\ seen = << >>
      /\ recached = FALSE
    BY DEF Init
<1>2. MessageType
    BY <1>1, BodyConstants DEF MessageType
<1>3. Wire \in Seq(Int) /\ Len(Wire) \in Nat /\ (message.encoding = "damaged" => 0 < Len(Wire))
  <2>1. WireShape /\ message.length \in Nat
      BY <1>2, WireHasShape DEF MessageType
  <2> QED
      BY <2>1, LenProperties DEF WireShape, Ahead
<1>4. BodyTypes
  <2>1. pos \in 0..Len(Wire) /\ taken \in 0..pos
      BY <1>1, <1>3
  <2>2. << >> \in Seq(Int)
      BY EmptySeq
  <2> QED
      BY <1>1, <1>2, <2>1, <2>2 DEF BodyTypes, TypeOK
<1>5. Arrived = << >>
    BY <1>1, SubSeqEmpty DEF Arrived
<1>6. Decoder = NewDecoder(message.encoding)
    BY <1>1 DEF Decoder
<1>7. ~Plain => Decodes
  <2>1. returned = Output(Decoder.format, Arrived)
      BY <1>1, <1>5, OutputOfNothing
  <2> QED
      BY <1>1, <1>2, <1>3, <1>5, <1>6, <2>1
         DEF Plain, Decodes, NewDecoder, MessageType, AllEncodings
<1> QED
    BY <1>1, <1>4, <1>5, <1>7 DEF BodyInv, NoneForIdentity, Delivered, Cached

(* Whatever the decoder was fed, its output is the beginning of the content. *)
LEMMA DeliveredIsFaithful ==
    ASSUME BodyInv
    PROVE  Faithful
<1> DEFINE expected == IF message.decode THEN Content ELSE Wire
           l == message.length
           n == Len(Wire)
<1>1. BodyTypes /\ MessageType /\ TypeOK /\ Delivered /\ Cached
    BY DEF BodyInv, BodyTypes
<1> SUFFICES ASSUME ~failed, message.decode /\ message.encoding # "identity" => taken = 0
             PROVE  /\ IsPrefix(returned, expected)
                    /\ IsSuffix(body, returned)
                    /\ pos = n => /\ returned = expected
                                  /\ ~(message.decode /\ message.encoding = "damaged")
    BY DEF Faithful
<1>2. /\ Wire \in Seq(Int) /\ n \in Nat /\ l \in Nat /\ pos \in 0..n /\ pos \in Nat
      /\ n = Ahead + l + IF message.encoding = "damaged" THEN 1 ELSE 0
      /\ \A i \in 1..l : Wire[Ahead + i] = i
  <2>1. WireShape
      BY <1>1, WireHasShape
  <2>2. n \in Nat /\ pos \in 0..n
      BY <1>1, <2>1, LenProperties DEF WireShape, TypeOK
  <2> QED
      BY <1>1, <2>1, <2>2 DEF WireShape, MessageType
<1>3. Content \in Seq(Int) /\ Len(Content) = l /\ \A i \in 1..l : Content[i] = i
    BY <1>1, ContentShape
<1>4. Arrived \in Seq(Int) /\ Len(Arrived) = pos /\ \A i \in 1..pos : Arrived[i] = Wire[i]
    BY <1>2, FirstPart DEF Arrived
<1>5. returned \in Seq(Int) /\ (Plain \/ taken = 0)
    BY <1>1 DEF TypeOK, Plain
<1>6. IsSuffix(body, returned)
  <2>1. CASE body # << >>
      BY <1>1, <1>5, <2>1 DEF Cached
  <2>2. CASE body = << >>
    <3>1. returned \o << >> = returned /\ << >> \in Seq(Int) /\ returned \in Seq(Int)
        BY <1>1, EmptySeq, ConcatEmptySeq DEF TypeOK
    <3> QED
        BY <2>2, <3>1, EndsWithLast
  <2> QED
      BY <2>1, <2>2
<1> HIDE DEF n, l
<1>7. CASE Plain
  <2>1. returned = Arrived
      BY <1>1, <1>7 DEF Delivered
  <2>2. expected = Wire
    <3>1. CASE message.encoding = "identity"
      <4>1. Wire = << >> \o Content
          BY <3>1, PrefixShape DEF Wire
      <4> QED
          BY <1>3, <4>1, ConcatEmptySeq
    <3>2. CASE message.encoding # "identity"
        BY <1>7, <3>2 DEF Plain
    <3> QED
        BY <3>1, <3>2
  <2>3. IsPrefix(returned, expected)
    <3>1. Len(Arrived) <= Len(Wire)
        BY <1>2, <1>4 DEF n
    <3> QED
        BY <1>2, <1>4, <2>1, <2>2, <3>1, PrefixByItems
  <2>4. pos = n => returned = expected
      BY <1>2, <2>1, <2>2, SubSeqFull DEF Arrived, n
  <2>5. ~(message.decode /\ message.encoding = "damaged")
      BY <1>7 DEF Plain
  <2> QED
      BY <1>6, <2>3, <2>4, <2>5
<1>8. CASE ~Plain
  <2>1. Decodes
      BY <1>1, <1>5, <1>8 DEF Delivered
  <2>2. expected = Content
      BY <1>8 DEF Plain
  <2> DEFINE f == Decoder.format
             p == Len(Prefix(f))
  <2>3. /\ p = (IF f \in {"zlib", "gzip"} THEN 2 ELSE 0)
        /\ returned = Output(f, Arrived)
        /\ Len(returned) = IF p <= pos THEN pos - p ELSE 0
        /\ \A i \in 1..pos - p : returned[i] = Arrived[p + i]
    <3>1. returned = Output(f, Arrived)
        BY <2>1 DEF Decodes
    <3>2. /\ p = (IF f \in {"zlib", "gzip"} THEN 2 ELSE 0)
          /\ Len(Output(f, Arrived)) = IF p <= Len(Arrived) THEN Len(Arrived) - p ELSE 0
          /\ \A i \in 1..Len(Arrived) - p : Output(f, Arrived)[i] = Arrived[p + i]
        BY <1>4, OutputType
    <3> HIDE DEF f, p
    <3> QED
        BY <1>4, <3>1, <3>2
  <2>4. /\ message.encoding \in {"gzip", "zlib", "damaged"} => p = 2
        /\ message.encoding = "raw" => p = 0 \/ (p = 2 /\ pos <= 1)
        /\ message.encoding = "damaged" => pos < n
    <3>1. f = Decoder.format
        OBVIOUS
    <3> HIDE DEF f, p
    <3> QED
        BY <2>1, <2>3, <3>1 DEF Decodes, n
  <2>5. message.encoding \in {"gzip", "zlib", "damaged", "raw"}
      BY <1>1, <1>8 DEF Plain, MessageType, AllEncodings
  <2>6. Len(returned) <= l /\ \A i \in 1..Len(returned) : returned[i] = i /\ i \in 1..l
    <3> HIDE DEF f, p
    <3>1. CASE p = Ahead
      <4>1. Len(returned) <= l
          BY <1>2, <2>3, <2>4, <2>5, <3>1 DEF Ahead
      <4>2. ASSUME NEW i \in 1..Len(returned) PROVE returned[i] = i /\ i \in 1..l
        <5>1. i \in 1..pos - p /\ i \in 1..l /\ p + i \in 1..pos
            BY <1>2, <2>3, <2>4, <3>1, <4>1 DEF Ahead
        <5> QED
            BY <1>2, <1>4, <2>3, <3>1, <5>1
      <4> QED
          BY <4>1, <4>2
    <3>2. CASE p # Ahead
      <4>1. p = 2 /\ pos <= 1
          BY <2>4, <2>5, <3>2 DEF Ahead
      <4>2. Len(returned) = 0
          BY <1>2, <2>3, <4>1
      <4> QED
          BY <1>2, <4>2
    <3> QED
        BY <3>1, <3>2
  <2>7. IsPrefix(returned, Content)
    <3>1. Len(returned) <= Len(Content) /\ \A i \in 1..Len(returned) : returned[i] = Content[i]
        BY <1>3, <2>6
    <3>2. returned \in Seq(Int)
        BY <1>1 DEF TypeOK
    <3> QED
        BY <1>3, <3>1, <3>2, PrefixByItems
  <2>8. ASSUME pos = n PROVE returned = Content /\ message.encoding # "damaged"
    <3> HIDE DEF f, p
    <3>1. message.encoding # "damaged"
        BY <1>2, <2>4, <2>8
    <3>2. Len(returned) = l
      <4>1. CASE message.encoding \in {"gzip", "zlib"}
        <5>1. p = 2 /\ n = 2 + l
            BY <1>2, <2>4, <4>1 DEF Ahead
        <5> QED
            BY <1>2, <2>3, <2>8, <5>1
      <4>2. CASE message.encoding = "raw"
        <5>1. n = l /\ l # 1
            BY <1>1, <1>2, <4>2 DEF Ahead, MessageType, l
        <5> QED
            BY <1>2, <2>3, <2>4, <2>8, <4>2, <5>1
      <4> QED
          BY <2>5, <3>1, <4>1, <4>2
    <3>3. returned \in Seq(Int)
        BY <1>1 DEF TypeOK
    <3>4. \A i \in 1..Len(returned) : returned[i] = Content[i]
        BY <1>3, <2>6
    <3>5. returned = Content
        BY <1>3, <3>2, <3>3, <3>4, SeqEqual
    <3> QED
        BY <3>1, <3>5
  <2> QED
      BY <1>6, <2>2, <2>7, <2>8
<1> QED
    BY <1>7, <1>8
-----------------------------------------------------------------------------
(***************************************************************************)
(* Positions stay on the wire, decoders are of a known format and only try *)
(* while they take what they get for zlib, and bodies are bytes            *)
(* (response.py:16-37).                                                    *)
(***************************************************************************)
THEOREM BodyTypeCorrect ==
    ASSUME NoneIsNoDecoder
    PROVE  Spec => []TypeOK
<1>1. BodyInv => TypeOK
    BY DEF BodyInv, BodyTypes
<1> QED
    BY <1>1, BodyInit, BodyStep, PTL DEF Spec

(***************************************************************************)
(* However a body is read: by amounts, in blocks, into buffers or at once, *)
(* what is returned is its beginning, all of it at the end, each byte      *)
(* once; what is cached is its end; and no damaged body passes for a       *)
(* whole one (response.py:24-37, 156-251, 279-287).                        *)
(***************************************************************************)
THEOREM BodyIsFaithful ==
    ASSUME NoneIsNoDecoder
    PROVE  Spec => []Faithful
<1> QED
    BY BodyInit, BodyStep, DeliveredIsFaithful, PTL DEF Spec

(***************************************************************************)
(* tell() counts each byte that read() pulls over the wire, once, and      *)
(* nothing else (response.py:148-154, 230).                                *)
(***************************************************************************)
THEOREM TellsWhatWasRead ==
    ASSUME NoneIsNoDecoder
    PROVE  Spec => []TellsWireBytes
<1>1. Init => TellsWireBytes
    BY DEF Init, TellsWireBytes
<1>2. BodyInv /\ TellsWireBytes /\ bytes_read \in Int /\ [Next]_vars
         => TellsWireBytes' /\ (bytes_read \in Int)'
  <2> SUFFICES ASSUME BodyInv, TellsWireBytes, bytes_read \in Int, [Next]_vars
               PROVE  TellsWireBytes' /\ (bytes_read \in Int)'
      OBVIOUS
  <2>1. BodyTypes /\ pos \in Int /\ taken \in Int
    <3>1. Len(Wire) \in Nat /\ pos \in 0..Len(Wire) /\ taken \in 0..pos /\ BodyTypes
        BY WireHasShape, LenProperties DEF BodyInv, BodyTypes, TypeOK, WireShape
    <3> QED
        BY <3>1
  <2>2. ASSUME NEW amt \in Amounts \cup {None} PROVE Len(Fetched(amt)) \in Int
    <3>1. Fetched(amt) \in Seq(Int)
        BY <2>1, FetchedNext
    <3> QED
        BY <3>1, LenProperties
  <2>3. ASSUME NEW amt \in Amounts \cup {None}, ReadBytes(amt)
        PROVE  TellsWireBytes' /\ (bytes_read \in Int)'
    <3> DEFINE k == Len(Fetched(amt))
    <3>1. pos' = pos + k /\ bytes_read' = bytes_read + k /\ taken' = taken /\ k \in Int
        BY <2>2, <2>3 DEF ReadBytes, Counted
    <3> HIDE DEF k
    <3> QED
        BY <2>1, <3>1 DEF TellsWireBytes
  <2>4. ASSUME NEW n \in Amounts \ {0}, ReadInto(n)
        PROVE  TellsWireBytes' /\ (bytes_read \in Int)'
    <3> DEFINE k == Len(Fetched(n))
    <3>1. pos' = pos + k /\ bytes_read' = bytes_read /\ taken' = taken + k /\ k \in Int
        BY <2>2, <2>4 DEF ReadInto
    <3> HIDE DEF k
    <3> QED
        BY <2>1, <3>1 DEF TellsWireBytes
  <2>5. ASSUME UNCHANGED <<pos, bytes_read, taken>>
        PROVE  TellsWireBytes' /\ (bytes_read \in Int)'
      BY <2>5 DEF TellsWireBytes
  <2>6. CASE Construct
      BY <2>3, <2>5, <2>6 DEF Construct
  <2>7. CASE Data
      BY <2>3, <2>5, <2>7 DEF Data
  <2>8. ASSUME NEW amt \in Amounts \cup {None}, NEW cache \in BOOLEAN, Read(amt, cache)
        PROVE  TellsWireBytes' /\ (bytes_read \in Int)'
      BY <2>3, <2>8 DEF Read
  <2>9. ASSUME NEW n \in Amounts \ {0}, Stream(n)
        PROVE  TellsWireBytes' /\ (bytes_read \in Int)'
      BY <2>3, <2>9 DEF Stream
  <2>10. CASE ReadFails \/ Release \/ Close \/ UNCHANGED vars
      BY <2>5, <2>10 DEF ReadFails, Release, Close, vars
  <2> QED
      BY <2>4, <2>6, <2>7, <2>8, <2>9, <2>10 DEF Next
<1>3. Init => bytes_read \in Int
    BY DEF Init
<1> QED
    BY <1>1, <1>2, <1>3, BodyInit, BodyStep, PTL DEF Spec

(***************************************************************************)
(* A call that meets the end of the body has returned the connection when  *)
(* it is done, also if what it read cannot be decoded: except close() and  *)
(* readinto() (response.py:249-251, 325-346, 365-373).                     *)
(***************************************************************************)
THEOREM EndReturnsConnection == Spec => EndReleases
<1> DEFINE Ended == ~ended /\ ended' /\ connection'
<1>1. ASSUME NEW amt, ReadBytes(amt) PROVE ~Ended
  <2>1. PICK over \in Ends(amt) : ended' = over /\ connection' = (connection /\ ~over)
      BY <1>1 DEF ReadBytes, ReleaseIf
  <2> QED
      BY <2>1, Zenon
<1>2. ASSUME UNCHANGED ended PROVE ~Ended
    BY <1>2
<1>3. ASSUME ReadFails PROVE ~Ended
  <2>1. PICK over \in BOOLEAN : ended' = over /\ connection' = (connection /\ ~over)
      BY <1>3 DEF ReadFails, ReleaseIf
  <2> QED
      BY <2>1, Zenon
<1>4. Construct => ~Ended
    BY <1>1, <1>2 DEF Construct
<1>5. Data => ~Ended
    BY <1>1, <1>2 DEF Data
<1>6. \A amt, cache : Read(amt, cache) => ~Ended
    BY <1>1 DEF Read
<1>7. \A n : Stream(n) => ~Ended
    BY <1>1 DEF Stream
<1>8. Release => ~Ended
    BY <1>2 DEF Release
<1>9. UNCHANGED vars => ~Ended
    BY <1>2 DEF vars
<1> HIDE DEF Ended
<1>10. [Next]_vars => [Ended => Close \/ \E n \in Amounts : ReadInto(n)]_vars
    BY <1>3, <1>4, <1>5, <1>6, <1>7, <1>8, <1>9 DEF Next
<1> QED
    BY <1>10, PTL DEF Spec, EndReleases, Ended

(* Until another body is cached over it, `data` gives the one cached. *)
DataIsCached ==
    /\ seen # << >> /\ ~recached => body = seen
    /\ stage = "new" => seen = << >>

(***************************************************************************)
(* `data`, once it gave a body, goes on giving it, as long as no caller    *)
(* has another cached over it (response.py:137-146, 244-245).              *)
(***************************************************************************)
THEOREM DataStaysWhatItWas == Spec => DataIsStable
<1>1. Init => DataIsCached
    BY DEF Init, DataIsCached
<1>2. DataIsCached /\ [Next]_vars
         => DataIsCached' /\ [seen # << >> /\ ~recached => seen' = seen]_vars
  <2> DEFINE Kept == DataIsCached' /\ (seen # << >> /\ ~recached => seen' = seen)
  <2> SUFFICES ASSUME DataIsCached, [Next]_vars PROVE Kept
      OBVIOUS
  <2>1. ASSUME UNCHANGED <<body, seen, recached, stage>> PROVE Kept
      BY <2>1 DEF DataIsCached
  <2>2. CASE Construct
    <3>1. stage = "new" /\ stage' # "new" /\ seen' = seen
        BY <2>2 DEF Construct
    <3> QED
        BY <3>1 DEF DataIsCached
  <2>3. CASE Data
    <3>1. stage = "ready" /\ stage' = stage /\ recached' = recached
        BY <2>3 DEF Data
    <3>2. \/ body # << >> /\ seen' = body /\ body' = body
          \/ body = << >> /\ body' = body /\ seen' = seen
          \/ body = << >> /\ body' = seen'
        BY <2>3 DEF Data
    <3> QED
        BY <3>1, <3>2 DEF DataIsCached
  <2>4. ASSUME NEW amt \in Amounts \cup {None}, NEW cache \in BOOLEAN, Read(amt, cache)
        PROVE  Kept
    <3> DEFINE r == Decoded(Fetched(amt))
               caches == cache /\ amt = None /\ r.ok
    <3>1. /\ body' = (IF caches THEN r.out ELSE body)
          /\ recached' = (recached \/ (caches /\ body # << >>))
          /\ stage' = stage /\ seen' = seen
        BY <2>4 DEF Read
    <3> HIDE DEF caches, r
    <3> QED
        BY <3>1 DEF DataIsCached
  <2>5. ASSUME NEW n \in Amounts \ {0}, Stream(n) \/ ReadInto(n) PROVE Kept
      BY <2>1, <2>5 DEF Stream, ReadInto
  <2>6. CASE ReadFails
      BY <2>6 DEF ReadFails, DataIsCached
  <2>7. CASE Release \/ Close \/ UNCHANGED vars
      BY <2>1, <2>7 DEF Release, Close, vars
  <2> QED
      BY <2>2, <2>3, <2>4, <2>5, <2>6, <2>7 DEF Next
<1> QED
    BY <1>1, <1>2, PTL DEF Spec, DataIsStable
=============================================================================
