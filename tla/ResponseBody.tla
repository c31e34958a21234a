---------------------------- MODULE ResponseBody ----------------------------
(***************************************************************************)
(* HTTPResponse of yieldfrom_t/urllib3/response.py over a response of      *)
(* http.client: reading in pieces, decoding, the cached body, and when the *)
(* connection goes back to the pool.                                       *)
(*                                                                         *)
(* One task uses the response, one call after the other: a second reader   *)
(* of the same stream is refused by trollius, so each call is one step.    *)
(***************************************************************************)
EXTENDS Integers, Sequences, SequencesExt

CONSTANTS
    MaxLength,  \* bodies have 0..MaxLength tokens
    Encodings,  \* how they are sent: a subset of AllEncodings
    Amounts,    \* the amt that callers pass to read()
    None        \* no amt; no decoder

(***************************************************************************)
(* identity carries no content-encoding; zlib and raw are the two meanings *)
(* of `deflate` in use; damaged is zlib with a byte that is no code at its *)
(* end.  No raw stream consists of one byte, or looks like zlib.           *)
(***************************************************************************)
AllEncodings == {"identity", "gzip", "zlib", "raw", "damaged"}

ASSUME BodyConstants ==
    /\ MaxLength \in Nat
    /\ Encodings \subseteq AllEncodings
    /\ Amounts \subseteq Nat
    /\ None \notin Nat

VARIABLES
    message,     \* what the server sends, and the options of the response
    pos, ended,  \* http.client: how much has been read, whether isclosed()
    decoder,     \* self._decoder
    body,        \* self._body; empty also for None, as its users treat it
    bytes_read,  \* self._fp_bytes_read
    connection,  \* whether self._connection is set
    stage,       \* new until init(), then ready; raised if init() raises
    taken,       \* how much readinto() took past read()
    returned,    \* what the reads have returned so far, put together
    failed,      \* whether a read has raised
    seen,        \* what `data` gave last
    recached     \* whether a caller had another body cached over one

vars == <<message, pos, ended, decoder, body, bytes_read, connection, stage,
          taken, returned, failed, seen, recached>>

Content == [i \in 1..message.length |-> i]

(* Bytes of a header, and one that no decoder accepts. *)
ZlibByte == 0
GzipByte == -1
BadByte  == -2

(* What precedes the content in each format; the check needs all of it. *)
Prefix(format) ==
    CASE format = "zlib" -> <<ZlibByte, ZlibByte>>
      [] format = "gzip" -> <<GzipByte, GzipByte>>
      [] OTHER -> << >>

Wire ==
    CASE message.encoding = "damaged" -> Append(Prefix("zlib") \o Content, BadByte)
      [] OTHER -> Prefix(message.encoding) \o Content

Init ==
    /\ message \in [encoding : Encodings, length : 0..MaxLength, framed : BOOLEAN,
                    decode : BOOLEAN, preload : BOOLEAN]
    /\ message.encoding = "raw" => message.length # 1
    /\ pos = 0 /\ ended = FALSE
    /\ decoder = None
    /\ body = << >>
    /\ bytes_read = 0
    /\ connection = TRUE
    /\ stage = "new"
    /\ taken = 0 /\ returned = << >> /\ failed = FALSE /\ seen = << >> /\ recached = FALSE
-----------------------------------------------------------------------------
(***************************************************************************)
(* A zlib.decompressobj: the format it expects and what it has been fed.   *)
(* One that has failed goes on failing.                                    *)
(***************************************************************************)
Accepts(format, bytes) ==
    LET n == Len(Prefix(format)) IN
    /\ format # "spoilt"
    /\ Len(bytes) >= n =>
          /\ SubSeq(bytes, 1, n) = Prefix(format)
          /\ \A i \in n+1..Len(bytes) : bytes[i] > 0

Output(format, bytes) == SubSeq(bytes, Len(Prefix(format)) + 1, Len(bytes))

(* DeflateDecoder keeps what it was fed while _first_try, gzip does not. *)
NewDecoder(encoding) ==
    CASE encoding = "identity" -> None
      [] encoding = "gzip" -> [trying |-> FALSE, data |-> << >>, format |-> "gzip", fed |-> << >>]
      [] OTHER -> [trying |-> TRUE, data |-> << >>, format |-> "zlib", fed |-> << >>]

Decoding(ok, d, out) == [ok |-> ok, decoder |-> d, out |-> out]

Direct(d, data) ==
    LET fed == d.fed \o data IN
    IF Accepts(d.format, fed)
    THEN Decoding(TRUE, [d EXCEPT !.fed = fed],
                  SubSeq(Output(d.format, fed), Len(Output(d.format, d.fed)) + 1,
                         Len(Output(d.format, fed))))
    ELSE Decoding(FALSE, [d EXCEPT !.format = "spoilt"], << >>)

RawDecoder == [trying |-> FALSE, data |-> << >>, format |-> "raw", fed |-> << >>]

DecompressForgetful(d, data) ==
    LET first == Direct(d, data) IN
    IF first.ok \/ ~d.trying THEN first ELSE Direct(RawDecoder, data)

DecompressTryingOn(d, data) ==
    LET kept  == IF d.trying THEN [d EXCEPT !.data = @ \o data] ELSE d
        first == Direct(kept, data)
    IN  IF first.ok \/ ~d.trying THEN first
        ELSE Direct([RawDecoder EXCEPT !.trying = TRUE], kept.data)

(***************************************************************************)
(* decompress(): what turns out not to be zlib is decoded again, from the  *)
(* first byte, as raw deflate.                                             *)
(***************************************************************************)
Decompress(d, data) ==
    LET kept  == IF d.trying THEN [d EXCEPT !.data = @ \o data] ELSE d
        first == Direct(kept, data)
    IN  IF first.ok \/ ~d.trying THEN first ELSE Direct(RawDecoder, kept.data)
-----------------------------------------------------------------------------
Rest == SubSeq(Wire, pos + 1, Len(Wire))

(* What http.client's read(amt) gets from the stream. *)
Fetched(amt) ==
    IF ended THEN << >>
    ELSE IF amt = None \/ amt > Len(Rest) THEN Rest ELSE SubSeq(Rest, 1, amt)

(***************************************************************************)
(* Whether it, or read() for it, then closes the response: with a length   *)
(* it knows, when that is reached; else when there was nothing left, or    *)
(* (the last chunk) less than asked for.                                   *)
(***************************************************************************)
Ends(amt) ==
    IF ended \/ amt = None \/ (message.framed /\ Len(Fetched(amt)) = Len(Rest)) THEN {TRUE}
    ELSE IF amt = 0 THEN {FALSE}
    ELSE IF Rest = << >> THEN {TRUE}
    ELSE IF amt > Len(Rest) THEN BOOLEAN ELSE {FALSE}

(* The finally clause of read(), and release_conn(). *)
ReleaseIf(over) == connection' = (connection /\ ~over)

Decoder == IF decoder = None THEN NewDecoder(message.encoding) ELSE decoder

(* What read(amt) makes of the bytes it fetched. *)
Decoded(data) ==
    IF message.decode /\ Decoder # None THEN Decompress(Decoder, data)
    ELSE Decoding(TRUE, Decoder, data)

CountedDecoded(amt) == bytes_read' = bytes_read + Len(Decoded(Fetched(amt)).out)

Counted(amt) == bytes_read' = bytes_read + Len(Fetched(amt))

ReadThrough(amt) ==
    LET result == Decoded(Fetched(amt)) IN
    /\ pos' = pos + Len(Fetched(amt))
    /\ Counted(amt)
    /\ decoder' = result.decoder
    /\ failed' = (failed \/ ~result.ok)
    /\ \E over \in Ends(amt) : ended' = over /\ ReleaseIf(over /\ result.ok)
    /\ UNCHANGED <<message, taken>>

(***************************************************************************)
(* read(amt).  The connection is released when the response is closed by   *)
(* then, whether or not the bytes could be decoded.                        *)
(***************************************************************************)
ReadBytes(amt) ==
    LET result == Decoded(Fetched(amt)) IN
    /\ pos' = pos + Len(Fetched(amt))
    /\ Counted(amt)
    /\ decoder' = result.decoder
    /\ failed' = (failed \/ ~result.ok)
    /\ \E over \in Ends(amt) : ended' = over /\ ReleaseIf(over)
    /\ UNCHANGED <<message, taken>>

Returns(data) == returned' = returned \o data
-----------------------------------------------------------------------------
(***************************************************************************)
(* from_httplib: init() preloads the body if asked to.                     *)
(***************************************************************************)
Construct ==
    /\ stage = "new"
    /\ IF message.preload
       THEN /\ ReadBytes(None)
            /\ body' = Decoded(Fetched(None)).out
            /\ Returns(Decoded(Fetched(None)).out)
            /\ stage' = IF Decoded(Fetched(None)).ok THEN "ready" ELSE "raised"
       ELSE /\ stage' = "ready"
            /\ UNCHANGED <<message, pos, ended, decoder, body, bytes_read,
                           connection, taken, returned, failed>>
    /\ UNCHANGED <<seen, recached>>

(* read(amt, cache_content=cache); only a whole body is cached. *)
Read(amt, cache) ==
    LET result == Decoded(Fetched(amt))
        caches == cache /\ amt = None /\ result.ok
    IN
    /\ stage = "ready"
    /\ ReadBytes(amt)
    /\ Returns(result.out)
    /\ body' = IF caches THEN result.out ELSE body
    /\ recached' = (recached \/ (caches /\ body # << >>))
    /\ UNCHANGED <<stage, seen>>

DataUncached ==
    /\ stage = "ready"
    /\ IF body # << >>
       THEN seen' = body /\ UNCHANGED <<message, pos, ended, decoder, bytes_read,
                                        connection, taken, returned, failed>>
       ELSE /\ ReadBytes(None)
            /\ Returns(Decoded(Fetched(None)).out)
            /\ seen' = Decoded(Fetched(None)).out
    /\ UNCHANGED <<body, stage, recached>>

(* The data property: the cached body, or the rest of it, which it caches. *)
Data ==
    LET result == Decoded(Fetched(None)) IN
    /\ stage = "ready"
    /\ IF body # << >>
       THEN /\ seen' = body
            /\ UNCHANGED <<message, pos, ended, decoder, body, bytes_read,
                           connection, taken, returned, failed>>
       ELSE /\ ReadBytes(None)
            /\ Returns(result.out)
            /\ body' = IF result.ok THEN result.out ELSE body
            /\ seen' = IF result.ok THEN result.out ELSE seen
    /\ UNCHANGED <<stage, recached>>

(* Blocks of size bytes, the last of them perhaps shorter. *)
Blocks(data, size) ==
    [i \in 1..(Len(data) + size - 1) \div size |->
        SubSeq(data, size * (i - 1) + 1, IF size * i < Len(data) THEN size * i ELSE Len(data))]

(* stream(amt) reads it all and returns it in blocks; with 0 it would not end. *)
Stream(size) ==
    /\ stage = "ready"
    /\ ReadBytes(None)
    /\ Returns(FlattenSeq(Blocks(Decoded(Fetched(None)).out, size)))
    /\ UNCHANGED <<body, stage, seen, recached>>

(* readinto() into n bytes goes to http.client's read() directly: it does  *)
(* not count, decode or release.                                           *)
ReadInto(n) ==
    /\ stage = "ready"
    /\ pos' = pos + Len(Fetched(n))
    /\ taken' = taken + Len(Fetched(n))
    /\ ended' \in Ends(n)
    /\ Returns(Fetched(n))
    /\ UNCHANGED <<message, decoder, body, bytes_read, connection, stage, failed,
                   seen, recached>>

(* The stream fails: a timeout, or the peer breaks it off, which may close *)
(* the response.  What had arrived of this read is gone.                   *)
ReadFails ==
    /\ stage = "ready" \/ (stage = "new" /\ message.preload)
    /\ ~ended
    /\ stage' = IF stage = "new" THEN "raised" ELSE stage
    /\ failed' = TRUE
    /\ decoder' = Decoder
    /\ \E over \in BOOLEAN : ended' = over /\ ReleaseIf(over)
    /\ UNCHANGED <<message, pos, body, bytes_read, taken, returned, seen, recached>>

(* release_conn() of the caller. *)
Release ==
    /\ stage = "ready"
    /\ ReleaseIf(TRUE)
    /\ UNCHANGED <<message, pos, ended, decoder, body, bytes_read, stage, taken,
                   returned, failed, seen, recached>>

(* close() closes the response, and leaves the connection with it. *)
Close ==
    /\ stage = "ready"
    /\ ended' = TRUE
    /\ UNCHANGED <<message, pos, decoder, body, bytes_read, connection, stage,
                   taken, returned, failed, seen, recached>>
-----------------------------------------------------------------------------
Next ==
    \/ Construct \/ Data \/ ReadFails \/ Release \/ Close
    \/ \E amt \in Amounts \cup {None}, cache \in BOOLEAN : Read(amt, cache)
    \/ \E n \in Amounts \ {0} : Stream(n) \/ ReadInto(n)

Spec == Init /\ [][Next]_vars
-----------------------------------------------------------------------------
TypeOK ==
    /\ pos \in 0..Len(Wire) /\ taken \in 0..pos
    /\ {ended, connection, failed, recached} \subseteq BOOLEAN
    /\ decoder # None =>
          /\ decoder.trying \in BOOLEAN
          /\ decoder.format \in {"zlib", "gzip", "raw", "spoilt"}
          /\ decoder.trying => decoder.format = "zlib"
    /\ body \in Seq(Int) /\ returned \in Seq(Int) /\ seen \in Seq(Int)
    /\ stage \in {"new", "ready", "raised"}

(***************************************************************************)
(* However the calls cut the stream, and whichever deflate the server      *)
(* means, they return the body, each byte of it once; one that cannot be   *)
(* decoded is never passed off as complete (response.py:28-37).  What is   *)
(* cached is the end of it, all of it if nothing was read before.  Coded   *)
(* bytes that readinto() took are missed by the decoder.                   *)
(***************************************************************************)
Faithful ==
    LET decodes  == message.decode /\ message.encoding # "identity"
        expected == IF message.decode THEN Content ELSE Wire
    IN  ~failed /\ (decodes => taken = 0) =>
            /\ IsPrefix(returned, expected)
            /\ IsSuffix(body, returned)
            /\ pos = Len(Wire) =>
                  returned = expected /\ ~(message.decode /\ message.encoding = "damaged")

(***************************************************************************)
(* The call that meets the end of the body returns the connection, errors  *)
(* included.  Only close() and readinto() end a response and keep it       *)
(* (response.py:249, 371).                                                 *)
(***************************************************************************)
EndReleases ==
    [][~ended /\ ended' /\ connection' => Close \/ \E n \in Amounts : ReadInto(n)]_vars

(***************************************************************************)
(* What `data` has given once it gives again, whatever is read meanwhile,  *)
(* unless a caller asks read() to cache once more: then it is replaced, by *)
(* nothing if the stream is at its end.                                    *)
(***************************************************************************)
DataIsStable == [][seen # << >> /\ ~recached => seen' = seen]_vars

(* tell(): "the number of bytes pulled over the wire so far", by whatever *)
(* calls, and none twice; but it does not know of readinto().              *)
TellsWireBytes == bytes_read + taken = pos
=============================================================================
