----------------------------- MODULE Multipart -----------------------------
(***************************************************************************)
(* Form fields as a request body: yieldfrom_t/urllib3/fields.py and        *)
(* filepost.py.                                                            *)
(*                                                                         *)
(* A body is the sequence of its lines, a line a sequence of words.  A     *)
(* field is what callers pass: a name and data (a sequence of lines), or a *)
(* file with its name and, if they know it, its type.                      *)
(***************************************************************************)
EXTENDS Integers, Sequences, SequencesExt

CONSTANTS
    Unquotable,  \* words that are no ASCII, or hold a quote or a line end
    KnownTypes   \* of file names, by what mimetypes knows

Empty == ""

GuessContentType(filename) ==
    IF filename \in DOMAIN KnownTypes THEN KnownTypes[filename] ELSE "application/octet-stream"

(* RequestField.from_tuples; plain data has neither file name nor type. *)
ContentType(field) ==
    CASE field.form = "typed" -> field.type
      [] field.form = "file"  -> GuessContentType(field.filename)
      [] OTHER -> Empty

(* format_header_param: what cannot be quoted goes by RFC 2231. *)
HeaderParam(name, value) == <<IF value \in Unquotable THEN name \o "*" ELSE name, value>>

(* Empty parameters are left out, and empty headers. *)
RenderPart(name, value) == IF value = Empty THEN << >> ELSE HeaderParam(name, value)

Disposition(field) ==
    <<"Content-Disposition", "form-data">>
    \o RenderPart("name", field.name)
    \o RenderPart("filename", IF field.form = "data" THEN Empty ELSE field.filename)

RenderHeaders(field) ==
    <<Disposition(field)>>
    \o IF ContentType(field) = Empty THEN << >> ELSE <<<<"Content-Type", ContentType(field)>>>>

Delimiter(boundary) == <<"--", boundary>>
LastDelimiter(boundary) == <<"--", boundary, "--">>

EncodeWithoutBlank(fields, boundary) ==
    Append(FlattenSeq([i \in DOMAIN fields |->
               <<Delimiter(boundary)>> \o RenderHeaders(fields[i]) \o fields[i].data]),
           LastDelimiter(boundary))

(* encode_multipart_formdata *)
Encode(fields, boundary) ==
    Append(FlattenSeq([i \in DOMAIN fields |->
               <<Delimiter(boundary)>> \o RenderHeaders(fields[i])
               \o << << >> >> \o fields[i].data]),
           LastDelimiter(boundary))
-----------------------------------------------------------------------------
(***************************************************************************)
(* What a server makes of a body (RFC 2046): parts between delimiters, the *)
(* headers of each up to an empty line, its data after that.               *)
(***************************************************************************)
Cuts(body, boundary) ==
    LET cuts[n \in 0..Len(body)] ==
            IF n = 0 THEN << >>
            ELSE IF body[n] \in {Delimiter(boundary), LastDelimiter(boundary)}
                 THEN Append(cuts[n-1], n) ELSE cuts[n-1]
    IN  cuts[Len(body)]

Parts(body, boundary) ==
    LET cuts == Cuts(body, boundary) IN
    [i \in 1..Len(cuts) - 1 |-> SubSeq(body, cuts[i] + 1, cuts[i+1] - 1)]

HeadersEnd(part) == SelectInSeq(part, LAMBDA line : line = << >>)

Received(part) ==
    [headers |-> {part[i] : i \in 1..HeadersEnd(part) - 1},
     data    |-> SubSeq(part, HeadersEnd(part) + 1, Len(part))]

Decode(body, boundary) ==
    LET parts == Parts(body, boundary) IN [i \in DOMAIN parts |-> Received(parts[i])]

(* What it should: the name and the file name that the caller gave. *)
Given(field) ==
    [headers |->
        {<<"Content-Disposition", "form-data">>
           \o HeaderParam("name", field.name)
           \o IF field.form = "data" THEN << >> ELSE HeaderParam("filename", field.filename)}
        \cup IF field.form = "data" THEN {} ELSE {<<"Content-Type", ContentType(field)>>},
     data |-> field.data]
=============================================================================
