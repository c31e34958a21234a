----------------------------- MODULE HeaderDict -----------------------------
(***************************************************************************)
(* HTTPHeaderDict of yieldfrom_t/urllib3/_collections.py.                  *)
(*                                                                         *)
(* A name is a field in some spelling; lower() gives the field.  A value   *)
(* is the sequence of what `, ' separates in it.                           *)
(***************************************************************************)
EXTENDS Integers, Sequences, SequencesExt

(* _data: by field, the names and values it was given, in order. *)
NoHeaders == [field \in {} |-> << >>]

Entries(data, field) == IF field \in DOMAIN data THEN data[field] ELSE << >>

Add(data, line) ==
    [field \in DOMAIN data \cup {line.name.field} |->
        IF field = line.name.field THEN Append(Entries(data, field), line) ELSE data[field]]

(* __getitem__: the values of a field, joined. *)
Item(data, name) ==
    LET entries == data[name.field] IN
    FlattenSeq([i \in DOMAIN entries |-> entries[i].value])

(* getlist: that, split again. *)
GetList(data, name) ==
    IF name.field \in DOMAIN data
    THEN LET joined == Item(data, name) IN [i \in DOMAIN joined |-> <<joined[i]>>]
    ELSE << >>

(* __iter__: the spelling that came first. *)
Names(data) == {data[field][1].name : field \in DOMAIN data}

UpdateFirst(data, other) ==
    [field \in DOMAIN data \cup DOMAIN other |->
        IF field \in DOMAIN other THEN <<other[field][1]>> ELSE data[field]]

(* update() with another HTTPHeaderDict: each of its items replaces. *)
Update(data, other) ==
    [field \in DOMAIN data \cup DOMAIN other |->
        IF field \in DOMAIN other
        THEN LET name == other[field][1].name IN
             <<[name |-> name, value |-> Item(other, name)]>>
        ELSE data[field]]

(* __eq__: the same fields with the same joined values. *)
Equal(data, other) ==
    /\ DOMAIN data = DOMAIN other
    /\ \A name \in Names(data) : Item(data, name) = Item(Update(NoHeaders, other), name)

(* What from_httplib makes of the lines of a response, one after the other. *)
FromLines(lines) ==
    LET data[n \in 0..Len(lines)] ==
            IF n = 0 THEN NoHeaders ELSE Add(data[n-1], lines[n])
    IN  data[Len(lines)]

(* The lines of a field, in their order. *)
LinesOf(lines, field) ==
    LET found[n \in 0..Len(lines)] ==
            IF n = 0 THEN << >>
            ELSE IF lines[n].name.field = field THEN Append(found[n-1], lines[n])
            ELSE found[n-1]
    IN  found[Len(lines)]
=============================================================================
