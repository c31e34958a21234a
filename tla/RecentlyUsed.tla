---------------------------- MODULE RecentlyUsed ----------------------------
(***************************************************************************)
(* RecentlyUsedContainer of yieldfrom_t/urllib3/_collections.py: an        *)
(* OrderedDict, as the sequence of its entries, and what each method makes *)
(* of it.  Each method runs under the container's lock, except for the     *)
(* calls of dispose_func, which its user makes of `disposed`.              *)
(***************************************************************************)
EXTENDS Integers, Sequences, SequencesExt

Entry(key, value) == [key |-> key, value |-> value]

KeysOf(dict) == {dict[i].key : i \in DOMAIN dict}

ValuesOf(dict) == {dict[i].value : i \in DOMAIN dict}

PositionOf(dict, key) == CHOOSE i \in DOMAIN dict : dict[i].key = key

ValueAt(dict, key) == dict[PositionOf(dict, key)].value

GotInPlace(dict, key) == dict

(* __getitem__ of a key it has: the entry moves to the end of the line. *)
Got(dict, key) ==
    LET i == PositionOf(dict, key) IN Append(RemoveAt(dict, i), dict[i])

SetItemLate(dict, key, value, maxsize) ==
    LET added == Append(dict, Entry(key, value)) IN
    IF key \in KeysOf(dict)
    THEN [left |-> ReplaceAt(dict, PositionOf(dict, key), Entry(key, value)),
          disposed |-> {ValueAt(dict, key)}]
    ELSE IF Len(added) > maxsize + 1
    THEN [left |-> Tail(added), disposed |-> {Head(added).value}]
    ELSE [left |-> added, disposed |-> {}]

(***************************************************************************)
(* __setitem__: an existing key keeps its place and gives up its value;    *)
(* otherwise the least recently used entry may have to go.                 *)
(***************************************************************************)
SetItem(dict, key, value, maxsize) ==
    LET added == Append(dict, Entry(key, value)) IN
    IF key \in KeysOf(dict)
    THEN [left |-> ReplaceAt(dict, PositionOf(dict, key), Entry(key, value)),
          disposed |-> {ValueAt(dict, key)}]
    ELSE IF Len(added) > maxsize
    THEN [left |-> Tail(added), disposed |-> {Head(added).value}]
    ELSE [left |-> added, disposed |-> {}]
=============================================================================
