----------------------------- MODULE Validation -----------------------------
(***************************************************************************)
(* What a schema may be and what data fits it (internal/validation).  A    *)
(* JSON value keeps only what the checks look at: its kind, the length of  *)
(* a string, the elements of a list.  The numeric limits are parameters,   *)
(* so that an instance can reach them.                                     *)
(***************************************************************************)
EXTENDS Integers, Sequences, FiniteSets

CONSTANTS
    Keys,          \* keys of JSON objects and names of fields
    BadNames,      \* those that fieldNamePattern refuses
    reservedFields,
    stringMaxCharsDefault, stringMaxCharsMax,
    listMaxItemsDefault, listMaxItemsMax

ASSUME ValidationAssumption ==
    /\ BadNames \subseteq Keys /\ reservedFields \subseteq Keys
    /\ stringMaxCharsDefault \in 1..stringMaxCharsMax /\ stringMaxCharsMax \in Nat
    /\ listMaxItemsDefault \in 1..listMaxItemsMax /\ listMaxItemsMax \in Nat

-----------------------------------------------------------------------------
(* Values, fields, data                                                    *)

fieldTypes == {"int", "string", "int_list", "string_list"}
IntTypes   == {"int", "int_list"}
ListTypes  == {"int_list", "string_list"}

Scalar == [kind : {"null", "int", "fraction", "string", "other"}, runes : Nat]
Value  == Scalar \cup [kind : {"list"}, items : Seq(Scalar)]
Field  == [name : Keys, type : STRING, required : BOOLEAN, maxChars : Int, maxItems : Int]

null    == [kind |-> "null", runes |-> 0]
Int0    == [kind |-> "int", runes |-> 0]
Str(n)  == [kind |-> "string", runes |-> n]
List(s) == [kind |-> "list", items |-> s]

FieldNames(fields) == {fields[i].name : i \in 1..Len(fields)}

FieldOf(fields, k) == fields[CHOOSE i \in 1..Len(fields) : fields[i].name = k]

-----------------------------------------------------------------------------
(* Schemas                                                                 *)

ValidField(f) ==
    /\ f.name \notin BadNames \cup reservedFields
    /\ f.type \in fieldTypes
    /\ f.maxChars # 0 => f.type \notin IntTypes /\ f.maxChars \in 1..stringMaxCharsMax
    /\ f.maxItems # 0 => f.type \in ListTypes /\ f.maxItems \in 1..listMaxItemsMax

ValidateFields(fields) ==
    /\ fields # <<>>
    /\ \A i \in 1..Len(fields) : ValidField(fields[i])
    /\ \A i, j \in 1..Len(fields) : fields[i].name = fields[j].name => i = j

ValidateUniqueFields(fields, unique) ==
    /\ \A i \in 1..Len(unique) : /\ unique[i] \in FieldNames(fields)
                                 /\ FieldOf(fields, unique[i]).type \notin ListTypes
    /\ \A i, j \in 1..Len(unique) : unique[i] = unique[j] => i = j

-----------------------------------------------------------------------------
(* Data against a schema                                                   *)

stringLimit(f) == IF f.maxChars > 0 THEN f.maxChars ELSE stringMaxCharsDefault
listLimit(f)   == IF f.maxItems > 0 THEN f.maxItems ELSE listMaxItemsDefault

isJSONInt(v)      == v.kind = "int"
ShortString(f, v) == v.kind = "string" /\ v.runes <= stringLimit(f)

ShortList(f, v) == v.kind = "list" /\ Len(v.items) <= listLimit(f)

(* null is a missing value for every type; inside a list it is not.        *)
checkValue(f, v) ==
    \/ v.kind = "null"
    \/ f.type = "int" /\ isJSONInt(v)
    \/ f.type = "string" /\ ShortString(f, v)
    \/ /\ f.type = "int_list" /\ ShortList(f, v)
       /\ \A i \in 1..Len(v.items) : isJSONInt(v.items[i])
    \/ /\ f.type = "string_list" /\ ShortList(f, v)
       /\ \A i \in 1..Len(v.items) : ShortString(f, v.items[i])

Refusal(reason, k) == [reason |-> reason, field |-> k]

(* What is wrong with the keys that are there.                             *)
KeyRefusals(fields, data) ==
    {Refusal(IF k \in reservedFields THEN "reserved" ELSE "unknown_field", k) :
        k \in DOMAIN data \ FieldNames(fields)}
    \cup {Refusal("value", k) : k \in {k \in DOMAIN data \cap FieldNames(fields) :
                                          ~checkValue(FieldOf(fields, k), data[k])}}

Missing(fields, data) ==
    {i \in 1..Len(fields) :
        fields[i].required /\ (fields[i].name \in DOMAIN data => data[fields[i].name].kind = "null")}

(* The refusals ValidateData may return, none if the data fits.  It walks  *)
(* the keys in Go's random map order and stops at the first one that is    *)
(* wrong; only then does it look, in schema order, for a required field    *)
(* that is missing.                                                        *)
ValidateData(fields, data) ==
    LET wrong   == KeyRefusals(fields, data)
        missing == Missing(fields, data)
    IN  IF wrong # {} THEN wrong
        ELSE {Refusal("missing_required", fields[i].name) :
                 i \in {i \in missing : \A j \in missing : i <= j}}

Fits(fields, data) == ValidateData(fields, data) = {}

(* Mutant: the row over the patch.                                         *)
mergeDataSwapped(old, patch) ==
    [k \in DOMAIN old \cup DOMAIN patch |-> IF k \in DOMAIN old THEN old[k] ELSE patch[k]]

(* mergeData: the patch over the row, key by key; no key is ever dropped.  *)
mergeData(old, patch) ==
    [k \in DOMAIN old \cup DOMAIN patch |-> IF k \in DOMAIN patch THEN patch[k] ELSE old[k]]

=============================================================================
