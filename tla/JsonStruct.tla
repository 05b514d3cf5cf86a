----------------------------- MODULE JsonStruct -----------------------------
(***************************************************************************)
(* From C structures to JSON trees and back: the field tables of           *)
(* src/common/cjson/cjson_extension.c and of JsonParse/JsonParsePriv.h,    *)
(* the dispatch of JsonParse/JsonParse.c and the id lists of JsonEx.c.     *)
(* A structure is the sequence of its fields' values, a field's name its   *)
(* place in the table, and a string the sequence of its characters; the    *)
(* text between the trees (cJSON_Print, cJSON_Parse) is left out.  The     *)
(* numbers are whole, and a float holds those of its fields exactly.  An   *)
(* integer is the four bytes at its place, whatever is declared there:     *)
(* ServiceType is one byte (media.h) and the three that pad it.            *)
(*                                                                         *)
(* Client rules: a string in a structure is terminated; the member of a    *)
(* string field is a string (its valuestring is copied unread).            *)
(***************************************************************************)
EXTENDS Integers, Sequences, SequencesExt

CONSTANTS IntMax,   \* INT_MAX
          Capacity  \* bytes of a character array in a structure

Least(x, y) == IF x < y THEN x ELSE y
-----------------------------------------------------------------------------
(***************************************************************************)
(* Items and fields.                                                       *)
(***************************************************************************)
Item(type, num, str, kids) == [type |-> type, num |-> num, str |-> str, kids |-> kids]
Member(name, item) == [name |-> name, item |-> item]
ValueInt(item) == IF item.num > IntMax THEN IntMax ELSE IF item.num < -IntMax - 1 THEN -IntMax - 1 ELSE item.num
Named(item, name) == SelectSeq(item.kids, LAMBDA m : m.name = name)   \* first: cJSON_GetObjectItem

CJsonStructFieldDef(type, size, fields, element) ==
    [type |-> type, size |-> size, fields |-> fields, element |-> element]
Integer == CJsonStructFieldDef("int", 0, <<>>, "none")
Unsigned == CJsonStructFieldDef("uint", 0, <<>>, "none")
Double == CJsonStructFieldDef("double", 0, <<>>, "none")
Bool == CJsonStructFieldDef("bool", 0, <<>>, "none")
Str == CJsonStructFieldDef("string", 0, <<>>, "none")
Sized(size) == [Str EXCEPT !.size = size]
Struct(fields) == CJsonStructFieldDef("struct", 0, fields, "none")
Array(size, element) == CJsonStructFieldDef("array", size, <<>>, element)
Structs(size, fields) == CJsonStructFieldDef("array", size, fields, "none")

RECURSIVE Zero(_)   \* memset 0
Zero(field) ==
    CASE field.type = "string" -> <<>>
      [] field.type = "struct" -> [k \in DOMAIN field.fields |-> Zero(field.fields[k])]
      [] field.type = "array"  -> [j \in 1 .. field.size |->
              IF field.fields # <<>> THEN [k \in DOMAIN field.fields |-> Zero(field.fields[k])]
              ELSE IF field.element = "string" THEN <<>> ELSE 0]
      [] OTHER -> 0
-----------------------------------------------------------------------------
(***************************************************************************)
(* cjson_parse_json_to_struct                                              *)
(***************************************************************************)
Parsed(value) == [ok |-> TRUE, value |-> value]
Failed == [ok |-> FALSE, value |-> <<>>]

ArraySizeGiven(fields, k) == fields[k].size   \* fault: an unsized string has no room
(* The room of a string: given, or up to the next field, if there is one.  *)
ArraySize(fields, k) ==
    IF fields[k].size # 0 THEN fields[k].size ELSE IF k < Len(fields) THEN Capacity ELSE 0

parse_json_field2(item, element) ==
    CASE element = "int"               -> Parsed(ValueInt(item))
      [] element = "uint"              -> Parsed(item.num % (2 * IntMax + 2))
      [] element \in {"float", "double"} -> Parsed(item.num)
      [] element = "bool"              -> Parsed(IF item.type = "true" THEN 1 ELSE 0)
      [] OTHER            -> Failed

RECURSIVE parse_internal(_, _)
parse_json_field(item, fields, k) ==
    LET field == fields[k]
        n == Least(Len(item.kids), field.size)
        element(j) == IF field.fields # <<>> THEN parse_internal(item.kids[j].item, field.fields)
                      ELSE parse_json_field2(item.kids[j].item, field.element)
    IN
    CASE field.type = "string" ->
            Parsed(SubSeq(item.str, 1, Least(Len(item.str), ArraySize(fields, k) - 1)))
      [] field.type = "struct" ->
            IF item.kids = <<>> THEN Failed ELSE parse_internal(item, field.fields)
      [] field.type = "array" ->   \* the last code counts, or the first of a structure that fails
            IF item.kids = <<>> \/ \E j \in 1 .. n : ~element(j).ok /\ (j = n \/ field.fields # <<>>) THEN Failed
            ELSE Parsed([j \in 1 .. field.size |-> IF j <= n THEN element(j).value ELSE Zero(field)[j]])
      [] OTHER -> parse_json_field2(item, field.type)

parse_internal(item, fields) ==
    LET member(k) == Named(item, k)
        field == [k \in DOMAIN fields |->
                    IF member(k) = <<>> THEN Parsed(Zero(fields[k]))
                    ELSE parse_json_field(Head(member(k)).item, fields, k)]
    IN  IF \A k \in DOMAIN fields : field[k].ok THEN Parsed([k \in DOMAIN fields |-> field[k].value])
        ELSE Failed
-----------------------------------------------------------------------------
(***************************************************************************)
(* cjson_encode_struct_to_json                                             *)
(***************************************************************************)
encode_field_to_json2(value, type) ==
    CASE type = "string" -> Item("string", 0, value, <<>>)
      [] type = "bool"   -> Item(IF value # 0 THEN "true" ELSE "false", IF value # 0 THEN 1 ELSE 0, <<>>, <<>>)
      [] OTHER           -> Item("number", value, <<>>, <<>>)

RECURSIVE encode_internal(_, _)
encode_field_to_json(value, field) ==
    CASE field.type = "struct" -> encode_internal(value, field.fields)
      [] field.type = "array"  -> Item("array", 0, <<>>, [j \in 1 .. field.size |-> Member(0,
              IF field.fields # <<>> THEN encode_internal(value[j], field.fields)
              ELSE encode_field_to_json2(value[j], field.element))])
      [] OTHER -> encode_field_to_json2(value, field.type)
encode_internal(value, fields) ==
    Item("object", 0, <<>>, [k \in DOMAIN fields |-> Member(k, encode_field_to_json(value[k], fields[k]))])
-----------------------------------------------------------------------------
(***************************************************************************)
(* The tables, and the dispatch over them.                                 *)
(***************************************************************************)
Ints(n) == [k \in 1 .. n |-> Integer]
g_stAudioParamKey == <<Integer, Str, Integer, Integer, Integer, Str>>
g_stVideoParamKey == <<Integer, Str, Str, Str, Integer, Integer, Integer, Str, Integer, Integer, Integer>>
g_stMuxParamKey == Ints(12)
g_stMuxServiceParamKey == <<Integer, Str, Str, Integer>>
g_stEncParamKey == <<Struct(g_stVideoParamKey), Struct(g_stAudioParamKey),
                     Struct(g_stMuxParamKey), Struct(g_stMuxServiceParamKey)>>
g_satJsonList ==
    [venc |-> g_stVideoParamKey, aenc |-> g_stAudioParamKey, tsmux |-> g_stMuxParamKey,
     tsmuxservice |-> g_stMuxServiceParamKey, encinfo |-> g_stEncParamKey,
     transcodeDecodePid |-> Ints(7), transcodeDecodeParam |-> Ints(17), proginfo |-> Ints(6)]

Answer(code, data, leaked) == [code |-> code, data |-> data, leaked |-> leaked]

(* MOChBaseInfoJson2Bin forgets the tree when it fails.                    *)
MOChBaseInfoJson2Bin(item, data) ==
    LET prog_id == Named(item, 1) IN
    IF prog_id = <<>> \/ (prog_id # <<>> /\ Head(prog_id).item.type # "number")
    THEN Answer("INVALID_PARAM", data, TRUE)
    ELSE Answer("NO_ERROR", <<Head(prog_id).item.num>>, FALSE)

JsonParseListElement(listType, item, data) ==
    IF listType \notin DOMAIN g_satJsonList THEN Answer("OBJECT_NOT_EXIST", data, FALSE)
    ELSE LET p == parse_internal(item, g_satJsonList[listType]) IN
         IF p.ok THEN Answer("NO_ERROR", p.value, FALSE) ELSE Answer("INVALID_PARAM", data, FALSE)

MediaParseListElement(listType, item, data) ==
    LET specific == IF listType = "moch" THEN MOChBaseInfoJson2Bin(item, data)
                    ELSE Answer("OBJECT_NOT_EXIST", data, FALSE)
        general == JsonParseListElement(listType, item, data)
    IN  IF specific.code = "NO_ERROR" THEN specific
        ELSE [general EXCEPT !.leaked = specific.leaked]

MediaMakeListElement(listType, data) ==
    IF listType = "moch" THEN Item("object", 0, <<>>, <<Member(1, Item("number", data[1], <<>>, <<>>))>>)
    ELSE encode_internal(data, g_satJsonList[listType])
-----------------------------------------------------------------------------
(***************************************************************************)
(* JsonEx.c: lists of ids.                                                 *)
(***************************************************************************)
(* The numbers up to the first item that is none; the count of all or 0.   *)
JsonParseNumberArray(item, uiMaxItems) ==
    LET n == Least(Len(item.kids), uiMaxItems)
        numbers == \A k \in 1 .. n : item.kids[k].item.type = "number"
    IN  [ok |-> numbers, items |-> IF numbers THEN n ELSE 0,
         data |-> IF numbers THEN [k \in 1 .. n |-> ValueInt(item.kids[k].item) % (2 * IntMax + 2)] ELSE <<>>]
JsonParseIds(item) ==
    LET p == JsonParseNumberArray(item, Len(item.kids)) IN
    IF p.ok THEN Parsed(p.data) ELSE Failed
JsonAddNumberArray(data) ==
    Item("array", 0, <<>>, [k \in DOMAIN data |-> Member(0, Item("number", data[k], <<>>, <<>>))])
JsonMakeIds(data) == JsonAddNumberArray(data)
-----------------------------------------------------------------------------
(***************************************************************************)
(* What goes in and what comes back.                                       *)
(***************************************************************************)
(* A table whose structures can be read back: no empty structure, no array *)
(* without elements and none of strings.                                   *)
RECURSIVE Readable(_)
Readable(fields) ==
    \A k \in DOMAIN fields :
        /\ fields[k].type = "struct" => fields[k].fields # <<>> /\ Readable(fields[k].fields)
        /\ fields[k].type = "array" => /\ fields[k].size > 0 /\ fields[k].element # "string"
                                       /\ Readable(fields[k].fields)

(* A table that has room for all its strings: one without a size is not   *)
(* the last of its table.                                                  *)
RECURSIVE Roomy(_)
Roomy(fields) ==
    \A k \in DOMAIN fields :
        /\ fields[k].type = "string" => fields[k].size # 0 \/ k < Len(fields)
        /\ Roomy(fields[k].fields)

(* A structure of the table made up from a number.                         *)
RECURSIVE Sample(_, _)
Sample(fields, seed) ==
    LET unsigned(k) == (seed + k) % (2 * IntMax + 2)
        word(k, room) == [c \in 1 .. (seed + k) % room |-> c]
        simple(type, k) ==
            CASE type = "string" -> word(k, Capacity)
              [] type = "bool"   -> (seed + k) % 2
              [] type = "uint"   -> unsigned(k)
              [] OTHER           -> unsigned(k) - IntMax - 1
    IN  [k \in DOMAIN fields |->
            CASE fields[k].type = "struct" -> Sample(fields[k].fields, seed + k)
              [] fields[k].type = "array"  -> [j \in 1 .. fields[k].size |->
                    IF fields[k].fields # <<>> THEN Sample(fields[k].fields, seed + j)
                    ELSE simple(fields[k].element, j)]
              [] fields[k].size # 0 -> word(k, fields[k].size)
              [] OTHER -> simple(fields[k].type, k)]

(* Of a table that is readable and has room, every structure comes back as *)
(* it was, whatever the order of the members; a member that is missing     *)
(* comes back as zero, and a string that is too long is cut to its room.   *)
StructReturns(fields, seed) ==
    LET data == Sample(fields, seed)
        item == encode_internal(data, fields)
        Lengthened == [item EXCEPT !.kids = [k \in DOMAIN @ |->
            [@[k] EXCEPT !.item.str = IF fields[k].type = "string" THEN [c \in 1 .. Capacity + 1 |-> c] ELSE @]]]
    IN
    Readable(fields) /\ Roomy(fields) =>
        /\ parse_internal(item, fields) = Parsed(data)
        /\ parse_internal([item EXCEPT !.kids = Reverse(@)], fields) = Parsed(data)
        /\ \A k \in DOMAIN fields :
            /\ parse_internal([item EXCEPT !.kids = RemoveAt(@, k)], fields)
                   = Parsed([data EXCEPT ![k] = Zero(fields[k])])
            /\ fields[k].type = "string" =>
                   Len(parse_internal(Lengthened, fields).value[k])
                       = (IF fields[k].size # 0 THEN fields[k].size ELSE Capacity) - 1

(* Every list type whose table has room reads what it makes; one that is   *)
(* not listed changes nothing, and what cannot be read neither.            *)
MediaReturns(seed) ==
    /\ \A t \in DOMAIN g_satJsonList :
        LET data == Sample(g_satJsonList[t], seed) IN
        Roomy(g_satJsonList[t]) =>
            MediaParseListElement(t, MediaMakeListElement(t, data), <<>>) = Answer("NO_ERROR", data, FALSE)
    /\ MediaParseListElement("moch", MediaMakeListElement("moch", <<seed>>), <<>>) = Answer("NO_ERROR", <<seed>>, FALSE)
    /\ \A t \in {"moch", "encinfo", "other"} :
        LET empty == Item("object", 0, <<>>, <<Member(1, Item("object", 0, <<>>, <<>>))>>)
            answer == MediaParseListElement(t, empty, <<seed>>)
        IN  answer.code # "NO_ERROR" /\ answer.data = <<seed>>

(* Ids up to INT_MAX return, all or, when one is no number, none of them.  *)
IdsReturn(ids) ==
    /\ (\A k \in DOMAIN ids : ids[k] <= IntMax) => JsonParseIds(JsonMakeIds(ids)) = Parsed(ids)
    /\ \A k \in DOMAIN ids :
        JsonParseIds([JsonMakeIds(ids) EXCEPT !.kids[k].item.type = "string"]) = Failed
=============================================================================
