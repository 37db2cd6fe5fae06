---------------------------- MODULE Conversions -----------------------------
(* Conversions: the wire, redaction, the closest name, method documents, ids. *)
EXTENDS Integers, Sequences, SequencesExt, FiniteSets, FiniteSetsExt

(***************************************************************************)
(* What becomes of a value between the sender and the receiver: the codecs' *)
(* common wire model, the JSON and MessagePack codecs on top of it, and the *)
(* JSON text that the stores keep.  Strings are sequences of tokens; values *)
(* are trees [t, s, kids] of a type, a string or the digits of a bigint,    *)
(* and members [key, val].                                                  *)
(***************************************************************************)

CONSTANTS
  Values,       \* values to send
  Codecs,       \* of "json", "msgpack" (codecs), "pg", "sqlite" (stores), "legacy" (acceptLegacy)
  MaxDepth      \* MAX_WIRE_DEPTH, MAX_BIGINT_DEPTH (both 512)

VARIABLES value, codec, at, wire, result

wireVars == <<value, codec, at, wire, result>>

\* Tokens: "B" is BIGINT_SENTINEL, "S" is STRING_ESCAPE, "P" their common prefix SENTINEL_PREFIX.
Leaf(t) == [t |-> t, s |-> <<>>, kids |-> <<>>]
Str(s) == [t |-> "str", s |-> s, kids |-> <<>>]
Big(s) == [t |-> "big", s |-> s, kids |-> <<>>]
Null == Leaf("null")
Error == Leaf("error")
IsoDate == Str(<<"x">>)

WireInit ==
  /\ value \in Values /\ codec \in Codecs
  /\ at = "new" /\ wire = Null /\ result = Null

-----------------------------------------------------------------------------
(* Encoding                                                                  *)

EscapesBigint(s) == s # <<>> /\ s[1] = "B"     \* mutant: a string that begins like an escape stays
NeedsSentinelEscape(s) == s # <<>> /\ s[1] \in {"B", "S"}

BigIntReplacer(v) ==
  CASE v.t = "big" -> Str(<<"B">> \o v.s)
    [] v.t = "str" /\ NeedsSentinelEscape(v.s) -> Str(<<"S">> \o v.s)
    [] OTHER -> v

\* A container with new members; an error in one is the error of the whole.
Rebuilt(v, kids) == IF \E i \in DOMAIN kids : kids[i].val = Error THEN Error ELSE [v EXCEPT !.kids = kids]

\* normalizeWireValue: undefined is dropped from objects and null elsewhere.
RECURSIVE Visit(_, _, _)
Visit(v, depth, inArray) ==
  LET kids == [i \in DOMAIN v.kids |-> [v.kids[i] EXCEPT !.val = Visit(@, depth + 1, v.t = "arr")]]
  IN  CASE v.t = "undefined" -> IF inArray THEN Null ELSE v
        [] v.t = "date" -> IsoDate
        [] v.t \in {"arr", "obj", "bytes"} /\ depth >= MaxDepth -> Error
        [] v.t \in {"arr", "obj"} -> Rebuilt(v, SelectSeq(kids, LAMBDA k : k.val.t # "undefined"))
        [] OTHER -> BigIntReplacer(v)
NormalizeWireValue(v) == Visit(v, 0, TRUE)

\* JSON.stringify, with the replacer or without: the same rules and no limit on the depth.
ByteMembers == [Leaf("obj") EXCEPT !.kids = <<[key |-> <<"0">>, val |-> Leaf("num")]>>]
RECURSIVE Stringify(_, _, _)
Stringify(v, inArray, replace) ==
  LET kids == [i \in DOMAIN v.kids |-> [v.kids[i] EXCEPT !.val = Stringify(@, v.t = "arr", replace)]]
  IN  CASE v.t = "undefined" -> IF inArray THEN Null ELSE v
        [] v.t = "date" -> IsoDate
        [] v.t = "bytes" -> ByteMembers
        [] v.t \in {"arr", "obj"} -> Rebuilt(v, SelectSeq(kids, LAMBDA k : k.val.t # "undefined"))
        [] OTHER -> IF replace THEN BigIntReplacer(v) ELSE v
StringifyWithBigInt(v) == Stringify(v, TRUE, TRUE)

-----------------------------------------------------------------------------
(* Decoding                                                                  *)

IsInteger(s) ==
  LET digits == IF s # <<>> /\ s[1] = "-" THEN Tail(s) ELSE s
  IN  digits # <<>> /\ ToSet(digits) \subseteq {"0", "1"}
IsLegacy(s) == Len(s) > 1 /\ Last(s) = "n" /\ ToSet(Front(s)) \subseteq {"0", "1"}

Revived(v, legacy) ==
  CASE v.t # "str" \/ v.s = <<>> -> v
    [] v.s[1] = "S" -> Str(Tail(v.s))
    [] v.s[1] = "B" /\ IsInteger(Tail(v.s)) -> Big(Tail(v.s))
    [] legacy /\ IsLegacy(v.s) -> Big(Front(v.s))
    [] OTHER -> v

RECURSIVE ParseWithBigInt(_, _)
ParseWithBigInt(v, legacy) ==
  LET kids == [i \in DOMAIN v.kids |-> [v.kids[i] EXCEPT !.val = ParseWithBigInt(@, legacy)]]
  IN  IF v.kids # <<>> THEN [v EXCEPT !.kids = kids] ELSE Revived(v, legacy)

RECURSIVE Deserialize(_, _)
Deserialize(v, depth) ==
  LET kids == [i \in DOMAIN v.kids |-> [v.kids[i] EXCEPT !.val = Deserialize(@, depth + 1)]]
  IN  IF v.t \notin {"arr", "obj", "bytes"} THEN Revived(v, FALSE)
      ELSE IF depth >= MaxDepth THEN Error ELSE Rebuilt(v, kids)

\* Whether the encoded bytes hold SENTINEL_PREFIX, in a string or in a key.
RECURSIVE MayContainWireSentinel(_)
MayContainWireSentinel(v) ==
  \/ ToSet(v.s) \cap {"B", "S", "P"} # {}
  \/ \E i \in DOMAIN v.kids : \/ ToSet(v.kids[i].key) \cap {"B", "S", "P"} # {}
                              \/ MayContainWireSentinel(v.kids[i].val)

-----------------------------------------------------------------------------
(* The codecs and the stores                                                 *)

JsonEncode(v) == LET n == NormalizeWireValue(v) IN IF n = Error THEN Error ELSE Stringify(n, TRUE, FALSE)
JsonDecode(w) == ParseWithBigInt(w, FALSE)

MsgpackEncode(v) == NormalizeWireValue(v)
MsgpackTrusts(w) == w     \* mutant: the decoded value is taken as it is
MsgpackDecode(w) == IF MayContainWireSentinel(w) THEN Deserialize(w, 0) ELSE w

Send ==
  /\ at = "new" /\ at' = "sent"
  /\ wire' = CASE codec = "json" -> JsonEncode(value)
               [] codec = "msgpack" -> MsgpackEncode(value)
               [] OTHER -> StringifyWithBigInt(value)
  /\ UNCHANGED <<value, codec, result>>

Receive ==
  /\ at = "sent" /\ wire # Error /\ at' = "received"
  /\ result' = CASE codec = "json" -> JsonDecode(wire)
                 [] codec = "msgpack" -> MsgpackDecode(wire)
                 [] codec = "pg" -> Deserialize(wire, 0)
                 [] OTHER -> ParseWithBigInt(wire, codec = "legacy")
  /\ UNCHANGED <<value, codec, wire>>

WireNext == Send \/ Receive
WireSpec == WireInit /\ [][WireNext]_wireVars

-----------------------------------------------------------------------------
RECURSIVE Depth(_)
Depth(v) ==
  IF v.t \notin {"arr", "obj", "bytes"} THEN 0
  ELSE 1 + (CHOOSE n \in 0..5 : /\ \A i \in DOMAIN v.kids : Depth(v.kids[i].val) <= n
                                /\ n = 0 \/ \E i \in DOMAIN v.kids : Depth(v.kids[i].val) = n)

\* What the receiver must see: bigints and strings as they were, dates as text, no undefined.
RECURSIVE Canonical(_)
Canonical(v) ==
  CASE v.t = "undefined" -> Null
    [] v.t = "date" -> IsoDate
    [] v.t = "bytes" /\ codec # "msgpack" -> ByteMembers
    [] v.t = "str" /\ codec = "legacy" /\ IsLegacy(v.s) -> Big(Front(v.s))
    [] OTHER -> LET kept == SelectSeq(v.kids, LAMBDA k : v.t = "arr" \/ k.val.t # "undefined")
                IN  [v EXCEPT !.kids = [i \in DOMAIN kept |-> [kept[i] EXCEPT !.val = Canonical(@)]]]

\* A value arrives as it was sent, whatever its strings look like: the escape and the shortcut that
\* skips decoding are exact.  What the codecs' encoders accept their decoders accept; the Postgres
\* stores, whose writer has no limit on the depth, cannot read what is nested deeper than the limit.
WireExact ==
  /\ at # "new" => (wire = Error <=> codec \in {"json", "msgpack"} /\ Depth(value) > MaxDepth)
  /\ at = "received" =>
       result = IF codec = "pg" /\ Depth(value) > MaxDepth THEN Error ELSE Canonical(value)

-----------------------------------------------------------------------------
(***************************************************************************)
(* What an audit entry looks like when it is written: redactObject over any *)
(* graph of objects (shared and cyclic ones included) and jsonByteSize, the *)
(* estimate that decides, without allocating, whether the entry is small    *)
(* enough.                                                                  *)
(***************************************************************************)

CONSTANTS
  Heaps,       \* heaps: node id -> [t, kids]; node 1 is the entry {params, result}
  Sensitive,   \* keys that isSensitiveKey recognises
  Extra,       \* customKeys
  RedactDepth,    \* MAX_REDACT_DEPTH (512)
  Limits       \* maxEntryBytes to try

VARIABLES heap, limit, place, written

redactVars == <<heap, limit, place, written>>

\* A value is [t, id]: a primitive, or a reference (t = "ref") to a node of the heap.
Node(v) == heap[v.id]
Containers == {"arr", "set", "map", "obj"}
Tree(t, kids) == [t |-> t, kids |-> kids]
Mark(t) == Tree(t, <<>>)

RedactInit == heap \in Heaps /\ limit \in Limits /\ place = "new" /\ written = Mark("none")

IgnoresCustom(key) == key \in Sensitive      \* mutant: the caller's own keys are forgotten
IsSensitiveKey(key) == key \in Sensitive \cup Extra

-----------------------------------------------------------------------------
(* redactObject                                                              *)

RECURSIVE Redact(_, _, _)
Redact(v, ancestors, depth) ==
  IF v.t # "ref" THEN Mark(v.t)
  ELSE IF depth >= RedactDepth THEN Mark("TooDeep")
  ELSE IF Node(v).t \notin Containers THEN Mark(Node(v).t)
  ELSE IF v.id \in ancestors THEN Mark("Circular")
  ELSE LET inner(x) == Redact(x, ancestors \cup {v.id}, depth + 1)
           n == Node(v)
       IN  IF n.t \in {"arr", "set"}
           THEN Tree("arr", [i \in DOMAIN n.kids |-> [key |-> "", val |-> inner(n.kids[i].val)]])
           ELSE Tree("obj", [i \in DOMAIN n.kids |->
                  [key |-> n.kids[i].key,
                   val |-> IF IsSensitiveKey(n.kids[i].key) THEN Mark("REDACTED") ELSE inner(n.kids[i].val)]])
RedactObject(v) == Redact(v, {}, 0)

-----------------------------------------------------------------------------
(* jsonByteSize                                                              *)

\* Bytes of a leaf's JSON: texts are one letter, numbers one digit, binaries are summarised.
Bytes(t) ==
  CASE t \in {"null", "undefined", "true"} -> 4 [] t = "num" -> 1 [] t = "str" -> 3
    [] t = "Date" -> 26 [] t = "RegExp" -> 2 [] t = "Binary" -> 13
    [] t \in {"REDACTED", "Circular"} -> 12 [] t = "TooDeep" -> 11
Quoted(key) == IF key \in Sensitive THEN 10 ELSE 3

\* walk(): bytes counted so far plus those of v, given up once over the limit.
RECURSIVE Walk(_, _, _)
Walk(v, ancestors, bytes) ==
  IF bytes > limit THEN bytes
  ELSE IF v.t # "ref" THEN bytes + Bytes(v.t)
  ELSE IF Node(v).t \notin Containers THEN bytes + Bytes(Node(v).t)
  ELSE IF v.id \in ancestors THEN bytes + Bytes("Circular")
  ELSE LET n == Node(v)
           comma(acc) == IF acc.first THEN acc.bytes ELSE acc.bytes + 1
           item(acc, k) ==
             IF acc.bytes > limit \/ (n.t = "obj" /\ k.val.t = "undefined") THEN acc
             ELSE [first |-> FALSE, bytes |->
                    IF n.t \in {"arr", "set"} THEN Walk(k.val, ancestors \cup {v.id}, comma(acc))
                    ELSE IF IsSensitiveKey(k.key) THEN comma(acc) + Quoted(k.key) + 1 + Bytes("REDACTED")
                    ELSE Walk(k.val, ancestors \cup {v.id}, comma(acc) + Quoted(k.key) + 1)]
       IN  FoldLeft(item, [first |-> TRUE, bytes |-> bytes + 2], n.kids).bytes
JsonByteSize(v) == Walk(v, {}, 0)

-----------------------------------------------------------------------------
(* AuditLogger.normalise                                                     *)

Entry == [t |-> "ref", id |-> 1]
Member(i) == heap[1].kids[i]
Present(i) == Member(i).key = "params" \/ Member(i).val.t # "undefined"
Entered(tooLarge) ==
  LET val(i) == CASE ~Present(i) -> Mark("undefined")
                  [] Present(i) /\ tooLarge -> Mark("dropped")
                  [] OTHER -> RedactObject(Member(i).val)
  IN  Tree("obj", [i \in DOMAIN heap[1].kids |-> [key |-> Member(i).key, val |-> val(i)]])

Normalise ==
  /\ place = "new" /\ place' = "written"
  /\ written' = Entered(JsonByteSize(Entry) > limit)
  /\ UNCHANGED <<heap, limit>>

RedactNext == Normalise
RedactSpec == RedactInit /\ [][RedactNext]_redactVars

-----------------------------------------------------------------------------
\* The JSON text's size of a tree, counted in full.
RECURSIVE JsonSize(_)
JsonSize(tree) ==
  IF tree.t \notin {"arr", "obj"} THEN Bytes(tree.t)
  ELSE LET shown == SelectSeq(tree.kids, LAMBDA k : tree.t = "arr" \/ k.val.t # "undefined")
           size(k) == JsonSize(k.val) + IF tree.t = "arr" THEN 0 ELSE Quoted(k.key) + 1
           total == FoldLeft(LAMBDA n, k : n + size(k), 0, shown)
       IN  2 + total + IF shown = <<>> THEN 0 ELSE Len(shown) - 1

RECURSIVE NoSecret(_)
NoSecret(tree) ==
  \A i \in DOMAIN tree.kids :
    /\ tree.kids[i].key \in Sensitive \cup Extra <=> tree.kids[i].val.t = "REDACTED"
    /\ NoSecret(tree.kids[i].val)

\* The nodes whose members are written, and the undefined members on which jsonByteSize and the
\* written JSON disagree: an object's under a sensitive key, which is written as redacted and not
\* counted, and a Map's under any other key, which is counted and not written.
Hidden(n, k) == n.t \in {"map", "obj"} /\ IsSensitiveKey(k.key)
Written ==
  LET members(n) == {k \in ToSet(n.kids) : n.t \in Containers /\ k.val.t = "ref" /\ ~Hidden(n, k)}
      grow[d \in 0..Len(heap)] ==
        IF d = 0 THEN {heap[1]}
        ELSE grow[d - 1] \cup UNION {{Node(k.val) : k \in members(n)} : n \in grow[d - 1]}
  IN  grow[Len(heap)]
Undefined(n) == {k \in ToSet(n.kids) : k.val.t = "undefined"}
Uncounted == \E n \in Written : n.t = "obj" /\ \E k \in Undefined(n) : Hidden(n, k)
Overcounted == \E n \in Written : n.t = "map" /\ \E k \in Undefined(n) : ~Hidden(n, k)

\* Nothing under a sensitive key is written, at any depth and however the entry's objects share and
\* contain each other.  An entry is written whole or dropped, and the estimate decides as the size
\* of the redacted JSON would: an entry over the limit passes only with an undefined value under
\* a sensitive key of an object, one within it is dropped only with an undefined value in a Map.
RedactionExact ==
  place = "written" =>
    LET whole == Redact(Entry, {}, -1)
        over == JsonSize(whole) > limit
        drop == \E i \in DOMAIN written.kids : written.kids[i].val.t = "dropped"
    IN  /\ NoSecret(written)
        /\ ~drop => written = whole /\ (over => Uncounted)
        /\ drop => over \/ Overcounted

-----------------------------------------------------------------------------
(***************************************************************************)
(* The answer to an unknown method names the closest known one: a two-row   *)
(* Levenshtein distance behind a cap on the input, a filter on the lengths  *)
(* and a threshold.                                                         *)
(***************************************************************************)

CONSTANTS
  Letters, ToLower,               \* letters, and their lower case
  Unknown, Candidates,   \* method names asked for; sequences of known names
  MaxInput                        \* MAX_SUGGEST_INPUT_CHARS (256)

VARIABLES method, known, asked, answer

suggestVars == <<method, known, asked, answer>>

None == <<"none">>
SuggestInit == method \in Unknown /\ known \in Candidates /\ asked = FALSE /\ answer = None

-----------------------------------------------------------------------------
\* One row of the table from the previous one, cell by cell.
NextRow(prev, a, ch) ==
  LET curr[i \in 0..Len(a)] ==
        IF i = 0 THEN prev[0] + 1
        ELSE LET cost == IF a[i] = ch THEN 0 ELSE 1
             IN  Min({curr[i - 1] + 1, prev[i] + 1, prev[i - 1] + cost})
  IN  curr

LevenshteinDistance(x, y) ==
  LET a == IF Len(x) > Len(y) THEN y ELSE x
      b == IF Len(x) > Len(y) THEN x ELSE y
      rows == FoldLeft(LAMBDA row, ch : NextRow(row, a, ch), [i \in 0..Len(a) |-> i], b)
  IN  IF a = b THEN 0 ELSE IF a = <<>> THEN Len(b) ELSE rows[Len(a)]

Lower(s) == [i \in DOMAIN s |-> ToLower[s[i]]]
Threshold(name) == Max({2, (Len(name) * 2) \div 5})

SuggestLast(name, names) ==      \* mutant: a later candidate wins a tie
  LET score(c) == LevenshteinDistance(Lower(name), Lower(c))
      better(b, c) == score(c) <= Threshold(name) /\ (b = None \/ score(c) <= score(b))
  IN  FoldLeft(LAMBDA b, c : IF better(b, c) THEN c ELSE b, None, names)
SuggestClosestMethod(name, names) ==
  LET score(c) == LevenshteinDistance(Lower(name), Lower(c))
      apart(c) == IF Len(c) > Len(name) THEN Len(c) - Len(name) ELSE Len(name) - Len(c)
      better(b, c) == /\ apart(c) <= Threshold(name) /\ score(c) <= Threshold(name)
                      /\ b = None \/ score(c) < score(b)
  IN  IF name = <<>> \/ Len(name) > MaxInput THEN None
      ELSE FoldLeft(LAMBDA b, c : IF better(b, c) THEN c ELSE b, None, names)

Suggest ==
  /\ ~asked /\ asked' = TRUE /\ answer' = SuggestClosestMethod(method, known)
  /\ UNCHANGED <<method, known>>

SuggestNext == Suggest
SuggestSpec == SuggestInit /\ [][SuggestNext]_suggestVars
-----------------------------------------------------------------------------
\* Reference: the names that n single edits (insert, delete, replace a letter) reach.
Edits(s) ==
  {s} \cup {RemoveAt(s, i) : i \in DOMAIN s} \cup {ReplaceAt(s, i, c) : i \in DOMAIN s, c \in Letters}
      \cup {InsertAt(s, i, c) : i \in 1..Len(s) + 1, c \in Letters}
RECURSIVE Reach(_, _)
Reach(s, n) == IF n = 0 THEN {s} ELSE UNION {Edits(t) : t \in Reach(s, n - 1)}
Distance(s, t) == CHOOSE n \in 0..4 : t \in Reach(s, n) /\ (n = 0 \/ t \notin Reach(s, n - 1))

\* A suggestion is the first of the candidates that fewest edits, whatever the case, make of the name
\* asked for; there is none exactly when no candidate is within the threshold or the name is too long.
SuggestionClosest ==
  asked =>
    LET edits == [i \in DOMAIN known |-> Distance(Lower(method), Lower(known[i]))]
        near == {i \in DOMAIN known : edits[i] <= Threshold(method)}
    IN  IF near = {} \/ method = <<>> \/ Len(method) > MaxInput THEN answer = None
        ELSE answer = known[Min({i \in near : \A j \in near : edits[i] <= edits[j]})]

-----------------------------------------------------------------------------
(***************************************************************************)
(* From a service's zod schemas to the published document: buildContract    *)
(* serialises the schema of each method, contractToOpenApi renders the      *)
(* serialised shapes as JSON schemas, and callers validate against these.   *)
(***************************************************************************)

CONSTANTS
  Registries,           \* method registries: sequences of [name, builtin, schema], a schema being
                        \* a tree [k, kids, keys, vals]
  JsonValues,               \* JSON values: trees [t, v, keys, kids]
  ShapeDepth, JsonDepth \* the deepest nesting that is serialised and rendered (6, 10)

VARIABLES zod, registry, contract, doc

schemaVars == <<zod, registry, contract, doc>>

SchemaNode(k, kids, keys, vals) == [k |-> k, kids |-> kids, keys |-> keys, vals |-> vals]
Nothing == SchemaNode("null", <<>>, <<>>, {})
JsonNull == [t |-> "null", v |-> "null", keys |-> <<>>, kids |-> <<>>]

SchemaInit == zod \in {3, 4} /\ registry \in Registries /\ contract = <<>> /\ doc = <<>>

-----------------------------------------------------------------------------
(* contract.ts                                                               *)

Transparent == {"branded", "readonly", "catch"}

\* serializeZod.  A transparent wrapper is unwrapped by `def.type ?? def.innerType`: with zod 4
\* def.type is the name of the kind, so nothing is left of what it wraps.
RECURSIVE SerializeZod(_, _)
SerializeShallow(s, depth) == IF s.k \in Transparent THEN Nothing ELSE s   \* mutant: wrappers hide their inside
SerializeZod(s, depth) ==
  LET kids == [i \in DOMAIN s.kids |-> SerializeZod(s.kids[i], depth + 1)]
  IN  IF depth > ShapeDepth THEN Nothing
      ELSE IF s.k \in Transparent THEN IF zod = 4 THEN Nothing ELSE kids[1]
      ELSE [s EXCEPT !.k = IF @ = "pipeline" THEN "pipe" ELSE @, !.kids = kids]

BuildContract ==
  /\ contract = <<>>
  /\ contract' = LET own == SelectSeq(registry, LAMBDA m : ~m.builtin)
                     shape == [i \in DOMAIN own |-> [name |-> own[i].name, shape |-> SerializeZod(own[i].schema, 0)]]
                 IN  SortSeq(shape, LAMBDA a, b : a.name < b.name)
  /\ UNCHANGED <<zod, registry, doc>>

-----------------------------------------------------------------------------
(* openapi-gen.ts: JSON schemas are [op, kids, keys, vals, required, nullable] *)

Json(op, kids, keys, vals) ==
  [op |-> op, kids |-> kids, keys |-> keys, vals |-> vals, required |-> {}, nullable |-> FALSE]
AnyObject == Json("object", <<>>, <<>>, {})
IsOptionalField(x) == x.k \in {"optional", "default"}

RequiresAll(x) == ToSet(x.keys)           \* mutant: a field with a default is required
Required(x) == {x.keys[i] : i \in {j \in DOMAIN x.keys : ~IsOptionalField(x.kids[j])}}

RECURSIVE ZodShapeToJsonSchema(_, _)
ZodShapeToJsonSchema(x, depth) ==
  LET kids == [i \in DOMAIN x.kids |-> ZodShapeToJsonSchema(x.kids[i], depth + 1)]
  IN  CASE x = Nothing \/ depth > JsonDepth -> AnyObject
        [] x.k \in {"string", "bigint", "date"} -> Json("string", <<>>, <<>>, {})
        [] x.k \in {"number", "boolean"} -> Json(x.k, <<>>, <<>>, {})
        [] x.k \in {"literal", "enum"} -> Json("enum", <<>>, <<>>, x.vals)
        [] x.k \in {"optional", "default", "effects", "pipe"} -> kids[1]
        [] x.k = "nullable" -> [kids[1] EXCEPT !.nullable = TRUE]
        [] x.k \in {"array", "set", "record", "tuple"} -> Json(x.k, kids, <<>>, {})
        [] x.k = "union" -> Json("oneOf", kids, <<>>, {})
        [] x.k = "intersection" -> Json("allOf", kids, <<>>, {})
        [] x.k = "map" -> Json("array", <<Json("tuple", kids, <<>>, {})>>, <<>>, {})
        [] x.k = "object" -> [Json("object", kids, x.keys, {}) EXCEPT !.required = Required(x)]
        [] OTHER -> Json("any", <<>>, <<>>, {})

ContractToOpenApi ==
  /\ contract # <<>> /\ doc = <<>>
  /\ doc' = [i \in DOMAIN contract |->
              [path |-> contract[i].name, schema |-> ZodShapeToJsonSchema(contract[i].shape, 0)]]
  /\ UNCHANGED <<zod, registry, contract>>

SchemaNext == BuildContract \/ ContractToOpenApi
SchemaSpec == SchemaInit /\ [][SchemaNext]_schemaVars

-----------------------------------------------------------------------------
(* What zod and a JSON-schema validator accept                               *)

Field(json, key) == {json.kids[i] : i \in {j \in DOMAIN json.kids : json.keys[j] = key}}
Distinct(seq) == \A i, j \in DOMAIN seq : seq[i] = seq[j] => i = j

RECURSIVE ZodAccepts(_, _)
ZodAccepts(s, json) ==
  CASE s.k \in {"string", "bigint", "date"} -> json.t = "string"
    [] s.k = "any" -> TRUE
    [] s.k \in {"number", "boolean"} -> json.t = s.k
    [] s.k \in {"literal", "enum"} -> json.v \in s.vals
    [] s.k \in Transparent \cup {"optional", "default", "effects", "pipe", "pipeline"} -> ZodAccepts(s.kids[1], json)
    [] s.k = "nullable" -> json = JsonNull \/ ZodAccepts(s.kids[1], json)
    [] s.k = "array" -> json.t = "array" /\ \A i \in DOMAIN json.kids : ZodAccepts(s.kids[1], json.kids[i])
    [] s.k = "set" -> /\ json.t = "array" /\ Distinct(json.kids)
                      /\ \A i \in DOMAIN json.kids : ZodAccepts(s.kids[1], json.kids[i])
    [] s.k = "union" -> \E i \in DOMAIN s.kids : ZodAccepts(s.kids[i], json)
    [] s.k = "intersection" -> \A i \in DOMAIN s.kids : ZodAccepts(s.kids[i], json)
    [] s.k = "record" -> json.t = "object" /\ \A i \in DOMAIN json.kids : ZodAccepts(s.kids[1], json.kids[i])
    [] s.k = "tuple" -> /\ json.t = "array" /\ Len(json.kids) = Len(s.kids)
                        /\ \A i \in DOMAIN s.kids : ZodAccepts(s.kids[i], json.kids[i])
    [] s.k = "map" -> /\ json.t = "array"
                      /\ \A i \in DOMAIN json.kids :
                           ZodAccepts(SchemaNode("tuple", s.kids, <<>>, {}), json.kids[i])
    [] s.k = "object" -> /\ json.t = "object"
                         /\ \A i \in DOMAIN s.keys :
                              LET f == Field(json, s.keys[i])
                              IN  IF f = {} THEN s.kids[i].k \in {"optional", "default"}
                                  ELSE \A x \in f : ZodAccepts(s.kids[i], x)

RECURSIVE JsonAccepts(_, _)
JsonAccepts(j, json) ==
  \/ j.nullable /\ json = JsonNull
  \/ CASE j.op \in {"string", "number", "boolean"} -> json.t = j.op
       [] j.op = "any" -> TRUE
       [] j.op = "enum" -> json.v \in j.vals
       [] j.op \in {"array", "set"} -> /\ json.t = "array" /\ (j.op = "set" => Distinct(json.kids))
                                       /\ \A i \in DOMAIN json.kids : JsonAccepts(j.kids[1], json.kids[i])
       [] j.op = "oneOf" -> Cardinality({i \in DOMAIN j.kids : JsonAccepts(j.kids[i], json)}) = 1
       [] j.op = "allOf" -> \A i \in DOMAIN j.kids : JsonAccepts(j.kids[i], json)
       [] j.op = "record" -> json.t = "object" /\ \A i \in DOMAIN json.kids : JsonAccepts(j.kids[1], json.kids[i])
       [] j.op = "tuple" -> /\ json.t = "array" /\ Len(json.kids) = Len(j.kids)
                            /\ \A i \in DOMAIN j.kids : JsonAccepts(j.kids[i], json.kids[i])
       [] j.op = "object" -> /\ json.t = "object" /\ j.required \subseteq ToSet(json.keys)
                             /\ \A i \in DOMAIN j.keys : \A x \in Field(json, j.keys[i]) : JsonAccepts(j.kids[i], x)

RECURSIVE Height(_)
Height(s) == IF s.kids = <<>> THEN 0 ELSE 1 + (CHOOSE n \in 0..9 :
  (\A i \in DOMAIN s.kids : Height(s.kids[i]) <= n) /\ \E i \in DOMAIN s.kids : Height(s.kids[i]) = n)
RECURSIVE Uses(_, _)
Uses(s, kinds) == s.k \in kinds \/ \E i \in DOMAIN s.kids : Uses(s.kids[i], kinds)

\* The document lists the service's own methods, each once and in order, and a caller that validates
\* against it accepts exactly what the service accepts; except beyond the depth that is serialised,
\* under zod 4's transparent wrappers, and where the options of a union overlap.
DocumentExact ==
  doc # <<>> =>
    /\ {doc[i].path : i \in DOMAIN doc} = {registry[i].name : i \in {j \in DOMAIN registry : ~registry[j].builtin}}
    /\ \A i, j \in DOMAIN doc : i < j => doc[i].path < doc[j].path
    /\ \A i \in DOMAIN doc, m \in ToSet(registry) :
         /\ m.name = doc[i].path /\ Height(m.schema) <= ShapeDepth
         /\ ~(zod = 4 /\ Uses(m.schema, Transparent))
         => \A json \in JsonValues : JsonAccepts(doc[i].schema, json) <=> ZodAccepts(m.schema, json)

-----------------------------------------------------------------------------
(***************************************************************************)
(* uuidv7: ids of one process increase although the clock stands still,     *)
(* goes back or a millisecond runs out of counter values.  An id carries    *)
(* its millisecond in six digits and the counter after it; random bytes,    *)
(* taken from a pool, follow.                                               *)
(***************************************************************************)

CONSTANTS
  CounterSize,   \* values of the counter (2^12 in the program)
  Base,          \* values of a digit (256)
  BytePool, Take,  \* random bytes in the pool, and per id (4096 and 8)
  MaxMs,         \* bound: the clock
  MaxIds         \* bound: ids made

VARIABLES clock, lastMs, counter, poolOffset, ids, drawn
idVars == <<clock, lastMs, counter, poolOffset, ids, drawn>>

IdsInit == clock = 1 /\ lastMs = 0 /\ counter = 0 /\ poolOffset = BytePool /\ ids = <<>> /\ drawn = <<>>

Digits(ms) == [i \in 1..6 |-> (ms \div Base ^ (6 - i)) % Base]
Timestamp(id) ==
  id[1] * Base ^ 5 + id[2] * Base ^ 4 + id[3] * Base ^ 3 + id[4] * Base ^ 2 + id[5] * Base + id[6]

\* nextRandomBytes: a pool that is too short for the draw is filled again.
Drawn ==
  LET o == IF poolOffset + Take > BytePool THEN 0 ELSE poolOffset
  IN  [fresh |-> poolOffset + Take > BytePool, from |-> o, next |-> o + Take]

StampWraps ==          \* mutant: the counter wraps within the millisecond
  LET ms == IF clock < lastMs THEN lastMs ELSE clock
  IN  [ms |-> ms, counter |-> IF ms = lastMs THEN (counter + 1) % CounterSize ELSE 0]
\* A clock that went back is ignored; the counter wraps into the next millisecond.
NextStamp ==
  LET ms == IF clock < lastMs THEN lastMs ELSE clock
      c == IF ms = lastMs THEN (counter + 1) % CounterSize ELSE 0
  IN  [ms |-> IF ms = lastMs /\ c = 0 THEN lastMs + 1 ELSE ms, counter |-> c]

Uuidv7 ==
  LET s == NextStamp
  IN  /\ Len(ids) < MaxIds
      /\ lastMs' = s.ms /\ counter' = s.counter
      /\ ids' = Append(ids, Append(Digits(s.ms), s.counter))
      /\ poolOffset' = Drawn.next /\ drawn' = Append(drawn, Drawn)
      /\ UNCHANGED clock

\* The clock moves on, or is set back.
SetClock == clock' \in 1..MaxMs /\ clock' # clock /\ UNCHANGED <<lastMs, counter, poolOffset, ids, drawn>>

IdsNext == Uuidv7 \/ SetClock

Less(a, b) == \E i \in 1..7 : a[i] < b[i] /\ \A j \in 1..i - 1 : a[j] = b[j]

\* Ids increase as strings; the timestamp read back is the one written and at most one wrap
\* ahead of the highest clock seen per CounterSize ids; no random byte serves two ids.
IdsIncrease ==
  /\ \A i \in 1..Len(ids) - 1 : Less(ids[i], ids[i + 1])
  /\ ids # <<>> => Timestamp(ids[Len(ids)]) = lastMs
  /\ lastMs <= MaxMs + Len(ids) \div CounterSize
  /\ \A i \in DOMAIN drawn : /\ drawn[i].next <= BytePool
                             /\ i > 1 /\ ~drawn[i].fresh => drawn[i].from >= drawn[i - 1].next

=============================================================================
