------------------------------- MODULE Codec -------------------------------
(***************************************************************************)
(* What ts-proto generates for a message of demo.proto, written once over  *)
(* the message's schema.  Every message section of protos/demo.ts holds    *)
(* the same six functions (createBase, encode, decode, fromJSON, toJSON,   *)
(* fromPartial), which differ only in the fields they name; the fields are *)
(* the schemas of modules Protos and MobileProtos.                         *)
(*                                                                         *)
(* A wire buffer is a sequence of units: [n |-> i] is one varint (a tag, a *)
(* length or a number) or one fixed-width number, and [s |-> x] is the     *)
(* bytes of a non-empty string.  Lengths count units.  A sub-message is    *)
(* <<>> when the field is undefined and <<m>> when it holds m.             *)
(***************************************************************************)
EXTENDS Integers, Sequences, SequencesExt

CONSTANT MaxSafe     \* Number.MAX_SAFE_INTEGER, scaled down

ASSUME MaxSafeAssumption == MaxSafe \in Nat

One(num, type) == [num |-> num, type |-> type, many |-> FALSE]
Many(num, type) == [num |-> num, type |-> type, many |-> TRUE]
NoFields == <<>>
Unary(request, response) == [request |-> request, response |-> response]

Scalars == {"string", "int32", "int64", "bool", "fixed32", "fixed64"}
IsMessage(fd) == fd.type \notin Scalars

-----------------------------------------------------------------------------
(* createBase<Message> and fromPartial.  obj may lack fields.              *)

Default(fd) ==
    CASE fd.many \/ IsMessage(fd) -> <<>>
      [] fd.type = "string" -> ""
      [] fd.type = "bool" -> FALSE
      [] OTHER -> 0

createBase(S, t) == [f \in DOMAIN S[t] |-> Default(S[t][f])]

RECURSIVE fromPartial(_, _, _)
fromPartial(S, t, obj) ==
    [f \in DOMAIN S[t] |->
        CASE f \notin DOMAIN obj -> Default(S[t][f])
          [] IsMessage(S[t][f]) ->
                [i \in DOMAIN obj[f] |-> fromPartial(S, S[t][f].type, obj[f][i])]
          [] OTHER -> obj[f]]

-----------------------------------------------------------------------------
(* encode.  The functions test a scalar against its default, so a field    *)
(* that the object lacks is handed to the writer, and what comes of that   *)
(* is up to the library the copy is generated over: @bufbuild/protobuf     *)
(* (frontend) or protobufjs (mobile app).                                  *)

WireType(fd) ==
    CASE IsMessage(fd) \/ fd.type = "string" -> 2
      [] fd.type = "fixed32" -> 5
      [] fd.type = "fixed64" -> 1
      [] OTHER -> 0

Tag(fd) == 8 * fd.num + WireType(fd)

\* The fields of t in the order of their numbers, in which encode writes them.
Fields(S, t) == SetToSortSeq(DOMAIN S[t], LAMBDA a, b : S[t][a].num < S[t][b].num)

Written(w) == [ok |-> TRUE, w |-> w]
Threw == [ok |-> FALSE, w |-> <<>>]
Join(r, q) == IF r.ok /\ q.ok THEN Written(r.w \o q.w) ELSE Threw

WriteScalar(type, x) ==
    CASE type = "string" -> IF x = "" THEN <<[n |-> 0]>> ELSE <<[n |-> 1], [s |-> x]>>
      [] type = "bool" -> <<[n |-> IF x THEN 1 ELSE 0]>>
      [] OTHER -> <<[n |-> x]>>

\* The types whose writer throws on undefined; the others write a default.
ThrowsOnUndefined(lib) ==
    IF lib = "bufbuild" THEN {"int32", "int64", "fixed32", "fixed64"}
                        ELSE {"string", "int64", "fixed64"}

\* A writer that throws whatever the type.  (Mutant of WriteUndefined.)
StrictWriteUndefined(lib, fd) ==
    IF IsMessage(fd) /\ ~fd.many THEN Written(<<>>) ELSE Threw

\* The loop over a repeated field throws on undefined with either library.
WriteUndefined(lib, fd) ==
    CASE fd.many \/ fd.type \in ThrowsOnUndefined(lib) -> Threw
      [] IsMessage(fd) /\ ~fd.many -> Written(<<>>)
      [] OTHER -> Written(<<[n |-> Tag(fd)], [n |-> 0]>>)

RECURSIVE encode(_, _, _, _)
encode(lib, S, t, obj) ==
    LET Element(fd, x) ==
            IF IsMessage(fd)
            THEN LET r == encode(lib, S, fd.type, x)      \* fork(), join()
                 IN  Join(Written(<<[n |-> Tag(fd)], [n |-> Len(r.w)]>>), r)
            ELSE Written(<<[n |-> Tag(fd)]>> \o WriteScalar(fd.type, x))
        Field(f) ==
            LET fd == S[t][f] IN
            CASE f \notin DOMAIN obj -> WriteUndefined(lib, fd)
              [] fd.many \/ IsMessage(fd) ->
                    FoldLeft(LAMBDA r, x : Join(r, Element(fd, x)), Written(<<>>), obj[f])
              [] obj[f] = Default(fd) -> Written(<<>>)
              [] OTHER -> Element(fd, obj[f])
    IN  FoldLeft(LAMBDA r, f : Join(r, Field(f)), Written(<<>>), Fields(S, t))

-----------------------------------------------------------------------------
(* decode.  A reader result holds the value read, the index of the next    *)
(* unit (reader.pos) and whether no call threw.  A read past the buffer,   *)
(* or of a unit of another kind than the call expects, throws.             *)

Read(v, pos) == [ok |-> TRUE, v |-> v, pos |-> pos]
Failed(v) == [ok |-> FALSE, v |-> v, pos |-> 0]

\* reader.uint32(), int32(), int64(), bool() before conversion.
Varint(w, pos) ==
    IF pos \in DOMAIN w /\ "n" \in DOMAIN w[pos] THEN Read(w[pos].n, pos + 1) ELSE Failed(0)

\* The check against MIN_SAFE_INTEGER left out.  (Mutant of longToNumber.)
CheckedAboveOnly(r) == IF r.ok /\ r.v <= MaxSafe THEN r ELSE Failed(0)

longToNumber(r) == IF r.ok /\ r.v \in -MaxSafe .. MaxSafe THEN r ELSE Failed(0)

ReadString(w, pos) ==
    LET len == Varint(w, pos) IN
    CASE len.ok /\ len.v = 0 -> Read("", pos + 1)
      [] len.ok /\ len.v = 1 /\ pos + 1 \in DOMAIN w /\ "s" \in DOMAIN w[pos + 1] ->
            Read(w[pos + 1].s, pos + 2)
      [] OTHER -> Failed("")

\* reader.skip(tag & 7): a varint or fixed-width number is one unit, a
\* length-delimited field is its length and that many units; groups are not
\* used by proto3 and any other type throws.
skip(w, pos, wt) ==
    LET len == Varint(w, pos) IN
    CASE wt \in {0, 1, 5} /\ len.ok -> Read(0, pos + 1)
      [] wt = 2 /\ len.ok /\ pos + len.v \in DOMAIN w \cup {pos} -> Read(0, pos + 1 + len.v)
      [] OTHER -> Failed(0)

RECURSIVE decodeFrom(_, _, _, _, _, _)
decodeFrom(S, t, w, pos, end, message) ==
    LET tag == Varint(w, pos)
        known == {f \in DOMAIN S[t] : Tag(S[t][f]) = tag.v}
        Value(fd) ==
            LET len == Varint(w, tag.pos) IN
            CASE IsMessage(fd) ->
                    IF len.ok
                    THEN decodeFrom(S, fd.type, w, len.pos, len.pos + len.v,
                                    createBase(S, fd.type))
                    ELSE Failed(createBase(S, fd.type))
              [] fd.type = "string" -> ReadString(w, tag.pos)
              [] fd.type = "bool" -> [len EXCEPT !.v = @ # 0]
              [] fd.type = "int64" -> longToNumber(len)
              [] OTHER -> len
        Store(f, fd, v) ==
            [message EXCEPT ![f] = CASE fd.many -> Append(@, v)
                                     [] IsMessage(fd) -> <<v>>
                                     [] OTHER -> v]
    IN  CASE pos >= end -> Read(message, pos)
          [] pos < end /\ ~tag.ok -> Failed(message)
          [] pos < end /\ tag.ok /\ known # {} ->
                LET f == CHOOSE f \in known : TRUE
                    r == Value(S[t][f])
                IN  IF r.ok
                    THEN decodeFrom(S, t, w, r.pos, end, Store(f, S[t][f], r.v))
                    ELSE Failed(message)
          [] pos < end /\ tag.ok /\ known = {} ->
                IF tag.v % 8 = 4 \/ tag.v = 0
                THEN Read(message, tag.pos)
                ELSE LET r == skip(w, tag.pos, tag.v % 8)
                     IN  IF r.ok THEN decodeFrom(S, t, w, r.pos, end, message)
                                 ELSE Failed(message)

decode(S, t, w) == decodeFrom(S, t, w, 1, Len(w) + 1, createBase(S, t))

-----------------------------------------------------------------------------
(* toJSON and fromJSON.  A JSON object has members under camelCase and     *)
(* under snake_case keys.  toJSON writes camelCase and leaves defaults     *)
(* out; fromJSON of ts-proto v2 (frontend) tries camelCase, then           *)
(* snake_case, and that of v1 (mobile) camelCase only.                     *)

RECURSIVE toJSON(_, _, _)
toJSON(S, t, m) ==
    [camel |-> [f \in {g \in DOMAIN m : m[g] # Default(S[t][g])} |->
                    IF IsMessage(S[t][f])
                    THEN [i \in DOMAIN m[f] |-> toJSON(S, S[t][f].type, m[f][i])]
                    ELSE m[f]],
     snake |-> NoFields]

RECURSIVE fromJSON(_, _, _, _)
fromJSON(S, t, object, readsSnake) ==
    LET Parse(fd, x) ==
            IF IsMessage(fd)
            THEN [i \in DOMAIN x |-> fromJSON(S, fd.type, x[i], readsSnake)]
            ELSE x
    IN  [f \in DOMAIN S[t] |->
            CASE f \in DOMAIN object.camel -> Parse(S[t][f], object.camel[f])
              [] f \in DOMAIN object.snake \ DOMAIN object.camel /\ readsSnake ->
                    Parse(S[t][f], object.snake[f])
              [] OTHER -> Default(S[t][f])]
=============================================================================
