-------------------------------- MODULE Wire --------------------------------
(***************************************************************************)
(* A unary gRPC call made through the generated stubs: the client          *)
(* serialises a request body, the service reads it, answers, and the       *)
(* client reads the answer (requestSerialize, requestDeserialize,          *)
(* responseSerialize, responseDeserialize of protos/demo.ts).              *)
(*                                                                         *)
(* The client is built from one of the repository's two copies of the      *)
(* generated code and the service from the other, because every service    *)
(* is generated on its own; during a rolling upgrade the service may       *)
(* moreover know one field more, or one field less, than the client.  The  *)
(* API routes pass on the JSON body they receive, so that the object a     *)
(* client serialises may lack a field of its type.                         *)
(***************************************************************************)
EXTENDS Codec, FiniteSetsExt, TLC

CONSTANTS
    Words,       \* field names with two spellings, camelCase and snake_case
    MaxSet,      \* bound: fields of a message that differ from their default
    AddedTypes   \* types of the field that a newer service has

ASSUME WireAssumption ==
    /\ MaxSet \in Nat
    /\ AddedTypes \subseteq {"string", "int32", "bool", "fixed32", "fixed64", "Ad"}

Frontend == INSTANCE Protos
Mobile == INSTANCE MobileProtos

Copies == {"frontend", "mobile"}
Schema(c) == IF c = "frontend" THEN Frontend!Messages ELSE Mobile!Messages
Methods(c) ==
    UNION {{svc[m] : m \in DOMAIN svc} :
              svc \in IF c = "frontend" THEN Frontend!Services ELSE Mobile!Services}

\* The library a copy's encode writes with, and that of the service it calls.
Library(c) == IF c = "frontend" THEN "bufbuild" ELSE "protobufjs"
ServiceLibrary(c) == Library(CHOOSE d \in Copies : d # c)

\* A copy generated without the snake_case keys.  (Mutant of ReadsSnake.)
CamelOnly(c) == FALSE

\* ts-proto v2 reads both spellings of a JSON key, v1 the camelCase one.
ReadsSnake(c) == c = "frontend"

VARIABLES
    client,      \* the copy of the generated code in the client
    method,      \* the method called
    version,     \* how the service's messages differ from the repository's
    phase,       \* "idle", "requested", "served", "handled", "replied", "done", "threw"
    sent,        \* the object last handed to a serialiser
    wire,        \* the buffer it made
    got          \* what the last deserialiser returned: [ok, v, pos]

vars == <<client, method, version, phase, sent, wire, got>>

-----------------------------------------------------------------------------
(* The versions of a service and the objects that are sent.                *)

Current == [kind |-> "current"]

With(S, t, num, type) == [S EXCEPT ![t] = ("added" :> One(num, type)) @@ @]
Without(S, t, f) == [S EXCEPT ![t] = [g \in DOMAIN @ \ {f} |-> @[g]]]

\* The messages as the service that client c calls knows them: those of the
\* other copy, where it has them, with version's one field more or less.
ServiceSchema(c, ver) ==
    LET S == IF c = "frontend" THEN Mobile!Messages @@ Frontend!Messages
                               ELSE Frontend!Messages
    IN  CASE ver.kind = "current" -> S
          [] ver.kind = "newer" -> With(S, ver.of, ver.num, ver.type)
          [] ver.kind = "older" -> Without(S, ver.of, ver.field)

\* The message types a message of type t can hold, itself included.
RECURSIVE Parts(_, _)
Parts(S, t) ==
    {t} \cup UNION {Parts(S, S[t][f].type) : f \in {g \in DOMAIN S[t] : IsMessage(S[t][g])}}

\* The numbers a new field of t may get: the first unused one, or the one
\* past the last.
FreeNumbers(S, t) ==
    LET used == {S[t][f].num : f \in DOMAIN S[t]} \cup {0}
    IN  {Max(used) + 1, Min((1 .. Max(used) + 1) \ used)}

Older(S, t) ==
    UNION {{[kind |-> "older", of |-> u, field |-> f] : f \in DOMAIN S[u]} : u \in Parts(S, t)}
Versions(S, t) ==
    {Current} \cup Older(S, t) \cup
    UNION {{[kind |-> "newer", of |-> u, num |-> num, type |-> type] :
                num \in FreeNumbers(S, u), type \in AddedTypes \ {u}} : u \in Parts(S, t)}

\* Messages of type t with at most k fields that are not the default.
RECURSIVE Samples(_, _, _)
Samples(S, t, k) ==
    LET NonDefault(fd) ==
            CASE IsMessage(fd) /\ ~fd.many -> {<<m>> : m \in Samples(S, fd.type, 1)}
              [] IsMessage(fd) /\ fd.many ->
                    {<<m, createBase(S, fd.type)>> : m \in Samples(S, fd.type, 1)}
              [] fd.many -> {<<"a">>, <<"", "a">>}
              [] ~fd.many /\ fd.type = "string" -> {"a"}
              [] ~fd.many /\ fd.type = "bool" -> {TRUE}
              [] ~fd.many /\ fd.type = "int64" -> {MaxSafe, MaxSafe + 1, -MaxSafe - 1}
              [] OTHER -> {-1}
        Extend(m) ==
            UNION {{[m EXCEPT ![f] = x] : x \in NonDefault(S[t][f])} :
                      f \in {g \in DOMAIN m : m[g] = Default(S[t][g])}}
    IN  IF k = 0 THEN {createBase(S, t)}
        ELSE LET fewer == Samples(S, t, k - 1)
             IN  fewer \cup UNION {Extend(m) : m \in fewer}

-----------------------------------------------------------------------------
Nothing == [ok |-> TRUE, v |-> <<>>, pos |-> 1]
NoMethod == Unary("Empty", "Empty")

Init ==
    /\ client \in Copies
    /\ method = NoMethod
    /\ version = Current
    /\ phase = "idle"
    /\ sent = <<>>
    /\ wire = <<>>
    /\ got = Nothing

\* requestSerialize and responseSerialize: encode(value).finish().  grpc-js
\* turns an exception of the serialiser into an error of the call.
Serialize(lib, S, t, obj, next) ==
    LET r == encode(lib, S, t, obj) IN
    /\ sent' = obj
    /\ wire' = r.w
    /\ got' = Nothing
    /\ phase' = IF r.ok THEN next ELSE "threw"

\* requestDeserialize and responseDeserialize: decode(value).
Deserialize(S, t, next) ==
    LET r == decode(S, t, wire) IN
    /\ got' = r
    /\ phase' = IF r.ok THEN next ELSE "threw"
    /\ UNCHANGED <<client, method, version, sent, wire>>

\* A complete body, to a service of any version.
Call(m) ==
    /\ phase = "idle"
    /\ method' = m
    /\ version' \in Versions(ServiceSchema(client, Current), m.request)
    /\ \E body \in Samples(Schema(client), m.request, MaxSet) :
          Serialize(Library(client), Schema(client), m.request, body, "requested")
    /\ UNCHANGED client

\* A body that lacks a field of its type, or of a message it holds.
CallPartial(m) ==
    /\ phase = "idle"
    /\ method' = m
    /\ version' = Current
    /\ \E o \in Older(Schema(client), m.request) :
          \E body \in Samples(Without(Schema(client), o.of, o.field), m.request, MaxSet) :
             Serialize(Library(client), Schema(client), m.request, body, "requested")
    /\ UNCHANGED client

Serve ==
    /\ phase = "requested"
    /\ Deserialize(ServiceSchema(client, version), method.request, "served")

\* The service's handler, which is not in question here, takes the request.
Handle ==
    /\ phase = "served"
    /\ phase' = "handled"
    /\ version' = Current
    /\ sent' = <<>>
    /\ wire' = <<>>
    /\ got' = Nothing
    /\ UNCHANGED <<client, method>>

\* The answer is a complete message of the service's version.
Reply ==
    /\ phase = "handled"
    /\ \E ver \in Versions(ServiceSchema(client, Current), method.response) :
          LET S == ServiceSchema(client, ver) IN
          \E answer \in Samples(S, method.response, MaxSet) :
             /\ version' = ver
             /\ Serialize(ServiceLibrary(client), S, method.response, answer, "replied")
    /\ UNCHANGED <<client, method>>

Receive ==
    /\ phase = "replied"
    /\ Deserialize(Schema(client), method.response, "done")

\* The call is over; the next one starts afresh.
Finish ==
    /\ phase \in {"done", "threw"}
    /\ method' = NoMethod
    /\ version' = Current
    /\ phase' = "idle"
    /\ sent' = <<>>
    /\ wire' = <<>>
    /\ got' = Nothing
    /\ UNCHANGED client

Next ==
    \/ \E m \in Methods(client) : Call(m) \/ CallPartial(m)
    \/ Serve \/ Handle \/ Reply \/ Receive \/ Finish

Spec == Init /\ [][Next]_vars

-----------------------------------------------------------------------------
(* Properties.                                                             *)

\* What a deserialiser returns is what fromPartial makes of the object that
\* was serialised, in the receiver's version of the type: known fields keep
\* their value at every depth, fields only one side knows disappear or get
\* their default, and the reader stops exactly at the end of the buffer.
\* This is what lets the services be upgraded one at a time.
ArrivesAsFromPartial ==
    /\ phase = "served" =>
          got = Read(fromPartial(ServiceSchema(client, version), method.request,
                        fromPartial(Schema(client), method.request, sent)), Len(wire) + 1)
    /\ phase = "done" =>
          got = Read(fromPartial(Schema(client), method.response, sent), Len(wire) + 1)

\* obj lacks a field that lib cannot write undefined, in itself or in a
\* message it holds.
RECURSIVE Unwritable(_, _, _, _)
Unwritable(lib, S, t, obj) ==
    \E f \in DOMAIN S[t] :
        IF f \notin DOMAIN obj
        THEN S[t][f].many \/ S[t][f].type \in ThrowsOnUndefined(lib)
        ELSE IsMessage(S[t][f])
             /\ \E i \in DOMAIN obj[f] : Unwritable(lib, S, S[t][f].type, obj[f][i])

\* obj holds an int64 that is not a safe integer, in itself or deeper.
RECURSIVE Unsafe(_, _, _)
Unsafe(S, t, obj) ==
    \E f \in DOMAIN S[t] \cap DOMAIN obj :
        \/ S[t][f].type = "int64" /\ obj[f] \notin -MaxSafe .. MaxSafe
        \/ IsMessage(S[t][f])
           /\ \E i \in DOMAIN obj[f] : Unsafe(S, S[t][f].type, obj[f][i])

\* A call fails in the codec only for a body that lacks a repeated field or a
\* scalar its library cannot write undefined (a number in the frontend, a
\* string or a 64-bit number in the mobile app), or for an amount outside the
\* safe integers: a version difference, or a body that lacks a message or
\* another scalar, never makes it fail.
ThrowHasCause ==
    phase = "threw" =>
        \/ Unwritable(Library(client), Schema(client), method.request, sent)
        \/ Unsafe(Schema(client), method.request, sent)
        \/ Unsafe(Schema(client), method.response, sent)

\* longToNumber: no deserialiser hands out an amount that a JavaScript number
\* may have rounded, however deep in the message it is.
NothingUnsafeDelivered ==
    phase \in {"served", "done"} =>
        ~Unsafe(Schema(client), IF phase = "served" THEN method.request ELSE method.response,
                got.v)

\* The JSON object j with its keys as in demo.proto.
RECURSIVE Snaked(_, _, _)
Snaked(S, t, j) ==
    LET Value(f) == IF IsMessage(S[t][f])
                    THEN [i \in DOMAIN j.camel[f] |-> Snaked(S, S[t][f].type, j.camel[f][i])]
                    ELSE j.camel[f]
    IN  [camel |-> [f \in DOMAIN j.camel \ Words |-> Value(f)],
         snake |-> [f \in DOMAIN j.camel \cap Words |-> Value(f)]]

\* toJSON leaves defaults out and fromJSON puts them back, at every depth;
\* the frontend's copy also reads the spelling of demo.proto.
JsonReadBack ==
    phase = "done" =>
        LET S == Schema(client)
            t == method.response
            j == toJSON(S, t, got.v)
        IN  /\ fromJSON(S, t, j, ReadsSnake(client)) = got.v
            /\ client = "frontend" =>
                  fromJSON(S, t, Snaked(S, t, j), ReadsSnake(client)) = got.v
=============================================================================
