----------------------------- MODULE TraCIValues ----------------------------
(* How values look like on the wire, after the typed getters of TraCIAPI.cpp    *)
(* and the writing parts of its scopes.  A token names a value of a payload:    *)
(* a type of TraCIConstants, which is preceded by its type code, "compoundN", a *)
(* compound of N parts, "polygonN", a polygon of N points, or one of the "raw"  *)
(* values without a type code.                                                  *)
EXTENDS Storage, TraCIConstants

\* The fields of a value; the first one of a list is its number of elements.
Fields ==
  [ubyte |-> <<"ubyte">>, byte |-> <<"byte">>, integer |-> <<"integer">>, double |-> <<"double">>,
   string |-> <<"string">>, color |-> <<"ubyte", "ubyte", "ubyte", "ubyte">>,
   position2D |-> <<"double", "double">>, lonLat |-> <<"double", "double">>,
   position3D |-> <<"double", "double", "double">>, lonLatAlt |-> <<"double", "double", "double">>,
   roadmap |-> <<"string", "double", "ubyte">>,
   rawByte |-> <<"ubyte">>, rawInt |-> <<"integer">>, rawDouble |-> <<"double">>, rawString |-> <<"string">>]

Compounds == [i \in 0..14 |-> <<"compound0", "compound1", "compound2", "compound3", "compound4", "compound5",
                               "compound6", "compound7", "compound8", "compound9", "compound10",
                               "compound11", "compound12", "compound13", "compound14">>[i + 1]]

Raw == {"rawByte", "rawInt", "rawDouble", "rawString"}

\* The value of a field that stands for v, 0 or 1.
FieldValue(field, v) ==
  CASE field = "double" -> <<v, 0, 0, 0, 0, 0, 0, 63>>
    [] field = "string" -> [i \in 1..v |-> 65]
    [] field = "byte"   -> -v
    [] OTHER            -> v

writeField(field, v) ==
  CASE field = "ubyte"   -> writeUnsignedByte(FieldValue(field, v))
    [] field = "byte"    -> writeByte(FieldValue(field, v))
    [] field = "integer" -> writeInt(FieldValue(field, v))
    [] field = "double"  -> writeDouble(FieldValue(field, v))
    [] field = "string"  -> writeString(FieldValue(field, v))

readField(s, field) ==
  CASE field = "ubyte"   -> readUnsignedByte(s)
    [] field = "byte"    -> readByte(s)
    [] field = "integer" -> readInt(s)
    [] field = "double"  -> readDouble(s)
    [] field = "string"  -> readString(s)

-----------------------------------------------------------------------------
(* Values without their type codes.                                           *)

\* The points of polygons; PolygonScope::add has no long form of their number.
Points == [polygon |-> 1, polygon0 |-> 0, polygon2 |-> 2, polygon256 |-> 256, polygon256InAByte |-> 256]

TypeOfToken(token) == IF token \in DOMAIN Points THEN "polygon" ELSE token

\* setShape: up to 255 points are counted in a byte, more after a zero; setBoundary always has two.
writeSize(token) ==
  IF Points[token] < 256 \/ token = "polygon256InAByte"
    THEN writeUnsignedByte(Points[token])
    ELSE writeUnsignedByte(0) \o writeInt(Points[token])

writePoints(n, v) == [i \in 1..(2 * 8 * n) |-> writeField("double", v)[1 + ((i - 1) % 8)]]

\* A string list of v strings; a polygon of one point, which SUMO counts in the long form for v = 0.
ValueOf(token, v) ==
  CASE token = "stringlist" -> [i \in 1..v |-> FieldValue("string", v)]
    [] token = "polygon"    -> <<[i \in 1..2 |-> FieldValue("double", v)]>>
    [] OTHER                -> [i \in DOMAIN Fields[token] |-> FieldValue(Fields[token][i], v)]

writeValue(token, v) ==
  CASE token = "stringlist" -> writeStringList(ValueOf(token, v))
    [] token \in DOMAIN Points ->
         (IF v = 0 THEN writeUnsignedByte(0) \o writeInt(Points[token]) ELSE writeSize(token))
           \o writePoints(Points[token], v)
    [] OTHER                -> FoldLeft(LAMBDA b, f : b \o writeField(f, v), <<>>, Fields[token])

\* Reads the given fields one after the other; the value is the sequence of them.
readFields(s, fields) ==
  FoldLeft(LAMBDA r, f : Appended(r.value, readField(r, f)), [s EXCEPT !.value = <<>>], fields)

\* getPolygon: a size of zero is followed by the size as an integer.
readPolygon(s) ==
  Then(readLength(s),
       LAMBDA size : Read(size, 2 * 8 * size.value, LAMBDA b :
         [i \in 1..size.value |-> <<Reverse(SubSeq(b, 16 * i - 15, 16 * i - 8)),
                                    Reverse(SubSeq(b, 16 * i - 7, 16 * i))>>]))

readValue(s, token) ==
  CASE token = "stringlist" -> readStringList(s)
    [] token = "polygon"    -> readPolygon(s)
    [] OTHER                -> readFields(s, Fields[token])

-----------------------------------------------------------------------------
(* Payloads: sequences of values with their type codes.                       *)

writeToken(token, v) ==
  IF \E i \in DOMAIN Compounds : Compounds[i] = token
    THEN writeUnsignedByte(TypeCodes["compound"])
           \o writeInt(CHOOSE i \in DOMAIN Compounds : Compounds[i] = token)
    ELSE IF token \in Raw THEN writeValue(token, v)
                          ELSE writeUnsignedByte(TypeCodes[TypeOfToken(token)]) \o writeValue(token, v)

writePayload(tokens, v) == FoldLeft(LAMBDA b, t : b \o writeToken(t, v), <<>>, tokens)

\* The methods for compounds skip the type codes of the parts and read what they expect.
readToken(s, token) ==
  IF token \in Raw THEN readValue(s, token) ELSE readValue(readUnsignedByte(s), token)

readTokens(s, tokens) ==
  FoldLeft(LAMBDA r, t : Appended(r.value, readToken(r, t)), [s EXCEPT !.value = <<>>], tokens)
=============================================================================
