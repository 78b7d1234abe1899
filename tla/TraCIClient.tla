----------------------------- MODULE TraCIClient ----------------------------
(* The TraCI client of TraCIAPI with the SUMO process it talks to.  SUMO is not *)
(* part of the repository: it is modelled from what the client sends and how it *)
(* reads the answers.  It serves one request after the other, may refuse any of *)
(* them, may know a variable by another type than the client expects, and may   *)
(* go away at any time, in the middle of an answer too.                         *)
EXTENDS TraCIAPI, TraCIInterface

Alive == {"starting", "listening", "serving"}

SumoListens ==
  /\ process = "starting" /\ process' = "listening"
  /\ UNCHANGED <<client, subs, parity, stages, answer, told, toSumo, fromSumo>>

\* What SUMO has not read is lost, and so is what the client has not received of an answer.  A SUMO
\* that ends when its answer is on the way is one that ends when it has arrived.
SumoDies ==
  /\ process \in Alive /\ process' = "dead" /\ toSumo' = <<>> /\ fromSumo' = <<>>
  /\ subs' = {} /\ stages' = MaxStages
  /\ UNCHANGED <<client, parity, answer, told>>

-----------------------------------------------------------------------------
(* The bytes of answers.                                                      *)

Status(c, type) ==
  writeUnsignedByte(1 + 1 + 1 + 4) \o <<Command(c), type>> \o writeString(<<>>)

\* A response of up to 255 bytes has its length in a byte, a longer one after a zero.
Response(id, content) ==
  LET length == 2 + Len(content) IN
  (IF length <= 255 THEN <<length>> ELSE <<0>> \o writeInt(length + 4)) \o <<id>> \o content

\* The responses to subscriptions have the long form of the length.
LongResponse(id, content) == <<0>> \o writeInt(6 + Len(content)) \o <<id>> \o content

VariableValue(v, p) == <<v.id, RTYPE_OK, TypeCodes[v.type]>> \o writeValue(v.type, p)

VariableValues(variables, p) == FoldLeft(LAMBDA b, v : b \o VariableValue(v, p), <<>>, variables)

SubscriptionResponse(s, p) ==
  LongResponse(ResponseVariable(s.domain),
               writeString(s.object) \o <<Len(s.variables)>> \o VariableValues(s.variables, p))

ContextResponse(s, objects, p) ==
  LongResponse(SubscribeContext(s.domain) + 16,
               FoldLeft(LAMBDA b, o : b \o writeString(o) \o VariableValues(s.variables, p),
                        writeString(s.object) \o <<Domains["vehicle"], Len(s.variables)>>
                          \o writeInt(Len(objects)),
                        objects))

\* What a subscription tells about one object, as the client should store it.
Told(s, context, object, p) ==
  Entries(ResponseVariable(s.domain), context, object,
          [i \in DOMAIN s.variables |-> [id |-> s.variables[i].id, value |-> ValueOf(s.variables[i].type, p)]])

-----------------------------------------------------------------------------
(* SUMO takes the request and answers.                                        *)

Serve(bytes) ==
  /\ process = "serving" /\ toSumo # <<>>
  /\ toSumo' = <<>> /\ fromSumo' = fromSumo \o sendExact(bytes)
  /\ UNCHANGED client

\* Stages are removed one by one.  With the last one the person goes, and another one may come; by
\* any other request a person may get new stages.
StagesAfter(c) ==
  IF c.op \notin {"get", "set"} THEN MaxStages
  ELSE CASE c.method.method = "getRemainingStages" -> stages
         [] c.method.method = "removeStage" -> IF stages > 1 THEN stages - 1 ELSE MaxStages
         [] OTHER -> MaxStages

Refuse ==
  /\ \E type \in {RTYPE_ERR, RTYPE_NOTIMPLEMENTED} : Serve(Status(call, type))
  /\ answer' = [refused |-> TRUE]
  /\ UNCHANGED <<process, subs, parity, stages, told>>

\* A variable is of the type that the client expects, or of another one.
AnswerGet ==
  /\ call # Nothing /\ call.op = "get"
  /\ \E type \in {call.method.type, IF call.method.type = "integer" THEN "double" ELSE "integer"} :
       LET parts == IF type = "compound" THEN CompoundParts(call.method.method) ELSE <<>>
           content == IF call.method.method = "getRemainingStages" THEN stages ELSE parity
           value == IF type = "compound" THEN writePayload(parts, 1) ELSE writeValue(type, content) IN
       /\ Serve(Status(call, RTYPE_OK)
                  \o Response(Command(call) + 16,
                              <<VariableID(call.method.variable)>> \o writeString(call.object)
                                \o <<TypeCodes[type]>> \o value))
       /\ answer' = [type  |-> type,
                     value |-> IF type = "compound" THEN [i \in DOMAIN parts |-> ValueOf(parts[i], 1)]
                                                    ELSE ValueOf(type, content)]
  /\ stages' = StagesAfter(call)
  /\ UNCHANGED <<process, subs, parity, told>>

\* Commands that are only acknowledged; load drops the subscriptions, close ends SUMO.
Acknowledge ==
  /\ call # Nothing
  /\ \/ call.op \in {"set", "order", "load", "close"}
     \/ call.op = "subscribe" /\ call.variables = <<>>
  /\ Serve(Status(call, RTYPE_OK))
  /\ answer' = [acknowledged |-> TRUE]
  /\ subs' = CASE call.op = "load" -> {}
               [] call.op = "subscribe" -> {s \in subs : s.op = "context" \/ s.domain # call.domain
                                                           \/ s.object # call.object}
               [] OTHER -> subs
  /\ process' = IF call.op = "close" THEN "dead" ELSE process
  /\ stages' = StagesAfter(call)
  /\ UNCHANGED <<parity, told>>

AnswerVersion ==
  /\ call # Nothing /\ call.op = "version"
  /\ Serve(Status(call, RTYPE_OK) \o Response(Command(call), writeInt(20) \o writeString(<<65>>)))
  /\ answer' = [value |-> <<20, <<65>>>>] /\ stages' = StagesAfter(call)
  /\ UNCHANGED <<process, subs, parity, told>>

AnswerSubscribe ==
  /\ call # Nothing /\ call.op = "subscribe" /\ call.variables # <<>>
  /\ Serve(Status(call, RTYPE_OK) \o SubscriptionResponse(call, parity))
  /\ subs' = subs \cup {call}
  /\ told' = Store(told, Told(call, NoContext, call.object, parity))
  /\ answer' = [acknowledged |-> TRUE] /\ stages' = StagesAfter(call)
  /\ UNCHANGED <<process, parity>>

\* A variable that SUMO has no value of: its status is an error, its value the reason.
AnswerSubscribeInPart ==
  /\ call # Nothing /\ call.op = "subscribe" /\ call.variables # <<>>
  /\ Serve(Status(call, RTYPE_OK)
             \o LongResponse(ResponseVariable(call.domain),
                             writeString(call.object) \o <<Len(call.variables)>>
                               \o VariableValues(Tail(call.variables), parity)
                               \o <<call.variables[1].id, RTYPE_ERR, TypeCodes["string"]>> \o writeString(<<>>)))
  /\ answer' = [refused |-> TRUE]
  /\ UNCHANGED <<process, subs, parity, stages, told>>

AnswerContext ==
  /\ call # Nothing /\ call.op = "context"
  /\ \E near \in SUBSET Neighbours :
       /\ Serve(Status(call, RTYPE_OK) \o ContextResponse(call, SetToSeq(near), parity))
       /\ told' = Store(told, UNION {Told(call, <<call.object>>, o, parity) : o \in near})
  /\ subs' = subs \cup {call}
  /\ answer' = [acknowledged |-> TRUE] /\ stages' = StagesAfter(call)
  /\ UNCHANGED <<process, parity>>

\* The results of the subscriptions to objects that are still there; the others end.
AnswerStep ==
  /\ call # Nothing /\ call.op = "step"
  /\ \E kept \in SUBSET subs, near \in SUBSET Neighbours :
       LET now == 1 - parity
           Answer(s) == IF s.op = "context" THEN ContextResponse(s, SetToSeq(near), now)
                                            ELSE SubscriptionResponse(s, now) IN
       /\ Serve(Status(call, RTYPE_OK)
                  \o FoldLeft(LAMBDA b, s : b \o Answer(s), writeInt(Cardinality(kept)), SetToSeq(kept)))
       /\ subs' = kept /\ parity' = now
       /\ told' = UNION {IF s.op = "context" THEN UNION {Told(s, <<s.object>>, o, now) : o \in near}
                                              ELSE Told(s, NoContext, s.object, now) : s \in kept}
  /\ answer' = [acknowledged |-> TRUE] /\ stages' = StagesAfter(call)
  /\ UNCHANGED process

-----------------------------------------------------------------------------
Answers ==
  \/ Refuse \/ AnswerGet \/ Acknowledge \/ AnswerVersion
  \/ AnswerSubscribe \/ AnswerSubscribeInPart \/ AnswerContext \/ AnswerStep

Receiving == \E n \in Pieces(Wanted) : Receive(n)

\* The program makes a call; the common guard keeps TLC from trying all calls in every state.
CallAMethod ==
  /\ phase \in {"initial", "idle", "closed"} /\ returned = Nothing
  /\ \E m \in {<<c>> : c \in AllCalls} \cup Composites :
       Begin(Head(m), Tail(m)) \/ BeginFails(Head(m)) \/ Unconnected(Head(m))

Next ==
  \/ LaunchProcess \/ LaunchNothing \/ Connect
  \/ CallAMethod
  \/ Receiving \/ PeerShutdown \/ Return \/ GoOn \/ Continue \/ Kill
  \/ SumoListens \/ SumoDies \/ Answers

\* The program never pauses inside a call, and SUMO answers whatever it is asked, or is gone.
\* Return is enabled while an answer is complete and it takes that answer: its weak fairness is
\* that no answer stays complete, which spares TLC the decoding in ENABLED Return.
Fairness ==
  /\ WF_vars(Connect) /\ WF_vars(Receiving) /\ WF_vars(PeerShutdown) /\ WF_vars(Answers)
  /\ WF_vars(GoOn) /\ []<>~Complete

Spec == Init /\ [][Next]_vars /\ Fairness

-----------------------------------------------------------------------------
(* Properties.                                                                *)

\* Requests that a server cannot read by type codes alone: getDistance2D and getDistanceRoad end
\* with a bare byte, EdgeScope::setMaxSpeed leaves out the type code of its value, and the number of
\* points of an empty polygon, zero, announces the long form of this number.
Bare(method) ==
  \/ method.method \in {"getDistance2D", "getDistanceRoad"}
  \/ method.scope = "edge" /\ method.method = "setMaxSpeed"
  \/ \E i \in DOMAIN method.payload : method.payload[i] = "polygon0"

readTypedAfter(code) ==
  IF \A t \in DOMAIN TypeCodes : TypeCodes[t] # code.value THEN Throw(code, "unknown type")
  ELSE IF code.value = TypeCodes["compound"] THEN readInt(code)
  ELSE readValue(code, CHOOSE t \in DOMAIN TypeCodes : TypeCodes[t] = code.value)

readTyped(s) == readTypedAfter(readUnsignedByte(s))

ReadToItsEnd(s) == ~Throws(s) /\ Remaining(s) = 0

\* The rest of a storage is n values, each with its type code.
SelfDescribing(s, n) ==
  ReadToItsEnd(FoldLeft(LAMBDA r, i : Then(r, readTyped), s, [i \in 1..n |-> i]))

GoodPayload(object) ==
  ~Throws(object) /\ object.value = call.object /\ SelfDescribing(object, Len(call.method.payload))

GoodCommand(length) ==
  /\ length.value = Len(toSumo) - lengthLen
  /\ (call.op \in {"get", "set"} /\ ~Bare(call.method)) =>
       GoodPayload(readString(readUnsignedByte(readUnsignedByte(length))))

GoodMessage(total) == total.value = Len(toSumo) /\ GoodCommand(readLength(total))

\* A request is one message that a server can take apart without knowing the method that wrote it:
\* the length in front is the number of bytes sent, the length of the command is what follows it, in
\* its short or its long form, and all values of its payload can be told by their type codes, but for
\* the payloads of the methods in Bare.  It is about createCommand, the senders of subscriptions,
\* load, and the payloads that the methods of all scopes write.
RequestsWellFormed == toSumo # <<>> => GoodMessage(readInt(Storage(toSumo)))

\* The declared types that a decoded value converts to.
ConvertsTo ==
  [ubyte |-> {"int"}, byte |-> {"int"}, integer |-> {"int", "double", "bool"}, double |-> {"double"},
   string |-> {"string"}, stringlist |-> {"strings"}, color |-> {"TraCIColor"},
   position2D |-> {"TraCIPosition"}, lonLat |-> {"TraCIPosition"}, position3D |-> {"TraCIPosition"},
   lonLatAlt |-> {"TraCIPosition"}, roadmap |-> {"TraCIRoadPosition"},
   polygon |-> {"TraCIPositionVector"}, compound |-> {"compound"}]

\* A getter returns exactly what SUMO has answered to this very call, and only a value of the type
\* it decodes, which converts to the one that TraCIAPI.h declares: whatever pieces the answer arrives
\* in, an answer of another type, a refusal, a part of an answer or a lost SUMO never become a value.
\* It is about receiveExact, check_resultState, check_commandGetResult and the typed getters.  Of
\* compound values SUMO is taken to send the parts that the client reads.
AnswersTrue ==
  ("value" \in DOMAIN returned /\ call # Nothing) =>
    /\ call.op = "get" => "type" \in DOMAIN answer /\ answer.type = call.method.type
    /\ (call.op = "get" /\ call.method.method # "getParameter") =>
         Declared(call.domain, call.method.method) \in ConvertsTo[call.method.type]
    /\ call.op \in {"get", "version"} => returned.value = answer.value
    /\ answer # Nothing /\ "refused" \notin DOMAIN answer

\* Between two calls nothing is left on the way in either direction, so that no call can take the
\* rest of an earlier answer for its own: every call reads all of its answer, and a call that does
\* not ends the simulation.
InStep == phase \in {"idle", "closed"} => toSumo = <<>> /\ fromSumo = <<>> /\ buffer = <<>>

\* Between two calls the scopes hold exactly the results that SUMO has sent: of the last step the
\* ones of this step only, in the scope of their domain and under their context, and of later
\* subscriptions the first values.  It is about simulationStep, subscribe and subscribeContext.
ResultsCurrent == phase = "idle" => results = told

Busy == phase \in {"connecting", "receiving"} \/ todo # <<>>

\* Every method comes to an end, the ones with several requests too, also when SUMO refuses a request
\* or goes away in the middle of an answer, and so does connecting to a SUMO that never listens.
CallsEnd == Busy ~> ~Busy
=============================================================================
