------------------------------ MODULE TraCIAPI ------------------------------
(* The TraCI client: traci::API, TraCIAPI and tcpip::Socket, the launchers that *)
(* start SUMO or name a running one, and SUMO as far as the client sees it.     *)
(*                                                                              *)
(* The program is single threaded: a call sends its request, waits until the    *)
(* whole answer has been received, decodes it and returns.  Only API::connect   *)
(* catches an exception; any other one ends the simulation.  Requests and       *)
(* answers are the bytes that the code writes and reads.                        *)
EXTENDS TraCIValues, TraCIScopes, FiniteSets

CONSTANTS
  Calls,          \* calls of methods of scopes: [method, object]
  Subscriptions,  \* subscriptions the program makes: [op, domain, object, variables]
  Travellers,     \* vehicles and persons that methods of several requests are called for
  Neighbours,     \* objects that a context subscription may find
  MaxStages,      \* stages that a person has in SUMO, at most
  Pieces(_)       \* how many of the bytes asked for recv may return

VARIABLES
  phase,          \* where the program is: "idle" between two calls
  call,           \* the call under way, with one request
  todo,           \* the calls that the method under way still has to make
  mySocket,       \* TRUE while the socket exists
  attempts,       \* attempts to connect that API::connect has left
  buffer,         \* what receiveExact has received of the answer
  results,        \* mySubscriptionResults and myContextSubscriptionResults of all scopes
  returned,       \* what the call returns: its value, or the exception that it throws
  m_pid,          \* whether the launcher has a process to kill
  process,        \* SUMO's process
  subs,           \* the subscriptions that SUMO serves
  parity,         \* SUMO's values change with every step
  stages,         \* the stages that a person still has in SUMO
  answer,         \* what SUMO has answered to the call under way
  told,           \* the results of subscriptions that SUMO has sent
  toSumo, fromSumo  \* the bytes on their way

client == <<phase, call, todo, mySocket, attempts, buffer, results, returned, m_pid>>
sumo == <<process, subs, parity, stages, answer, told>>
vars == <<client, sumo, toSumo, fromSumo>>

Strings == {c.object : c \in Calls} \cup {s.object : s \in Subscriptions} \cup Neighbours

ASSUME CallsAssumption ==
  /\ \A c \in Calls : c.method \in Methods \cup UNION {Parameters(d) : d \in DOMAIN Domains}
  /\ \A s \in Subscriptions : s.domain \in DOMAIN Domains /\ s.op \in {"subscribe", "context"}
  /\ \A s \in Strings : s \in Seq(Byte)
  /\ MaxStages \in Nat \ {0}
  /\ \A n \in 1..20 : Pieces(n) # {} /\ Pieces(n) \subseteq 1..n

Simple == {"step", "load", "order", "version", "close"}

-----------------------------------------------------------------------------
(* Requests.                                                                  *)

\* Detectors have no set command; their scopes hold -1 in its place.
myCmdSetID(domain) ==
  IF domain \in {"inductionloop", "multientryexit", "lanearea"} THEN -1 ELSE SetVariable(domain)

\* The command that a call sends, to be repeated by the status of the answer.
Command(c) ==
  CASE c.op = "get"       -> GetVariable(c.domain)
    [] c.op = "set"       -> myCmdSetID(c.domain)
    [] c.op = "subscribe" -> SubscribeVariable(c.domain)
    [] c.op = "context"   -> SubscribeContext(c.domain)
    [] c.op = "step"      -> Commands["CMD_SIMSTEP"]
    [] c.op = "load"      -> Commands["CMD_LOAD"]
    [] c.op = "order"     -> Commands["CMD_SETORDER"]
    [] c.op = "version"   -> Commands["CMD_GETVERSION"]
    [] c.op = "close"     -> Commands["CMD_CLOSE"]

\* Mutant of createCommand: the additional values are not counted.
createCommandWithoutAdd(command, variable, object, add) ==
  writeUnsignedByte(1 + 1 + 1 + 4 + Len(object))
    \o writeUnsignedByte(command) \o writeUnsignedByte(variable) \o writeString(object) \o add

createCommand(command, variable, object, add) ==
  LET length == 1 + 1 + 1 + 4 + Len(object) + Len(add) IN
  (IF length <= 255 THEN writeUnsignedByte(length) ELSE writeUnsignedByte(0) \o writeInt(length + 4))
    \o writeUnsignedByte(command) \o writeUnsignedByte(variable) \o writeString(object) \o add

writeIds(variables) == FoldLeft(LAMBDA b, v : b \o writeUnsignedByte(v.id), <<>>, variables)

send_commandSubscribeObjectVariable(c) ==
  writeUnsignedByte(0)
    \o writeInt(5 + 1 + 8 + 8 + 4 + Len(c.object) + 1 + Len(c.variables))
    \o writeUnsignedByte(Command(c)) \o writeField("double", 0) \o writeField("double", 1)
    \o writeString(c.object) \o writeUnsignedByte(Len(c.variables)) \o writeIds(c.variables)

send_commandSubscribeObjectContext(c) ==
  writeUnsignedByte(0)
    \o writeInt(5 + 1 + 8 + 8 + 4 + Len(c.object) + 1 + 8 + 1 + Len(c.variables))
    \o writeUnsignedByte(Command(c)) \o writeField("double", 0) \o writeField("double", 1)
    \o writeString(c.object) \o writeUnsignedByte(Domains["vehicle"]) \o writeField("double", 1)
    \o writeUnsignedByte(Len(c.variables)) \o writeIds(c.variables)

\* The arguments of load: one option.
load_args == << <<65>> >>

Request(c) ==
  CASE c.op \in {"get", "set"} -> createCommand(Command(c), VariableID(c.method.variable), c.object,
                                                writePayload(c.method.payload, 1))
    [] c.op = "subscribe" -> send_commandSubscribeObjectVariable(c)
    [] c.op = "context"   -> send_commandSubscribeObjectContext(c)
    [] c.op = "step"      -> <<1 + 1 + 8, Command(c)>> \o writeField("double", 0)
    [] c.op = "load"      -> writeUnsignedByte(0) \o writeInt(1 + 4 + 1 + 1 + 4 + 1 + 4 * Len(load_args))
                               \o <<Command(c), TypeCodes["stringlist"]>> \o writeStringList(load_args)
    [] c.op = "order"     -> <<1 + 1 + 4, Command(c)>> \o writeInt(1)
    [] c.op \in {"version", "close"} -> <<1 + 1, Command(c)>>

lengthLen == 4

sendExact(bytes) == writeInt(lengthLen + Len(bytes)) \o bytes

-----------------------------------------------------------------------------
(* Decoding of answers.                                                       *)

readStatus(s) ==
  Then(readUnsignedByte(s), LAMBDA length :
    Then(readUnsignedByte(length), LAMBDA id :
      Then(readUnsignedByte(id), LAMBDA type :
        Then(readString(type), LAMBDA msg :
          [msg EXCEPT !.value = [length |-> length.value, id |-> id.value, type |-> type.value]]))))

\* The status is good for the command and as long as it says.
StatusChecked(start, status, command) ==
  IF \/ Throws(status)
     \/ status.value.id # command
     \/ status.value.type # RTYPE_OK
     \/ start + status.value.length # status.iter
    THEN [status EXCEPT !.thrown = "TraCIException"]
    ELSE status

check_resultState(s, command) == StatusChecked(s.iter, readStatus(s), command)

\* Mutant of check_commandGetResult: any type of value will do.
check_commandGetResultOfAnyType(s, command, expectedType, ignoreCommandId) ==
  IF expectedType = -1
    THEN readUnsignedByte(readLength(s))
    ELSE readUnsignedByte(readString(readUnsignedByte(readUnsignedByte(readLength(s)))))

\* Of a response whose command id has been read: whether it answers the command.
IdChecked(id, command, ignoreCommandId) ==
  IF ~Throws(id) /\ ~ignoreCommandId /\ id.value # command + 16 THEN Throw(id, "TraCIException") ELSE id

TypeChecked(type, expectedType) ==
  IF ~Throws(type) /\ type.value # expectedType THEN Throw(type, "TraCIException") ELSE type

\* The variable, the object and the type of its value, which follow the command id.
readType(id) == readUnsignedByte(readString(readUnsignedByte(id)))

\* Returns the command id; answers to commands have their id plus 16, unless it is ignored.
check_commandGetResult(s, command, expectedType, ignoreCommandId) ==
  Then(IdChecked(readUnsignedByte(readLength(s)), command, ignoreCommandId),
       LAMBDA id : IF expectedType = -1 THEN id ELSE TypeChecked(readType(id), expectedType))

\* What the typed getters and the methods for compounds do after processGet.
readResult(s, method) ==
  IF method.type = "compound" THEN readTokens(s, CompoundParts(method.method)) ELSE readValue(s, method.type)

\* The types that readVariables knows.
Subscribable == {"double", "string", "position2D", "position3D", "color", "integer", "stringlist"}

\* The value of a variable whose type has been read.
readVariableValue(type, id, status) ==
  IF status # RTYPE_OK \/ \A t \in Subscribable : TypeCodes[t] # type.value
    THEN Throw(type, "TraCIException")
    ELSE Then(readValue(type, CHOOSE t \in Subscribable : TypeCodes[t] = type.value),
              LAMBDA v : [v EXCEPT !.value = [id |-> id, value |-> @]])

readVariable(s) ==
  Then(readUnsignedByte(s), LAMBDA id :
    Then(readUnsignedByte(id), LAMBDA status :
      Then(readUnsignedByte(status), LAMBDA type : readVariableValue(type, id.value, status.value))))

readVariables(s, count) == ReadMany(s, count, readVariable)

\* The scopes that the constructor registers for results: all but the one of induction loops.
myDomains == {ResponseVariable(d) : d \in DOMAIN Domains \ {"inductionloop"}}

Entries(domain, context, object, variables) ==
  {[domain |-> domain, context |-> context, object |-> object, id |-> variables[i].id,
    value |-> variables[i].value] : i \in DOMAIN variables}

NoContext == <<>>

\* The variables of one object as entries of the results.
readObject(s, object, count, domain, context) ==
  Then(readVariables(s, count), LAMBDA r : [r EXCEPT !.value = Entries(domain, context, object, @)])

readVariableSubscription(s, domain) ==
  Then(readString(s), LAMBDA object :
    Then(readUnsignedByte(object), LAMBDA count :
      IF domain \in myDomains
        THEN readObject(count, object.value, count.value, domain, NoContext)
        ELSE Throw(count, "null pointer")))

\* Reads n sets of entries; the value is the set of all.
ReadUnion(s, n, Reader(_)) ==
  Then(ReadMany(s, n, Reader), LAMBDA r : [r EXCEPT !.value = UNION Range(@)])

readContextObject(s, count, domain, context) ==
  Then(readString(s), LAMBDA object : readObject(object, object.value, count, domain, <<context>>))

\* The domain of the context is skipped.
readContextSubscription(s, domain) ==
  Then(readString(s), LAMBDA context :
    Then(readUnsignedByte(readUnsignedByte(context)), LAMBDA count :
      Then(readInt(count), LAMBDA objects :
        IF objects.value > 0 /\ domain \notin myDomains
          THEN Throw(objects, "null pointer")
          ELSE ReadUnion(objects, objects.value,
                         LAMBDA r : readContextObject(r, count.value, domain, context.value)))))

\* One of the results of a simulation step.
readSubscription(s) ==
  Then(check_commandGetResult(s, 0, -1, TRUE), LAMBDA id :
         IF id.value \in ResponseVariable("inductionloop")..ResponseVariable("person")
           THEN readVariableSubscription(id, id.value)
           ELSE readContextSubscription(id, id.value + 80))

readStep(s) == Then(readInt(s), LAMBDA count : ReadUnion(count, count.value, readSubscription))

readVersion(s) ==
  Then(check_commandGetResult(s, 0, -1, TRUE), LAMBDA id :
         IF id.value # Commands["CMD_GETVERSION"]
           THEN Throw(id, "SocketException")
           ELSE readFields(id, <<"integer", "string">>))

\* The type that the answer to a call must have; none for subscriptions.
ExpectedType(c) == IF c.op = "get" THEN TypeCodes[c.method.type] ELSE -1

\* What follows the response to a get or to a subscription.
readContent(c, s) ==
  CASE c.op = "get"       -> readResult(s, c.method)
    [] c.op = "subscribe" -> readVariableSubscription(s, Command(c) + 16)
    [] c.op = "context"   -> readContextSubscription(s, Command(c) + 96)

\* What follows a good status.
readAnswer(c, s) ==
  CASE c.op \in {"get", "context"} \/ (c.op = "subscribe" /\ Len(c.variables) > 0) ->
         readContent(c, check_commandGetResult(s, Command(c), ExpectedType(c), FALSE))
    [] c.op = "step"    -> readStep(s)
    [] c.op = "version" -> readVersion(s)
    [] OTHER            -> [s EXCEPT !.value = <<>>]

\* All that is read of the answer to a call.
Decode(c, message) ==
  Then(check_resultState(Storage(message), Command(c)), LAMBDA s : readAnswer(c, s))

\* map::operator[]: an entry replaces the one of the same variable.
Key(e) == [domain |-> e.domain, context |-> e.context, object |-> e.object, id |-> e.id]

Store(old, new) == {e \in old : \A n \in new : Key(n) # Key(e)} \cup new

-----------------------------------------------------------------------------
(* The program: launching, connecting and calling.                            *)

Nothing == [none |-> TRUE]

CallOf(c) == [op |-> c.method.kind, domain |-> c.method.scope, object |-> c.object, method |-> c.method]

AllCalls == {CallOf(c) : c \in Calls} \cup Subscriptions \cup {[op |-> o] : o \in Simple}

\* A method of a scope as a part of another one.
Part(scope, name, object) ==
  CallOf([method |-> CHOOSE m \in Methods : m.scope = scope /\ m.method = name, object |-> object])

\* The methods that make more than one request: VehicleScope::add asks for the time when the vehicle
\* departs now, rerouteTraveltime asks for all edges, and removeStages for the remaining stages.
Composites ==
  UNION {{<<Part("simulation", "getCurrentTime", <<>>), Part("vehicle", "add", o)>>,
          <<Part("edge", "getIDList", <<>>), Part("vehicle", "rerouteTraveltime", o)>>,
          <<Part("person", "getRemainingStages", o), Part("person", "removeStage", o)>>} : o \in Travellers}

\* rerouteTraveltime: the travel time of every edge becomes its weight.
WeightUpdates(edges) ==
  FoldLeft(LAMBDA b, e :
             b \o <<Part("edge", "getTraveltime", e),
                    CallOf([method |-> Set("edge", "adaptTraveltime", "VAR_EDGE_TRAVELTIME",
                                           <<"compound1", "double">>), object |-> e])>>,
           <<>>, edges)

\* What a method does next when a call of it has returned a value: the loops go on with it.
Rest(c, value) ==
  IF c.op # "get" THEN todo
  ELSE CASE c.method.method = "getRemainingStages" /\ value[1] > 1 ->
              <<Part("person", "removeStage", c.object), c>> \o todo
         [] c.domain = "edge" /\ c.method.method = "getIDList" -> WeightUpdates(value) \o todo
         [] OTHER -> todo

Init ==
  /\ phase = "initial" /\ call = Nothing /\ todo = <<>> /\ mySocket = FALSE /\ attempts = 0
  /\ buffer = <<>> /\ results = {} /\ returned = Nothing /\ m_pid = FALSE
  /\ process \in {"none", "listening"}
  /\ subs = {} /\ parity = 0 /\ stages = MaxStages /\ answer = Nothing /\ told = {}
  /\ toSumo = <<>> /\ fromSumo = <<>>

max_tries == 10

\* PosixLauncher::launch forks SUMO and lets API::connect retry.
LaunchProcess ==
  /\ phase = "initial" /\ returned = Nothing /\ process = "none"
  /\ phase' = "connecting" /\ attempts' = max_tries
  /\ process' = "starting" /\ m_pid' = TRUE
  /\ UNCHANGED <<call, todo, mySocket, buffer, results, returned, subs, parity, stages, answer, told,
                 toSumo, fromSumo>>

\* ConnectLauncher::launch names a server that somebody else has started; there is one attempt.
LaunchNothing ==
  /\ phase = "initial" /\ returned = Nothing
  /\ phase' = "connecting" /\ attempts' = 1
  /\ UNCHANGED <<call, todo, mySocket, buffer, results, returned, m_pid, sumo, toSumo, fromSumo>>

\* One turn of the loop in API::connect; TraCIAPI::connect deletes the socket when it fails.
Connect ==
  /\ phase = "connecting"
  /\ IF process = "listening"
       THEN /\ mySocket' = TRUE /\ phase' = "idle" /\ process' = "serving" /\ attempts' = 0
            /\ UNCHANGED returned
       ELSE /\ attempts' = attempts - 1
            /\ phase' = IF attempts = 1 THEN "ended" ELSE phase
            /\ returned' = IF attempts = 1 THEN [thrown |-> "SocketException"] ELSE returned
            /\ UNCHANGED <<mySocket, process>>
  /\ UNCHANGED <<call, todo, buffer, results, m_pid, subs, parity, stages, answer, told, toSumo, fromSumo>>

\* Requests that cannot be put together, because something in them does not fit into its byte: the
\* command -1, or a polygon whose number of points has no long form.
Unwritables == {c \in AllCalls : \E b \in Range(Request(c)) : b \notin Byte}
Unwritable(c) == c \in Unwritables

\* Mutant of Begin: setting a value does not wait for the status.
BeginWithoutStatus(c, rest) ==
  /\ phase = "idle" /\ ~Unwritable(c)
  /\ call' = c /\ todo' = rest /\ buffer' = <<>> /\ returned' = Nothing /\ answer' = Nothing
  /\ phase' = IF c.op = "set" THEN "idle" ELSE "receiving"
  /\ toSumo' = toSumo \o sendExact(Request(c))
  /\ UNCHANGED <<mySocket, attempts, results, m_pid, process, subs, parity, stages, told, fromSumo>>

\* The first half of a call: the request is written and sent.  The rest is what the method does next.
Begin(c, rest) ==
  /\ phase = "idle" /\ ~Unwritable(c)
  /\ call' = c /\ todo' = rest /\ phase' = "receiving" /\ buffer' = <<>>
  /\ returned' = Nothing /\ answer' = Nothing
  /\ toSumo' = toSumo \o sendExact(Request(c))
  /\ UNCHANGED <<mySocket, attempts, results, m_pid, process, subs, parity, stages, told, fromSumo>>

\* send fails when SUMO is gone, or the request cannot be written: an exception leaves the call.
BeginFails(c) ==
  /\ phase \in {"initial", "idle", "closed"}
  /\ \/ Unwritable(c)
     \/ phase = "idle" /\ process = "dead"
     \/ ~mySocket /\ c.op \in {"subscribe", "context"}
  /\ phase' = "ended" /\ call' = Nothing /\ todo' = <<>> /\ answer' = Nothing
  /\ returned' = [thrown |-> IF Unwritable(c) THEN "invalid_argument" ELSE "SocketException"]
  /\ UNCHANGED <<mySocket, attempts, buffer, results, m_pid, process, subs, parity, stages, told,
                 toSumo, fromSumo>>

\* processGet and processSet without a socket: the getters return invalid values, which end the loops
\* of the methods with several requests at once.
Unconnected(c) ==
  /\ ~mySocket /\ phase \in {"initial", "closed"} /\ returned = Nothing
  /\ c.op \in {"get", "set"} /\ ~Unwritable(c)
  /\ call' = c /\ returned' = [invalid |-> TRUE]
  /\ UNCHANGED <<phase, todo, mySocket, attempts, buffer, results, m_pid, sumo, toSumo, fromSumo>>

\* Mutant of Wanted: the length is taken for the number of bytes that follow it.
WantedTooMuch ==
  IF Len(buffer) < lengthLen
    THEN lengthLen - Len(buffer)
    ELSE readInt(Storage(buffer)).value - (Len(buffer) - lengthLen)

\* receiveExact: first the length of the message, then what is left of it.
Wanted ==
  IF Len(buffer) < lengthLen
    THEN lengthLen - Len(buffer)
    ELSE readInt(Storage(buffer)).value - Len(buffer)

\* recvAndCheck returns n of the bytes asked for.
Receive(n) ==
  /\ phase = "receiving" /\ fromSumo # <<>> /\ n <= Len(fromSumo)
  /\ buffer' = buffer \o SubSeq(fromSumo, 1, n)
  /\ fromSumo' = SubSeq(fromSumo, n + 1, Len(fromSumo))
  /\ UNCHANGED <<phase, call, todo, mySocket, attempts, results, returned, m_pid, sumo, toSumo>>

\* recvAndCheck: recv returns zero because SUMO is gone.
PeerShutdown ==
  /\ phase = "receiving" /\ fromSumo = <<>> /\ process = "dead" /\ Wanted > 0
  /\ phase' = "ended" /\ returned' = [thrown |-> "SocketException"]
  /\ call' = Nothing /\ todo' = <<>> /\ buffer' = <<>> /\ answer' = Nothing /\ toSumo' = <<>>
  /\ UNCHANGED <<mySocket, attempts, results, m_pid, process, subs, parity, stages, told, fromSumo>>

\* Mutant of Stored: a step keeps the results of the steps before.
StoredWithoutClearing(c, value) ==
  IF c.op \in {"step", "context"} \/ (c.op = "subscribe" /\ Len(c.variables) > 0)
    THEN Store(results, value) ELSE results

\* What a call does to the results of the scopes; a step clears the old ones first.
Stored(c, value) ==
  CASE c.op = "step" -> Store({}, value)
    [] c.op = "subscribe" /\ Len(c.variables) > 0 -> Store(results, value)
    [] c.op = "context" -> Store(results, value)
    [] OTHER -> results

Complete == phase = "receiving" /\ Wanted = 0 /\ Len(buffer) > lengthLen

\* The call throws, or returns what has been read; close deletes the socket.
Conclude(read) ==
  IF Throws(read)
    THEN /\ phase' = "ended" /\ returned' = [thrown |-> read.thrown]
         /\ call' = Nothing /\ todo' = <<>> /\ answer' = Nothing
         /\ UNCHANGED <<results, mySocket>>
    ELSE /\ phase' = (IF call.op = "close" THEN "closed" ELSE "idle")
         /\ mySocket' = (call.op # "close")
         /\ results' = Stored(call, read.value)
         /\ returned' = [value |-> read.value]
         /\ UNCHANGED <<call, todo, answer>>

\* The second half of a call: the answer is complete, it is decoded, and the call returns or throws.
Return ==
  /\ Complete
  /\ Conclude(Decode(call, SubSeq(buffer, lengthLen + 1, Len(buffer))))
  /\ buffer' = <<>>
  /\ UNCHANGED <<attempts, m_pid, process, subs, parity, stages, told, toSumo, fromSumo>>

\* A method goes on with its next request.
GoOn ==
  /\ todo # <<>> /\ phase = "idle" /\ returned # Nothing
  /\ LET next == Rest(call, returned.value)
     IN  Begin(Head(next), Tail(next)) \/ BeginFails(Head(next))

\* The caller goes on with what the method has returned.
Continue ==
  /\ returned # Nothing /\ phase # "ended" /\ todo = <<>>
  /\ returned' = Nothing /\ call' = Nothing /\ answer' = Nothing
  /\ UNCHANGED <<phase, todo, mySocket, attempts, buffer, results, m_pid, process, subs, parity, stages, told,
                 toSumo, fromSumo>>

\* PosixLauncher::kill, when the simulation finishes or the launcher is deleted.  It sends SIGINT, which
\* SUMO was started to ignore and only a SUMO with a handler of its own follows, and reaps nobody.
Kill ==
  /\ phase \in {"closed", "ended"} /\ m_pid
  /\ m_pid' = FALSE /\ process' \in {process, "dead"}
  /\ UNCHANGED <<phase, call, todo, mySocket, attempts, buffer, results, returned, subs, parity, stages, answer,
                 told, toSumo, fromSumo>>
=============================================================================
