----------------------------- MODULE Dispatching -----------------------------
(***************************************************************************)
(* How a middleware distributes packets: the channels an application sends *)
(* on (utility/Channel.cc, application/XmlMultiChannelPolicy.cc), the      *)
(* network interface of a channel (NetworkInterfaceTable.cc), the loop that*)
(* hands one packet to several interfaces (Middleware.cc), the loop that   *)
(* hands a received packet to several services (TransportDispatcher.cc),   *)
(* and the filters that decide which services a station runs               *)
(* (utility/FilterRules.cc).                                               *)
(*                                                                         *)
(* A packet is a unique_ptr: it is Whole until it is moved to somebody, and*)
(* Moved for everybody who looks at it afterwards.                         *)
(***************************************************************************)
EXTENDS Naturals, FiniteSets, SequencesExt

Whole == "whole"
Moved == "moved"
None == "none"          \* an attribute that the XML configuration leaves out
NoPort == 0             \* likewise, for ports

CCH == 180

(* A channel in the XML configuration is text: digits, a name, or missing. *)
Digits(number) == [text |-> "digits", value |-> number]
Named(name) == [text |-> "name", value |-> name]
NoChannel == [text |-> "missing", value |-> None]

(* parseChannelNumber: digits are taken as they are, be there such a       *)
(* channel or not, and names are looked up; anything else is no channel.   *)
(* Digits that do not fit an unsigned end the simulation with an error.    *)
ChannelNumbers ==
    [name \in {"CCH", "SCH0", "SCH1", "SCH2", "SCH3", "SCH4", "SCH5", "SCH6"} |->
        CASE name = "SCH1" -> 176 [] name = "SCH2" -> 178
          [] name = "SCH3" -> 174 [] name = "SCH4" -> 172
          [] name = "SCH5" -> 182 [] name = "SCH6" -> 184
          [] OTHER -> CCH]

ParseChannelNumber(attribute) ==
    CASE attribute.text = "digits" -> attribute.value
      [] attribute.text = "name" /\ attribute.value \in DOMAIN ChannelNumbers ->
            ChannelNumbers[attribute.value]
      [] OTHER -> 0

(* getChannel of Middleware.cc: listeners fall back to the control channel.*)
ListenerChannel(attribute) ==
    IF ParseChannelNumber(attribute) = 0 THEN CCH ELSE ParseChannelNumber(attribute)

-----------------------------------------------------------------------------
(* XmlMultiChannelPolicy.  A configuration has a default channel and       *)
(* applications, pairs of an ITS-AID and a channel.                        *)
ReadPolicy(xml) ==
    [default |-> ParseChannelNumber(xml.default),
     mapping |-> [aid \in {app[1] : app \in xml.applications} |->
        {ParseChannelNumber(app[2]) : app \in {x \in xml.applications : x[1] = aid}}]]

(* allChannels: a vector in ascending order, but nothing depends on it.    *)
AllChannels(policy, aid) ==
    IF aid \in DOMAIN policy.mapping THEN policy.mapping[aid]
    ELSE {policy.default} \ {0}

(* NetworkInterfaceTable::select: the first interface on the channel in the*)
(* arbitrary but fixed order of the table.                                 *)
OnChannel(table, channel, number) == {i \in table : channel[i] = number}
Select(table, channel, number) == CHOOSE i \in OnChannel(table, channel, number) : TRUE

(* More interfaces are to follow the one that is number pass.              *)
MoreChannelsUncounted(channels, pass) == Cardinality(channels) > pass + 1
MoreChannels(channels, pass) == Cardinality(channels) > pass

(* Middleware::requestTransmission: every pass gets a duplicate while more *)
(* channels are to follow, otherwise the packet itself.  Channels without  *)
(* an interface are not counted as a pass, so with one of them the original*)
(* is never given away.                                                    *)
HandOver(channels, table, channel) ==
    LET present == SetToSeq({number \in channels : OnChannel(table, channel, number) # {}})
    IN  [pass \in 1..Len(present) |->
            [ifc |-> Select(table, channel, present[pass]),
             packet |-> IF \E earlier \in 1..(pass - 1) : ~MoreChannels(channels, earlier)
                        THEN Moved ELSE Whole]]

-----------------------------------------------------------------------------
(* TransportDispatcher.  Its maps are sets of pairs of a key, a channel or *)
(* a channel and a port, and a listener.                                   *)
Found(map, key) == SetToSeq({entry[2] : entry \in {e \in map : e[1] = key}})

(* Other listeners wait for the packet, too.                               *)
OthersPendingShort(pending) == pending > 2
OthersPending(pending) == pending > 1

(* indicate: promiscuous listeners look at the packet; regular listeners   *)
(* get a duplicate while others are pending, and then the packet itself.   *)
Indicate(listeners, taps, channel, port, packet) ==
    LET tapping == Found(taps, channel)
        found == Found(listeners, <<channel, port>>)
        PendingAt(k) == Len(found) - k + 1
    IN  [tapped |-> [k \in 1..Len(tapping) |-> [service |-> tapping[k], packet |-> packet]],
         got |-> [k \in 1..Len(found) |->
            [service |-> found[k],
             packet |-> IF \E earlier \in 1..(k - 1) : ~OthersPending(PendingAt(earlier))
                        THEN Moved ELSE packet]]]

-----------------------------------------------------------------------------
(* FilterRules.  A pattern is the set of the names it matches; rates are   *)
(* compared with a random number, so they may hold or not.  The outcomes of*)
(* the filters of a service, each a set of possible results.               *)
NamePattern(filter, traci) == {(traci \in filter.pattern) # filter.inverse}
PenetrationRate == BOOLEAN
TypePattern(filter, host) == {((host \in filter.pattern) /\ rate) # filter.inverse : rate \in BOOLEAN}

FilterResults(filters, traci, host) ==
    [k \in 1..Len(filters.rules) |->
        LET rule == filters.rules[k]
        IN  CASE rule.kind = "name" -> NamePattern(rule, traci)
              [] rule.kind = "penetration" -> PenetrationRate
              [] rule.kind = "type" -> TypePattern(rule, host)]

(* applyFilterConfig: what it may answer.  Without rules every service is  *)
(* applicable; an operator that is not supported is an error, without an   *)
(* answer, once there are rules.                                           *)
ApplyFilterConfig(filters, traci, host) ==
    LET possible == FilterResults(filters, traci, host)
        results == {r \in [DOMAIN possible -> BOOLEAN] : \A k \in DOMAIN r : r[k] \in possible[k]}
    IN  IF filters.rules = <<>> THEN {TRUE}
        ELSE CASE filters.operator = "or" -> {\E k \in DOMAIN r : r[k] : r \in results}
               [] filters.operator = "and" -> {\A k \in DOMAIN r : r[k] : r \in results}
               [] OTHER -> {}
=============================================================================
