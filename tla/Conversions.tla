---------------------------- MODULE Conversions ----------------------------
(***************************************************************************)
(* What happens to a value on its way through the services: protobuf       *)
(* messages (utils/pbconvert), JSON texts of times and durations           *)
(* (aostypes), errors handed upwards (aoserrors); and the comparisons of   *)
(* alerts (utils/alertutils) and versions (utils/semverutils).             *)
(*                                                                         *)
(* A value is converted and converted back at every hop.                   *)
(***************************************************************************)
EXTENDS Integers, SequencesExt

CONSTANTS
    Sign64, Sign32,   \* value of the sign bit of an integer: 2^63 and 2^31 in the code
    IDs,           \* service and subject ids, none of them ""
    Payloads,      \* payloads of alerts
    Fields,        \* numbers in texts, of two digits: no sum of them overflows
    MaxList,       \* bound: length of lists
    MaxHops,       \* bound: hops
    Null           \* a nil pointer

UInt64 == 0 .. 2 * Sign64 - 1
Int64 == -Sign64 .. Sign64 - 1
Int32 == -Sign32 .. Sign32 - 1

\* Go's conversions between integers of the same, or of a smaller, width.
ToUInt64(i) == i % (2 * Sign64)
ToInt64(u) == IF u < Sign64 THEN u ELSE u - 2 * Sign64
ToInt32(i) == LET u == i % (2 * Sign32) IN IF u < Sign32 THEN u ELSE u - 2 * Sign32

ASSUME ConversionAssumption ==
    /\ Sign64 \in Nat \ {0} /\ Sign32 \in Nat \ {0} /\ MaxHops \in Nat
    /\ Fields \subseteq 0 .. 99 /\ 0 \in Fields /\ MaxList \in Nat
    /\ "" \notin IDs
    /\ Null \notin IDs /\ Null \notin UInt64 /\ Null \notin [AosCode : Int32, ExitCode : Int32]

-----------------------------------------------------------------------------
(***************************************************************************)
(* Instance filters: a field that is not set is "" or -1 in protobuf.      *)
(***************************************************************************)
Set(id) == IF id # "" THEN id ELSE Null

NewInstanceFilter(service, subject, instance) ==
    [ServiceID |-> Set(service), SubjectID |-> Set(subject),
     Instance |-> IF instance # -1 THEN ToUInt64(instance) ELSE Null]

InstanceFilterToPB(f) ==
    [ServiceId |-> IF f.ServiceID # Null THEN f.ServiceID ELSE "",
     SubjectId |-> IF f.SubjectID # Null THEN f.SubjectID ELSE "",
     Instance |-> IF f.Instance # Null THEN ToInt64(f.Instance) ELSE -1]

\* Fault: any negative number is no instance.
InstanceFromPBSigned(i) == IF i >= 0 THEN i ELSE Null

InstanceFromPB(i) == IF i # -1 THEN ToUInt64(i) ELSE Null

InstanceFilterFromPB(pb) ==
    [ServiceID |-> Set(pb.ServiceId), SubjectID |-> Set(pb.SubjectId),
     Instance |-> InstanceFromPB(pb.Instance)]

OptionalIDs == IDs \union {""}

Filters == {NewInstanceFilter(s, u, i) : s \in OptionalIDs, u \in OptionalIDs, i \in Int64}

(***************************************************************************)
(* Instance identification, error info, network parameters.                *)
(***************************************************************************)
Idents == [ServiceID : IDs, SubjectID : IDs, Instance : UInt64]

InstanceIdentToPB(i) ==
    [ServiceId |-> i.ServiceID, SubjectId |-> i.SubjectID, Instance |-> i.Instance]

InstanceIdentFromPB(pb) ==
    [ServiceID |-> pb.ServiceId, SubjectID |-> pb.SubjectId, Instance |-> pb.Instance]

\* Codes of 32 bits: those of the services and the exit codes of processes.
ErrorInfos == [AosCode : Int32, ExitCode : Int32] \union {Null}

ErrorInfoToPB(e) ==
    IF e = Null THEN Null
    ELSE [AosCode |-> ToInt32(e.AosCode), ExitCode |-> ToInt32(e.ExitCode)]

ErrorInfoFromPB(pb) == pb

\* The network id is in neither of the conversions.
Rules == [DstIP : IDs, SrcIP : IDs]
Networks == [NetworkID : IDs, IP : IDs, VlanID : UInt64, FirewallRules : BoundedSeq(Rules, MaxList)]

NetworkParametersToPB(n) ==
    [NetworkId |-> "", Ip |-> n.IP, VlanId |-> n.VlanID,
     Rules |-> [k \in DOMAIN n.FirewallRules |->
                   [DstIp |-> n.FirewallRules[k].DstIP, SrcIp |-> n.FirewallRules[k].SrcIP]]]

NewNetworkParametersFromPB(pb) ==
    [NetworkID |-> "", IP |-> pb.Ip, VlanID |-> pb.VlanId,
     FirewallRules |-> [k \in DOMAIN pb.Rules |->
                           [DstIP |-> pb.Rules[k].DstIp, SrcIP |-> pb.Rules[k].SrcIp]]]

(***************************************************************************)
(* Node information comes from protobuf only.  Attributes become a map, in *)
(* which the last one of a name stays.                                     *)
(***************************************************************************)
AttrNames == {"MainNode", "AosComponents", "NodeRunners"}
PBAttrs == BoundedSeq([Name : AttrNames, Value : IDs], MaxList)

NodeInfoFromPB(attrs) ==
    [n \in {attrs[k].Name : k \in DOMAIN attrs} |->
        attrs[CHOOSE k \in DOMAIN attrs : attrs[k].Name = n
                 /\ \A j \in DOMAIN attrs : attrs[j].Name = n => j <= k].Value]

IsMainNode(attrs) == "MainNode" \in DOMAIN attrs

attrToStringSlice(attrs, n) == IF n \in DOMAIN attrs THEN attrs[n] ELSE Null   \* nil and an error

(***************************************************************************)
(* Times of day: the text has up to three fields, those that are missing   *)
(* are 0.  Durations: a text with "P" is a sum of fields, in canonic or in  *)
(* alternative form, other texts are Go's own; in seconds.                 *)
(***************************************************************************)
Times == [hour : Fields \intersect 0 .. 23, minute : Fields \intersect 0 .. 59,
          second : Fields \intersect 0 .. 59]

MarshalTime(t) == <<t.hour, t.minute, t.second>>

UnmarshalTime(fields) ==
    LET f(k) == IF k <= Len(fields) THEN fields[k] ELSE 0 IN
    [hour |-> f(1), minute |-> f(2), second |-> f(3)]

Day == 24 * 3600
Week == 7 * Day
Year == 365 * Day + 6 * 3600
Month == Year \div 12

parseISO8601Duration(d) ==
    d.year * Year + d.month * Month + d.week * Week + d.day * Day
        + d.hour * 3600 + d.minute * 60 + d.second

\* The alternative form has no weeks.
Alternative(d) == [d EXCEPT !.week = 0]

ISOTexts == [year : Fields, month : Fields, week : Fields, day : Fields, hour : Fields,
             minute : Fields, second : Fields]

\* Go's text of a duration has hours, minutes and seconds.
MarshalDuration(s) == [hour |-> s \div 3600, minute |-> (s % 3600) \div 60, second |-> s % 60]

UnmarshalDuration(text) == text.hour * 3600 + text.minute * 60 + text.second

(***************************************************************************)
(* Errors: a chain of layers, the cause last, that the Aos code has been   *)
(* handed by a library, or by other Aos code.                              *)
(***************************************************************************)
Layers == {"aos", "library", "cause"}

Chains ==
    {c \in BoundedSeq(Layers, MaxList + 1) :
        /\ c # <<>>
        /\ \A k \in DOMAIN c : c[k] = "cause" <=> k = Len(c)
        /\ \A j, k \in DOMAIN c : c[j] = "aos" /\ c[k] = "aos" => j = k}

\* Fault: every caller adds a layer.
WrapAlways(chain) == <<"aos">> \o chain

Wrap(chain) ==
    IF chain = <<>> THEN <<>>                                  \* nil
    ELSE IF \E k \in DOMAIN chain : chain[k] = "aos" THEN chain
    ELSE <<"aos">> \o chain

(***************************************************************************)
(* Alerts of the eight types are compared with the timestamp of the first  *)
(* replaced; alerts of any other type are not equal.                       *)
(***************************************************************************)
AlertTypes == {"SystemAlert", "CoreAlert", "DownloadAlert", "SystemQuotaAlert",
               "InstanceQuotaAlert", "DeviceAllocateAlert", "ResourceValidateAlert",
               "ServiceInstanceAlert"}

Alerts == [type : AlertTypes \union {"other"}, payload : Payloads, timestamp : Fields]

\* Fault: the timestamp is not replaced.
AlertsEqual(a, b) == a.type \in AlertTypes /\ a = b

AlertsPayloadEqual(a, b) ==
    a.type \in AlertTypes /\ a.type = b.type /\ [a EXCEPT !.timestamp = b.timestamp] = b

(***************************************************************************)
(* Versions.  The order is the library's: a pre-release comes first.  Each *)
(* function parses both arguments and returns an error for an invalid one. *)
(***************************************************************************)
VersionTexts == [valid : BOOLEAN, number : Fields, prerelease : BOOLEAN]

Before(v, w) == v.number < w.number \/ (v.number = w.number /\ v.prerelease /\ ~ w.prerelease)

Parsed(v, w, result) == IF v.valid /\ w.valid THEN result ELSE "error"

LessThan(v, w) == Parsed(v, w, IF Before(v, w) THEN "yes" ELSE "no")
GreaterThan(v, w) == Parsed(v, w, IF Before(w, v) THEN "yes" ELSE "no")
Compare(v, w) == Parsed(v, w, IF Before(v, w) THEN "-1" ELSE IF Before(w, v) THEN "1" ELSE "0")

-----------------------------------------------------------------------------
VARIABLES kind, original, value, hops

conversionVars == <<kind, original, value, hops>>

Inputs(k) ==
    CASE k = "filter" -> Filters
      [] k = "ident" -> Idents
      [] k = "errorInfo" -> ErrorInfos
      [] k = "network" -> Networks
      [] k = "time" -> Times
      [] k = "duration" -> {parseISO8601Duration(d) : d \in ISOTexts}
                           \union {parseISO8601Duration(Alternative(d)) : d \in ISOTexts}
      [] k = "error" -> Chains
      [] k = "node" -> PBAttrs
      [] k = "alerts" -> Alerts \X Alerts
      [] k = "versions" -> VersionTexts \X VersionTexts

Kinds == {"filter", "ident", "errorInfo", "network", "time", "duration", "error", "node",
          "alerts", "versions"}

ConversionInit ==
    /\ kind \in Kinds
    /\ original \in Inputs(kind)
    /\ value = original
    /\ hops = 0

Through(k, v) ==
    CASE k = "filter" -> InstanceFilterFromPB(InstanceFilterToPB(v))
      [] k = "ident" -> InstanceIdentFromPB(InstanceIdentToPB(v))
      [] k = "errorInfo" -> ErrorInfoFromPB(ErrorInfoToPB(v))
      [] k = "network" -> NewNetworkParametersFromPB(NetworkParametersToPB(v))
      [] k = "time" -> UnmarshalTime(MarshalTime(v))
      [] k = "duration" -> UnmarshalDuration(MarshalDuration(v))
      [] k = "error" -> Wrap(v)
      [] k = "node" -> NodeInfoFromPB(original)
      [] k = "alerts" -> <<AlertsPayloadEqual(original[1], original[2]),
                           AlertsPayloadEqual(original[2], original[1])>>
      [] k = "versions" -> <<LessThan(original[1], original[2]),
                             GreaterThan(original[1], original[2]),
                             Compare(original[1], original[2])>>

Hop ==
    /\ hops < MaxHops
    /\ value' = Through(kind, value)
    /\ hops' = hops + 1
    /\ UNCHANGED <<kind, original>>

-----------------------------------------------------------------------------
(***************************************************************************)
(* Properties                                                              *)
(***************************************************************************)

\* A value is the same after any number of hops: every instance number survives
\* the signed field, among them those that look negative there, and the values
\* that stand for "not set" are taken for nothing else; the network id alone is
\* lost.  An error keeps its cause and gets one Aos layer however many callers
\* wrap it.
ValuesSurviveHops ==
    CASE kind = "network" -> hops > 0 => value = [original EXCEPT !.NetworkID = ""]
      [] kind = "error" ->
            hops > 0 => /\ IsSuffix(original, value)
                        /\ \E k \in DOMAIN value :
                              \A j \in DOMAIN value : value[j] = "aos" <=> j = k
      [] kind \in {"filter", "ident", "errorInfo", "time", "duration"} -> value = original
      [] OTHER -> TRUE

\* The answers agree with each other: two alerts are equal in either order, and
\* then only their times differ; a version is less, greater or equal, and the
\* three functions say the same, an error if and only if a text is invalid; a
\* node's attribute is found if it was sent, in whatever order and how often.
AnswersAgree ==
    hops > 0 =>
    CASE kind = "alerts" ->
            LET a == original[1]
                b == original[2]
            IN  /\ value[1] = value[2]
                /\ value[1] <=> a.type # "other" /\ a.type = b.type /\ a.payload = b.payload
      [] kind = "versions" ->
            /\ value[1] = "yes" <=> value[3] = "-1"
            /\ value[2] = "yes" <=> value[3] = "1"
            /\ value[3] = "0" => LessThan(original[2], original[1]) = "no"
            /\ "error" \in {value[1], value[2], value[3]} <=> ~ (original[1].valid /\ original[2].valid)
      [] kind = "node" ->
            /\ IsMainNode(value) <=> \E k \in DOMAIN original : original[k].Name = "MainNode"
            /\ \A k \in DOMAIN original : attrToStringSlice(value, original[k].Name) # Null
      [] OTHER -> TRUE

\* Both of the above.
ConversionsFaithful == ValuesSurviveHops /\ AnswersAgree

\* "NetworkParametersToPB converts NetworkParameters from AOS type to protobuf":
\* the network id too.
NetworkIDSurvives == kind = "network" => value.NetworkID = original.NetworkID

=============================================================================
