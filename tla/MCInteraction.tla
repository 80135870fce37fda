---------------------------- MODULE MCInteraction ----------------------------
(* Small instances of Interaction for TLC, with the codec of the payloads   *)
(* its operations send and receive.                                         *)
EXTENDS Interaction, TlvCodec

CONSTANTS o1, o2

\* An operation of any kind beside a subscription.
BesideSubscription == {(o1 :> k) @@ (o2 :> "subscribe") : k \in AllKinds}

-----------------------------------------------------------------------------
(* Keys, with two for one tag, one for a tag that does not fit and one that *)
(* is no number, and payloads of up to three levels.                        *)

SmallKeys == {"0", "7", "07", "256", "x", "value"}
SmallNumber == ("0" :> 0) @@ ("7" :> 7) @@ ("07" :> 7) @@ ("256" :> 256)

Leaves == {<<"Null">>, <<"Boolean", TRUE>>, <<"Int16", -1>>, <<"UInt8", 255>>, <<"Single", "1.5">>,
           <<"String", "text">>, <<"UInt8Array", "octets">>, <<"ByteVector", "octets">>, <<"DateTime", "now">>}
Few == {<<"Null">>, <<"UInt8", 255>>, <<"ByteVector", "octets">>, <<"DateTime", "now">>}

SetsOf(keys, values) == {<<"PropertySet", f>> : f \in UNION {[K -> values] : K \in keys}}
UpTo(n) == {K \in SUBSET SmallKeys : Cardinality(K) <= n}

Flat == Leaves \cup {<<"Vector", s>> : s \in SeqOf(Few, 2)} \cup SetsOf(UpTo(2), Few)
Deep == Flat \cup {<<"Vector", <<v>>>> : v \in Flat} \cup {<<"PropertySet", "7" :> v>> : v \in Flat}

SmallPayloads ==
    {k :> v : k \in SmallKeys, v \in Deep}
    \cup UNION {[K -> Few \cup {<<"Vector", <<>>>>, <<"PropertySet", <<>>>>}] : K \in UpTo(3)}
    \cup {("0" :> v) @@ ("7" :> <<"UInt8", 1>>) : v \in Flat}

SmallLists == SeqOf({<<"Null">>, <<"Int16", 1>>} \cup
                    {<<"UInt32", n>> : n \in {0, 255, 256, 65535, 65536}}, 3)

-----------------------------------------------------------------------------
(* Property.                                                                *)

\* The payload of an operation survives the bridge.  What a write or a command sends, every
\* field, item and null at any depth, a device that returns it gives back under its tag and
\* in the widest type of its kind, and what cannot be written or read is refused whole,
\* never in part ("Responses use the same recursive representation"); a number a read takes
\* out of a report is the one the device wrote, or the report is refused ("numeric overflow
\* remain errors", README.md).
PayloadSurvives ==
    \A o \in Ops :
        /\ kind[o] \in {"write", "invoke", "command"} => EncodingSurvives
        /\ kind[o] \in Readers => NumbersSurvive
=============================================================================
