------------------------------- MODULE TlvCodec -------------------------------
(***************************************************************************)
(* The bridge between property sets and Matter TLV (winrt/Projection.cpp):  *)
(* EncodePropertySetRoot writes the payload of a write or an invocation,    *)
(* DecodePropertySetRoot makes the payload of a report or a response, and   *)
(* PropertySetScalar and the Descriptor helpers take numbers out of it.     *)
(*                                                                          *)
(* A value is a tuple of its type and its content; a property set is a      *)
(* function from keys.  TLV is the sequence of the elements the CHIP writer *)
(* writes and its reader finds: a tag, a type and a content, or the end of  *)
(* a container.  The size of the buffer is left out.                        *)
(***************************************************************************)
EXTENDS Integers, Sequences, SequencesExt, FiniteSetsExt, TLC

CONSTANTS
    Keys,                         \* keys of property sets, "value" among them
    Number,                       \* what strtoul makes of those that are decimal numbers
    kMaximumDescriptorListItems,
    Payloads,                     \* property sets an application may pass
    Lists,                        \* values of numeric lists a device may report
    Failed                        \* a conversion that fails

ASSUME KeyAssumption == "value" \in Keys \ DOMAIN Number /\ DOMAIN Number \subseteq Keys
ASSUME NumberAssumption == \A k \in DOMAIN Number : Number[k] \in Nat
ASSUME ItemAssumption == kMaximumDescriptorListItems \in Nat

Anonymous == -1
End == <<"End">>

Tag(k) == Number[k]
IsTag(k) == k \in DOMAIN Number /\ Tag(k) <= 255

\* to_hstring of a tag.
Text(tag) == ToString(tag)

-----------------------------------------------------------------------------
(* Encoding.                                                                *)

\* The TLV type of a boxed value; any other type is refused.
Written ==
    [type \in {"Int16", "Int32", "Int64"} |-> "SignedInteger"]
    @@ [type \in {"UInt8", "UInt16", "UInt32", "UInt64"} |-> "UnsignedInteger"]
    @@ [type \in {"Single", "Double"} |-> "FloatingPointNumber"]
    @@ [type \in {"UInt8Array", "ByteVector"} |-> "ByteString"]
    @@ ("Boolean" :> "Boolean") @@ ("String" :> "UTF8String")

\* StartContainer, the members unless one of them fails, EndContainer.
Container(tag, type, members) ==
    IF \E i \in DOMAIN members : members[i] = Failed
      THEN Failed
      ELSE << <<tag, type>> >> \o FlattenSeq(members) \o <<End>>

RECURSIVE EncodeInspectable(_, _)

\* Every key must be a number that fits a context tag; the fields are sorted by tag.
EncodePropertySet(tag, values) ==
    LET keys == SetToSortSeq(DOMAIN values, LAMBDA a, b : Tag(a) < Tag(b))
    IN  IF \E k \in DOMAIN values : ~IsTag(k)
          THEN Failed
          ELSE Container(tag, "Structure", [i \in DOMAIN keys |-> EncodeInspectable(Tag(keys[i]), values[keys[i]])])

EncodeInspectable(tag, value) ==
    CASE value[1] = "Null" -> << <<tag, "Null">> >>
      [] value[1] = "PropertySet" -> EncodePropertySet(tag, value[2])
      [] value[1] = "Vector" ->
           Container(tag, "Array", [i \in DOMAIN value[2] |-> EncodeInspectable(Anonymous, value[2][i])])
      [] value[1] \in DOMAIN Written -> << <<tag, Written[value[1]], value[2]>> >>
      [] OTHER -> Failed

\* A root that is not a structure is wrapped under a key of its own.
EncodePropertySetRoot(values) ==
    CASE "value" \notin DOMAIN values -> EncodePropertySet(Anonymous, values)
      [] DOMAIN values = {"value"} -> EncodeInspectable(Anonymous, values["value"])
      [] OTHER -> Failed

-----------------------------------------------------------------------------
(* Decoding.                                                                *)

\* How a TLV type is boxed.
Boxed ==
    ("Boolean" :> "Boolean") @@ ("SignedInteger" :> "Int64") @@ ("UnsignedInteger" :> "UInt64")
    @@ ("FloatingPointNumber" :> "Double") @@ ("UTF8String" :> "String") @@ ("ByteString" :> "ByteVector")

RECURSIVE DecodeTlvValue(_, _)

\* The members of a container from a place to its end, each with its tag, and the place
\* after it: EnterContainer, Next until the end, ExitContainer.
RECURSIVE Members(_, _)
Members(tlv, at) ==
    IF tlv[at] = End
      THEN <<<<>>, at + 1>>
      ELSE LET member == DecodeTlvValue(tlv, at)
               rest == IF member = Failed THEN Failed ELSE Members(tlv, member[2])
           IN  IF rest = Failed THEN Failed ELSE << <<<<tlv[at][1], member[1]>>>> \o rest[1], rest[2]>>

\* Mutant: the tags of the members of a structure are not looked at.
Structure_AnyTag(members) ==
    LET fields == SelectSeq(members, LAMBDA m : m[1] # Anonymous)
    IN  <<"PropertySet", [k \in {Text(fields[i][1]) : i \in DOMAIN fields} |->
                             fields[Max({i \in DOMAIN fields : Text(fields[i][1]) = k})][2]]>>

\* Insert of each field under its tag: the last of a tag stays.
Structure(members) ==
    IF \E i \in DOMAIN members : members[i][1] = Anonymous
      THEN Failed
      ELSE <<"PropertySet", [k \in {Text(members[i][1]) : i \in DOMAIN members} |->
                                members[Max({i \in DOMAIN members : Text(members[i][1]) = k})][2]]>>

\* The value of the element at a place and the place after it.  A list becomes a vector, as
\* an array does.
DecodeTlvValue(tlv, at) ==
    CASE tlv[at][2] = "Null" -> <<<<"Null">>, at + 1>>
      [] tlv[at][2] \in DOMAIN Boxed -> <<<<Boxed[tlv[at][2]], tlv[at][3]>>, at + 1>>
      [] OTHER ->
           LET members == Members(tlv, at + 1)
               value == IF tlv[at][2] = "Structure" THEN Structure(members[1])
                        ELSE <<"Vector", [i \in DOMAIN members[1] |-> members[1][i][2]]>>
           IN  IF members = Failed \/ value = Failed THEN Failed ELSE <<value, members[2]>>

DecodePropertySetRoot(tlv) ==
    LET decoded == DecodeTlvValue(tlv, 1)
    IN  CASE decoded = Failed -> Failed
          [] decoded[1][1] = "PropertySet" -> decoded[1][2]
          [] OTHER -> "value" :> decoded[1]

-----------------------------------------------------------------------------
(* Numbers.                                                                 *)

Largest == ("uint8_t" :> 255) @@ ("uint16_t" :> 65535)

\* unbox_value<uint64_t> throws for any other type, a number that does not fit is refused.
Narrow(type, value) ==
    IF value[1] = "UInt64" /\ value[2] <= Largest[type] THEN value[2] ELSE Failed

\* PropertySetScalar of an unsigned type; a null or missing value is refused.
PropertySetScalar(type, values) ==
    IF "value" \in DOMAIN values THEN Narrow(type, values["value"]) ELSE Failed

\* DescriptorNumericList over DescriptorList: one number that is null, not a number or too
\* large refuses the list.
DescriptorNumericList(type, values) ==
    IF "value" \notin DOMAIN values \/ values["value"][1] # "Vector" THEN Failed
    ELSE LET list == values["value"][2]
             numbers == [i \in DOMAIN list |-> Narrow(type, list[i])]
         IN  IF Len(list) > kMaximumDescriptorListItems \/ \E i \in DOMAIN list : numbers[i] = Failed
               THEN Failed ELSE numbers

-----------------------------------------------------------------------------
(* Properties.                                                              *)

\* What the encoder is meant to accept: boxed scalars, vectors and property sets whose keys
\* are context tags.
RECURSIVE Encodable(_)
Encodable(value) ==
    CASE value[1] = "PropertySet" -> \A k \in DOMAIN value[2] : IsTag(k) /\ Encodable(value[2][k])
      [] value[1] = "Vector" -> \A i \in DOMAIN value[2] : Encodable(value[2][i])
      [] OTHER -> value[1] \in {"Null"} \cup DOMAIN Written

\* No two keys of a property set stand for one tag.
RECURSIVE Unambiguous(_)
Unambiguous(value) ==
    CASE value[1] = "PropertySet" ->
           /\ \A j, k \in DOMAIN value[2] : Tag(j) = Tag(k) => j = k
           /\ \A k \in DOMAIN value[2] : Unambiguous(value[2][k])
      [] value[1] = "Vector" -> \A i \in DOMAIN value[2] : Unambiguous(value[2][i])
      [] OTHER -> TRUE

\* The same value in the widest type of its kind, under the shortest keys.
RECURSIVE Widest(_)
Widest(value) ==
    CASE value[1] = "PropertySet" ->
           <<"PropertySet", [t \in {Text(Tag(k)) : k \in DOMAIN value[2]} |->
                                Widest(value[2][CHOOSE k \in DOMAIN value[2] : Text(Tag(k)) = t])]>>
      [] value[1] = "Vector" -> <<"Vector", [i \in DOMAIN value[2] |-> Widest(value[2][i])]>>
      [] value[1] = "Null" -> value
      [] OTHER -> <<Boxed[Written[value[1]]], value[2]>>

\* What a device sends back as it was sent is what the application passed, what cannot be
\* written is refused, and so is an answer with a field that has no context tag.
EncodingSurvives ==
    \A p \in Payloads :
        LET root == IF DOMAIN p = {"value"} THEN p["value"] ELSE <<"PropertySet", p>>
            tlv == EncodePropertySetRoot(p)
        IN  IF ~Encodable(root)
              THEN tlv = Failed
              ELSE /\ Unambiguous(root) =>
                        DecodePropertySetRoot(tlv) =
                            (IF root[1] = "PropertySet" THEN Widest(root)[2] ELSE "value" :> Widest(root))
                   /\ \A i \in 2 .. Len(tlv) :
                        (tlv[i] # End /\ tlv[i][1] # Anonymous) =>
                            DecodePropertySetRoot([tlv EXCEPT ![i][1] = Anonymous]) = Failed

\* A number is read as the device wrote it or refused, and so is a list of them.
NumbersSurvive ==
    \A list \in Lists, type \in DOMAIN Largest :
        LET report == DecodePropertySetRoot(EncodePropertySetRoot("value" :> <<"Vector", list>>))
            fits(v) == v[1] \in {"UInt8", "UInt16", "UInt32", "UInt64"} /\ v[2] <= Largest[type]
            written == [i \in DOMAIN list |-> list[i][2]]
        IN  /\ DescriptorNumericList(type, report) =
                    IF Len(list) <= kMaximumDescriptorListItems /\ \A i \in DOMAIN list : fits(list[i])
                      THEN written ELSE Failed
            /\ \A i \in DOMAIN list :
                    PropertySetScalar(type, DecodePropertySetRoot(EncodePropertySetRoot("value" :> list[i]))) =
                        IF fits(list[i]) THEN list[i][2] ELSE Failed
===============================================================================
