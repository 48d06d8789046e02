------------------------------ MODULE SyncDart ------------------------------
\* What the Dart class does around each synchronous call: whether it reads the
\* instance's error slot afterwards, what of the result it gives back to the
\* native library, and which kind of callback it registers with the call.
\*
\* A text, an optional or a struct is decoded from where it lies; of a struct
\* only the fields are freed.  A blob is decoded and freed; the decoder of a list
\* is the runtime package's and counts as freeing what it decodes.  Typed data
\* stays a view whose finalizer calls release_typed_data_return.
EXTENDS TLC

Nothing == {}
Fields  == {"fields"}
Block   == {"block"}
View    == {"envelope", "payload", "owner"}

\* Checked: the slot is read after the call (throwIfOutParamError).  Unread: a
\* fast method, or a result whose error travels in the blob.
Checked(freed) == [checked |-> TRUE,  frees |-> freed,   calls |-> "none"]
Unread(freed)  == [checked |-> FALSE, frees |-> freed,   calls |-> "none"]
\* The callback answers inside the call (isolateLocal), or is posted to the
\* isolate (listener).
Replies        == [checked |-> TRUE,  frees |-> Nothing, calls |-> "local"]
Listens        == [checked |-> TRUE,  frees |-> Nothing, calls |-> "listener"]

DartBasics ==
     [m \in {"echoInt", "echoDouble", "echoBool", "echoString",
      "addInts", "mulDoubles", "joinStrings"} |-> Checked(Nothing)]

DartOptionals ==
     [m \in {"echoDateTime", "echoNullableDateTime", "echoNullableInt",
      "echoNullableDouble", "echoNullableBool",
      "echoNullableString"} |-> Checked(Nothing)]

DartEnumsAndStructs ==
     [m \in {"echoStatus", "echoNullableStatus"} |-> Checked(Nothing)]
  @@ [m \in {"echoPoint", "echoRichStruct"} |-> Checked(Fields)]
  @@ [m \in {"echoConfig"} |-> Checked(Block)]

DartViews ==
     [m \in {"echoBytes", "echoFloats", "echoFloat64s", "echoInt32s"} |-> Checked(View)]

DartSmallIntViews ==
     [m \in {"echoInt8s", "echoInt16s", "echoInt64s"} |-> Checked(View)]

DartRecords ==
     [m \in {"echoMeta", "echoNullableIntSafe",
      "echoNullableDoubleSafe", "echoNullableBoolSafe",
      "echoDataRecord"} |-> Checked(Block)]

DartMaps ==
     [m \in {"echoIntMap", "echoStringMap", "echoDoubleMap",
      "echoBoolMap", "echoConfigMap"} |-> Checked(Block)]

DartEventsAndNullableMaps ==
     [m \in {"echoEventMap", "echoNullableIntMap",
      "echoNullableDoubleMap", "echoNullableBoolMap"} |-> Checked(Block)]
  @@ [m \in {"echoOptScalars"} |-> Checked(Fields)]

DartNullables ==
     [m \in {"echoNullableStringMap", "echoPacket",
      "echoNullableConfig"} |-> Checked(Block)]
  @@ [m \in {"echoNullablePoint"} |-> Checked(Fields)]
  @@ [m \in {"configureConfigStream"} |-> Checked(Nothing)]

DartNested ==
     [m \in {"echoNested"} |-> Checked(Block)]

DartCallbacks ==
     [m \in {"echoNullableWrapper", "echoStructHolder"} |-> Checked(Block)]
  @@ [m \in {"onTransformEvent", "onStringTransform",
      "onDoubleTransform"} |-> Replies]
  @@ [m \in {"configureBatchStream"} |-> Checked(Nothing)]

DartEnumCallbacks ==
     [m \in {"configureBatchDoubleStream", "configureBatchBoolStream"} |-> Checked(Nothing)]
  @@ [m \in {"onBoolTransform", "onStatusTransform"} |-> Replies]

DartSubmitCoalesced ==
     [m \in {"submitCoalesced"} |-> Checked(Nothing)]

DartImplVariant ==
     [m \in {"implVariant"} |-> Checked(Nothing)]

DartStreamsAndEvents ==
     [m \in {"configureStringStream", "configureBatchStringStream",
      "configureBlockIntStream"} |-> Checked(Nothing)]
  @@ [m \in {"onPointEvent", "onDetailEvent", "onIntEvent",
      "onBoolEvent"} |-> Listens]

DartEventsAndErrors ==
     [m \in {"onDoubleEvent"} |-> Listens]
  @@ [m \in {"configureStream", "configureDoubleStream",
      "configureStatusStream", "throwNative"} |-> Checked(Nothing)]

DartGetConfigOrFail ==
     [m \in {"getConfigOrFail"} |-> Unread(Block)]

DartFastInts ==
     [m \in {"addIntsFast", "touchFast", "addIntsInline",
      "addIntsInlineOr"} |-> Unread(Nothing)]

DartNullableArrays ==
     [m \in {"nullableBytesLength", "nullableFloatsSum"} |-> Checked(Nothing)]

DartSums ==
     [m \in {"emitTypedFrames", "sumU16", "sumU32", "sumU64",
      "nullableI16Length", "nullableF64Length"} |-> Checked(Nothing)]

DartLastSum ==
     [m \in {"nullableU64Length"} |-> Checked(Nothing)]

DartFast ==
     [m \in {"scaleFast", "notFast", "nextStatusFast", "optIncFast",
      "strLenFast", "throwsFast", "bufferFirstByteFast",
      "addIntsHot", "bufferFirstByteHot"} |-> Unread(Nothing)]
  @@ [m \in {"bufferFill", "acquireBuffer"} |-> Checked(Nothing)]

DartEventsAndResults ==
     [m \in {"echoEvent"} |-> Checked(Block)]
  @@ [m \in {"safeDiv", "validateLabel"} |-> Unread(Block)]

DartDeepRecord ==
     [m \in {"echoDeepRecord"} |-> Checked(Block)]

DartListsAndEvents ==
     [m \in {"echoPriority", "configureBufferDropIntStream",
      "configureEventStream"} |-> Checked(Nothing)]
  @@ [m \in {"onEventCallback"} |-> Listens]
  @@ [m \in {"getStatusList", "echoStatusList", "getEventList"} |-> Checked(Block)]

DartPairs ==
     [m \in {"echoEventList", "echoPair", "echoNullablePair"} |-> Checked(Block)]
  @@ [m \in {"configureNullableStatusStream",
      "configureNullableStringStream", "echoUint64"} |-> Checked(Nothing)]

DartFixedWidth ==
     [m \in {"echoNullableUint64", "configureUint64Stream",
      "configureNullableUint64Stream", "echoInt8",
      "echoInt16", "echoInt32", "echoUint8", "echoUint16"} |-> Checked(Nothing)]

DartNullableFixedWidth ==
     [m \in {"echoUint32", "echoFloat", "echoNullableInt32",
      "echoNullableFloat", "configureNullableIntStream",
      "configureNullableDoubleStream",
      "configureNullableBoolStream", "getPrecision",
      "setPrecision"} |-> Checked(Nothing)]

DartOptionalProperties ==
     [m \in {"getTag", "setTag", "getNullableRate", "setNullableRate",
      "getEnabled", "setEnabled", "getCurrentStatus",
      "setCurrentStatus", "getNullableCounter",
      "setNullableCounter", "getOptionalFlag",
      "setOptionalFlag", "getRatio", "setRatio"} |-> Checked(Nothing)]

DartTextProperties ==
     [m \in {"getLabel", "setLabel", "setCurrentEvent"} |-> Checked(Nothing)]
  @@ [m \in {"getCurrentEvent"} |-> Checked(Block)]

DartMethods ==
     DartBasics @@ DartOptionals @@ DartEnumsAndStructs
  @@ DartViews @@ DartSmallIntViews @@ DartRecords @@ DartMaps
  @@ DartEventsAndNullableMaps @@ DartNullables @@ DartNested @@ DartCallbacks
  @@ DartEnumCallbacks @@ DartSubmitCoalesced @@ DartImplVariant
  @@ DartStreamsAndEvents @@ DartEventsAndErrors @@ DartGetConfigOrFail
  @@ DartFastInts @@ DartNullableArrays @@ DartSums @@ DartLastSum @@ DartFast
  @@ DartEventsAndResults @@ DartDeepRecord @@ DartListsAndEvents @@ DartPairs
  @@ DartFixedWidth @@ DartNullableFixedWidth @@ DartOptionalProperties
  @@ DartTextProperties
=============================================================================
