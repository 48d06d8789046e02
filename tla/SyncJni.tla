------------------------------ MODULE SyncJni ------------------------------
\* How the Android build of the bridge runs each method, export by export.
\*
\* The calling thread is not inside a Java method, so a local reference made
\* outside a frame stays until the thread detaches.  An export that makes
\* references (a Java text, array or object for an argument or the result)
\* pushes a frame and pops it on every way out; one that passes registers does
\* without, and pushes one only around the report of an exception, if at all,
\* since the report deletes its own references.  The exports of properties
\* never look for an exception; the implementation's are plain fields.  An
\* export that a worker runs reports to the thread's error record, and so does
\* one with a port, whose slot and port are Kotlin's.
EXTENDS TLC

\* What an export gives Dart: nothing but registers, thread-local storage, the
\* same with fields allocated for Dart, the envelope of a direct buffer together
\* with a global reference to its owner, a block for Dart; for a result that
\* another thread reads, a text, an optional or a struct on the heap.
Nothing  == {}
Buffer   == {"buffer"}
Rich     == {"buffer", "fields"}
View     == {"envelope", "owner"}
Block    == {"block"}
Text     == {"text"}
Optional == {"optional"}
Struct   == {"struct"}

\* A row of the tables: no frame and no reference, a frame with references, a
\* frame without need.
Bare          == [framed |-> FALSE, makes |-> FALSE, gives |-> Nothing]
Spare         == [framed |-> TRUE,  makes |-> FALSE, gives |-> Nothing]
Framed(given) == [framed |-> TRUE,  makes |-> TRUE,  gives |-> given]

JniBasics ==
     [m \in {"echoInt", "echoDouble", "echoBool", "addInts",
      "mulDoubles"} |-> Bare]
  @@ [m \in {"echoString", "joinStrings"} |-> Framed(Buffer)]

JniOptionals ==
     [m \in {"echoDateTime"} |-> Bare]
  @@ [m \in {"echoNullableDateTime", "echoNullableInt",
      "echoNullableDouble", "echoNullableBool",
      "echoNullableString"} |-> Framed(Buffer)]

JniEnumsAndStructs ==
     [m \in {"echoStatus", "echoNullableStatus"} |-> Spare]
  @@ [m \in {"echoPoint"} |-> Framed(Buffer)]
  @@ [m \in {"echoRichStruct"} |-> Framed(Rich)]
  @@ [m \in {"echoConfig"} |-> Framed(Block)]

JniByteAndFloatViews ==
     [m \in {"echoBytes", "echoFloats", "echoFloat64s"} |-> Framed(View)]

JniSmallIntViews ==
     [m \in {"echoInt32s", "echoInt8s", "echoInt16s"} |-> Framed(View)]

JniInt64View ==
     [m \in {"echoInt64s"} |-> Framed(View)]

JniRecords ==
     [m \in {"echoMeta", "echoNullableIntSafe",
      "echoNullableDoubleSafe", "echoNullableBoolSafe",
      "echoDataRecord"} |-> Framed(Block)]

JniMaps ==
     [m \in {"echoIntMap", "echoStringMap", "echoDoubleMap",
      "echoBoolMap", "echoConfigMap"} |-> Framed(Block)]

JniEventsAndNullableMaps ==
     [m \in {"echoEventMap", "echoNullableIntMap",
      "echoNullableDoubleMap", "echoNullableBoolMap"} |-> Framed(Block)]
  @@ [m \in {"echoOptScalars"} |-> Framed(Buffer)]

JniNullables ==
     [m \in {"echoNullableStringMap", "echoPacket",
      "echoNullableConfig"} |-> Framed(Block)]
  @@ [m \in {"echoNullablePoint"} |-> Framed(Buffer)]
  @@ [m \in {"configureConfigStream"} |-> Framed(Nothing)]

JniNested ==
     [m \in {"echoNested"} |-> Framed(Block)]

JniCallbacks ==
     [m \in {"echoNullableWrapper", "echoStructHolder"} |-> Framed(Block)]
  @@ [m \in {"onTransformEvent", "onStringTransform",
      "onDoubleTransform"} |-> Spare]
  @@ [m \in {"configureBatchStream"} |-> Bare]
  @@ [m \in {"configureBatchDoubleStream", "configureBatchBoolStream"} |-> Framed(Nothing)]

JniEnumCallbacks ==
     [m \in {"onBoolTransform", "onStatusTransform"} |-> Spare]

JniSubmitCoalesced ==
     [m \in {"submitCoalesced"} |-> Bare]

JniImplVariant ==
     [m \in {"implVariant"} |-> Framed(Buffer)]

JniStreamsAndEvents ==
     [m \in {"configureStringStream", "configureBatchStringStream"} |-> Framed(Nothing)]
  @@ [m \in {"configureBlockIntStream", "configureStream",
      "configureDoubleStream"} |-> Bare]
  @@ [m \in {"onPointEvent", "onDetailEvent", "onIntEvent",
      "onBoolEvent", "onDoubleEvent"} |-> Spare]

JniThrowNative ==
     [m \in {"configureStatusStream"} |-> Bare]
  @@ [m \in {"throwNative"} |-> Framed(Nothing)]

JniGetConfigOrFail ==
     [m \in {"getConfigOrFail"} |-> Framed(Block)]

JniFastInts ==
     [m \in {"addIntsFast", "touchFast", "addIntsInline",
      "addIntsInlineOr"} |-> Bare]

JniNullableArrays ==
     [m \in {"nullableBytesLength", "nullableFloatsSum"} |-> Framed(Nothing)]

JniSums ==
     [m \in {"emitTypedFrames"} |-> Bare]
  @@ [m \in {"sumU16", "sumU32", "sumU64", "nullableI16Length",
      "nullableF64Length", "nullableU64Length"} |-> Framed(Nothing)]

JniFast ==
     [m \in {"scaleFast", "notFast", "throwsFast", "bufferFill"} |-> Bare]
  @@ [m \in {"nextStatusFast"} |-> Spare]
  @@ [m \in {"optIncFast"} |-> Framed(Buffer)]
  @@ [m \in {"strLenFast"} |-> Framed(Nothing)]

JniBuffersAndResults ==
     [m \in {"bufferFirstByteFast", "addIntsHot", "bufferFirstByteHot"} |-> Bare]
  @@ [m \in {"acquireBuffer"} |-> Spare]
  @@ [m \in {"echoEvent", "safeDiv", "validateLabel"} |-> Framed(Block)]

JniDeepRecord ==
     [m \in {"echoDeepRecord"} |-> Framed(Block)]

JniListsAndEvents ==
     [m \in {"echoPriority", "onEventCallback"} |-> Spare]
  @@ [m \in {"configureBufferDropIntStream", "configureEventStream"} |-> Bare]
  @@ [m \in {"getStatusList", "echoStatusList", "getEventList"} |-> Framed(Block)]

JniPairs ==
     [m \in {"echoEventList", "echoPair", "echoNullablePair"} |-> Framed(Block)]
  @@ [m \in {"configureNullableStatusStream",
      "configureNullableStringStream", "echoUint64"} |-> Bare]

JniFixedWidth ==
     [m \in {"echoNullableUint64"} |-> Framed(Buffer)]
  @@ [m \in {"configureUint64Stream", "configureNullableUint64Stream",
      "echoInt8", "echoInt16", "echoInt32", "echoUint8",
      "echoUint16"} |-> Bare]

JniNullableFixedWidth ==
     [m \in {"echoUint32", "echoFloat", "configureNullableIntStream",
      "configureNullableDoubleStream",
      "configureNullableBoolStream"} |-> Bare]
  @@ [m \in {"echoNullableInt32", "echoNullableFloat"} |-> Framed(Buffer)]
  @@ [m \in {"getPrecision", "setPrecision"} |-> Spare]

JniTextAndOptionalProperties ==
     [m \in {"getTag", "getNullableRate", "getNullableCounter",
      "getOptionalFlag"} |-> Framed(Buffer)]
  @@ [m \in {"setTag", "setNullableRate", "setNullableCounter"} |-> Framed(Nothing)]
  @@ [m \in {"getEnabled", "setEnabled", "getCurrentStatus",
      "setCurrentStatus"} |-> Spare]

JniProperties ==
     [m \in {"setOptionalFlag", "setLabel", "setCurrentEvent"} |-> Framed(Nothing)]
  @@ [m \in {"getRatio", "setRatio"} |-> Spare]
  @@ [m \in {"getLabel"} |-> Framed(Buffer)]
  @@ [m \in {"getCurrentEvent"} |-> Framed(Block)]

JniPoolLists ==
     [m \in {"echoIntList", "echoDoubleList", "echoStringList",
      "echoConfigList"} |-> Framed(Block)]
  @@ [m \in {"asyncInt"} |-> Bare]

JniPoolScalars ==
     [m \in {"asyncDouble", "asyncBool"} |-> Bare]
  @@ [m \in {"asyncString"} |-> Framed(Text)]
  @@ [m \in {"asyncConfig"} |-> Framed(Block)]
  @@ [m \in {"asyncNullableInt", "asyncNullableDouble"} |-> Framed(Optional)]

JniPoolRecords ==
     [m \in {"asyncNullableBool"} |-> Framed(Optional)]
  @@ [m \in {"asyncNullableString"} |-> Framed(Text)]
  @@ [m \in {"asyncPoint"} |-> Framed(Struct)]
  @@ [m \in {"asyncNullableStatus"} |-> Spare]
  @@ [m \in {"asyncMeta"} |-> Framed(Block)]

JniPoolConfigList ==
     [m \in {"echoConfigListSync"} |-> Framed(Block)]

JniPoolMoreLists ==
     [m \in {"echoListBool", "echoPointList"} |-> Framed(Block)]

JniNativeAsync ==
     [m \in {"nativeAsyncInt", "nativeAsyncDouble", "nativeAsyncBool",
      "nativeAsyncStatus", "nativeAsyncNullableStatus"} |-> Spare]
  @@ [m \in {"nativeAsyncString", "nativeAsyncNullableInt",
      "nativeAsyncNullableDouble",
      "nativeAsyncNullableBool"} |-> Framed(Nothing)]

JniNativeAsyncTexts ==
     [m \in {"nativeAsyncConfig", "nativeAsyncPrintText"} |-> Framed(Nothing)]

JniNativeAsyncLists ==
     [m \in {"nativeAsyncNullableConfig", "nativeAsyncEvent",
      "nativeAsyncConfigList", "nativeAsyncStatusList",
      "nativeAsyncEventList", "nativeAsyncIntList"} |-> Framed(Nothing)]
  @@ [m \in {"nativeAsyncWithCallback", "nativeAsyncCounts"} |-> Spare]

JniNativeAsyncMaps ==
     [m \in {"nativeAsyncNullableUint64", "nativeAsyncEchoIntMap",
      "nativeAsyncEchoPoint", "nativeAsyncEchoAnyMap"} |-> Framed(Nothing)]

JniThrowingAsync ==
     [m \in {"throwNativeAsync", "throwNativeNativeAsync"} |-> Framed(Nothing)]

JniOptionalConfig ==
     [m \in {"nativeAsyncEchoOptionalConfig"} |-> Framed(Nothing)]

JniIntOr ==
     [m \in {"asyncIntOr"} |-> Bare]
  @@ [m \in {"nativeAsyncStringOr"} |-> Framed(Nothing)]

JniBytesLengthAsync ==
     [m \in {"nullableBytesLengthAsync"} |-> Framed(Nothing)]

JniDates ==
     [m \in {"asyncDateTime"} |-> Bare]
  @@ [m \in {"nativeAsyncDateTime"} |-> Spare]
  @@ [m \in {"nativeAsyncNullableString"} |-> Framed(Nothing)]

JniSlowAsync ==
     [m \in {"slowAsync"} |-> Bare]

JniPoolResults ==
     [m \in {"asyncDeepRecord", "asyncEchoEvent", "asyncSafeDiv",
      "asyncValidateLabel"} |-> Framed(Block)]
  @@ [m \in {"asyncAcquireBuffer"} |-> Spare]

\* The exports of synchronous methods and properties ...
JniExports ==
     JniBasics @@ JniOptionals @@ JniEnumsAndStructs @@ JniByteAndFloatViews
  @@ JniSmallIntViews @@ JniInt64View @@ JniRecords @@ JniMaps
  @@ JniEventsAndNullableMaps @@ JniNullables @@ JniNested @@ JniCallbacks
  @@ JniEnumCallbacks @@ JniSubmitCoalesced @@ JniImplVariant
  @@ JniStreamsAndEvents @@ JniThrowNative @@ JniGetConfigOrFail
  @@ JniFastInts @@ JniNullableArrays @@ JniSums @@ JniFast
  @@ JniBuffersAndResults @@ JniDeepRecord @@ JniListsAndEvents @@ JniPairs
  @@ JniFixedWidth @@ JniNullableFixedWidth @@ JniTextAndOptionalProperties
  @@ JniProperties

\* ... those that a worker runs and those that get a port.
JniAsyncExports ==
     JniPoolLists @@ JniPoolScalars @@ JniPoolRecords
  @@ JniPoolConfigList @@ JniPoolMoreLists @@ JniNativeAsync
  @@ JniNativeAsyncTexts @@ JniNativeAsyncLists
  @@ JniNativeAsyncMaps @@ JniThrowingAsync @@ JniOptionalConfig
  @@ JniIntOr @@ JniBytesLengthAsync @@ JniDates @@ JniSlowAsync
  @@ JniPoolResults
=============================================================================
