------------------------------ MODULE SyncCpp -------------------------------
\* What the C++ build of the bridge (macOS, Linux, Windows, the web) gives Dart
\* for each call, export by export.
\*
\* A synchronous export clears the slot and the thread's error record, looks up
\* the instance and answers with what the implementation returned, or writes to
\* the slot what it threw.  An export that a worker runs reports to the error
\* record instead; one with a port to the slot, and posts null.
EXTENDS TLC

\* Numbers and addresses, or nothing; texts and optionals in a buffer of the
\* thread, and structs in a thread-local; the same with fields cloned for Dart; a
\* text, an optional or a struct on the heap, since it may be absent or since
\* another thread reads it; an envelope that points at the implementation's
\* buffer; anything encoded, a result with its error in it.
Nothing  == {}
Buffer   == {"buffer"}
Rich     == {"buffer", "fields"}
Text     == {"text"}
Optional == {"optional"}
Struct   == {"struct"}
View     == {"envelope", "payload"}
Block    == {"block"}

CppBasics ==
     [m \in {"echoString", "joinStrings", "echoNullableDateTime"} |-> Buffer]
  @@ [m \in {"echoInt", "echoDouble", "echoBool", "addInts",
      "mulDoubles", "echoDateTime"} |-> Nothing]

CppNullablesAndStatus ==
     [m \in {"echoNullableInt", "echoNullableDouble",
      "echoNullableBool", "echoPoint"} |-> Buffer]
  @@ [m \in {"echoNullableString"} |-> Text]
  @@ [m \in {"echoStatus", "echoNullableStatus"} |-> Nothing]

CppStructsAndViews ==
     [m \in {"echoRichStruct"} |-> Rich]
  @@ [m \in {"echoConfig"} |-> Block]
  @@ [m \in {"echoBytes", "echoFloats", "echoFloat64s"} |-> View]

CppViewsAndLists ==
     [m \in {"echoInt32s", "echoInt8s", "echoInt16s", "echoInt64s"} |-> View]
  @@ [m \in {"echoIntList", "echoDoubleList"} |-> Block]

CppListsAndPool ==
     [m \in {"echoStringList", "echoConfigList", "asyncConfig"} |-> Block]
  @@ [m \in {"asyncString"} |-> Text]
  @@ [m \in {"asyncNullableInt"} |-> Optional]
  @@ [m \in {"asyncInt", "asyncDouble", "asyncBool"} |-> Nothing]

CppPoolOptionals ==
     [m \in {"asyncNullableDouble", "asyncNullableBool"} |-> Optional]
  @@ [m \in {"asyncNullableString"} |-> Text]
  @@ [m \in {"asyncPoint"} |-> Struct]
  @@ [m \in {"asyncMeta", "echoMeta", "echoNullableIntSafe"} |-> Block]
  @@ [m \in {"asyncNullableStatus"} |-> Nothing]

CppRecordsAndMaps ==
     [m \in {"echoNullableDoubleSafe", "echoNullableBoolSafe",
      "echoDataRecord", "echoIntMap", "echoStringMap",
      "echoDoubleMap", "echoBoolMap", "echoConfigMap"} |-> Block]

CppEventsAndNullableMaps ==
     [m \in {"echoEventMap", "echoNullableIntMap",
      "echoNullableDoubleMap", "echoNullableBoolMap",
      "echoNullableStringMap", "echoPacket"} |-> Block]
  @@ [m \in {"echoOptScalars"} |-> Buffer]
  @@ [m \in {"echoNullablePoint"} |-> Struct]

CppNested ==
     [m \in {"echoNullableConfig", "echoNested", "echoConfigListSync",
      "echoNullableWrapper", "echoStructHolder"} |-> Block]
  @@ [m \in {"configureConfigStream", "onTransformEvent"} |-> Nothing]

CppCallbacks ==
     [m \in {"onStringTransform", "onDoubleTransform",
      "configureBatchStream", "configureBatchDoubleStream",
      "configureBatchBoolStream", "onBoolTransform"} |-> Nothing]

CppListsAndNativeAsync ==
     [m \in {"echoListBool", "echoPointList"} |-> Block]
  @@ [m \in {"onStatusTransform", "submitCoalesced", "nativeAsyncInt",
      "nativeAsyncDouble", "nativeAsyncBool"} |-> Nothing]

CppNativeAsyncOptionals ==
     [m \in {"nativeAsyncString", "nativeAsyncNullableInt",
      "nativeAsyncNullableDouble",
      "nativeAsyncNullableBool", "nativeAsyncStatus",
      "nativeAsyncNullableStatus"} |-> Nothing]

CppNativeAsyncRecords ==
     [m \in {"implVariant"} |-> Buffer]
  @@ [m \in {"nativeAsyncConfig", "nativeAsyncPrintText",
      "nativeAsyncNullableConfig", "nativeAsyncEvent",
      "nativeAsyncConfigList", "nativeAsyncStatusList"} |-> Nothing]

CppNativeAsyncLists ==
     [m \in {"nativeAsyncEventList", "nativeAsyncIntList",
      "nativeAsyncWithCallback", "nativeAsyncCounts",
      "nativeAsyncNullableUint64", "nativeAsyncEchoIntMap"} |-> Nothing]

CppStreamsAndEvents ==
     [m \in {"nativeAsyncEchoPoint", "nativeAsyncEchoAnyMap",
      "configureStringStream",
      "configureBatchStringStream",
      "configureBlockIntStream", "onPointEvent",
      "onDetailEvent"} |-> Nothing]

CppThrowing ==
     [m \in {"onIntEvent", "onBoolEvent", "onDoubleEvent",
      "configureStream", "configureDoubleStream",
      "configureStatusStream", "throwNative",
      "throwNativeAsync"} |-> Nothing]

CppFastInts ==
     [m \in {"getConfigOrFail"} |-> Block]
  @@ [m \in {"throwNativeNativeAsync", "nativeAsyncEchoOptionalConfig",
      "addIntsFast", "touchFast", "addIntsInline",
      "addIntsInlineOr", "asyncIntOr"} |-> Nothing]

CppSums ==
     [m \in {"nativeAsyncStringOr", "nullableBytesLength",
      "nullableFloatsSum", "nullableBytesLengthAsync",
      "emitTypedFrames", "sumU16", "sumU32", "sumU64",
      "nullableI16Length"} |-> Nothing]

CppNullableArrays ==
     [m \in {"nullableF64Length", "nullableU64Length", "asyncDateTime",
      "nativeAsyncDateTime", "nativeAsyncNullableString",
      "scaleFast", "notFast", "nextStatusFast"} |-> Nothing]

CppFast ==
     [m \in {"optIncFast"} |-> Buffer]
  @@ [m \in {"echoEvent"} |-> Block]
  @@ [m \in {"strLenFast", "throwsFast", "bufferFill",
      "bufferFirstByteFast", "addIntsHot",
      "bufferFirstByteHot", "acquireBuffer"} |-> Nothing]

CppResults ==
     [m \in {"safeDiv", "validateLabel", "echoDeepRecord",
      "asyncDeepRecord", "asyncEchoEvent", "asyncSafeDiv",
      "asyncValidateLabel"} |-> Block]
  @@ [m \in {"slowAsync", "asyncAcquireBuffer"} |-> Nothing]

CppEventLists ==
     [m \in {"getStatusList", "echoStatusList", "getEventList",
      "echoEventList"} |-> Block]
  @@ [m \in {"echoPriority", "configureBufferDropIntStream",
      "onEventCallback", "configureEventStream"} |-> Nothing]

CppPairs ==
     [m \in {"echoPair", "echoNullablePair"} |-> Block]
  @@ [m \in {"echoNullableUint64"} |-> Buffer]
  @@ [m \in {"configureNullableStatusStream",
      "configureNullableStringStream", "echoUint64",
      "configureUint64Stream",
      "configureNullableUint64Stream", "echoInt8"} |-> Nothing]

CppFixedWidth ==
     [m \in {"echoNullableInt32", "echoNullableFloat"} |-> Buffer]
  @@ [m \in {"echoInt16", "echoInt32", "echoUint8", "echoUint16",
      "echoUint32", "echoFloat"} |-> Nothing]

CppNullableStreams ==
     [m \in {"configureNullableIntStream",
      "configureNullableDoubleStream",
      "configureNullableBoolStream"} |-> Nothing]

CppProperties ==
     [m \in {"getTag", "getNullableRate", "getNullableCounter"} |-> Buffer]
  @@ [m \in {"getPrecision", "setPrecision", "setTag",
      "setNullableRate", "getEnabled", "setEnabled",
      "getCurrentStatus", "setCurrentStatus"} |-> Nothing]

CppNullableProperties ==
     [m \in {"getOptionalFlag"} |-> Buffer]
  @@ [m \in {"getLabel"} |-> Text]
  @@ [m \in {"getCurrentEvent"} |-> Block]
  @@ [m \in {"setNullableCounter", "setOptionalFlag", "getRatio",
      "setRatio", "setLabel", "setCurrentEvent"} |-> Nothing]

CppExports ==
     CppBasics @@ CppNullablesAndStatus @@ CppStructsAndViews
  @@ CppViewsAndLists @@ CppListsAndPool @@ CppPoolOptionals
  @@ CppRecordsAndMaps @@ CppEventsAndNullableMaps @@ CppNested
  @@ CppCallbacks @@ CppListsAndNativeAsync
  @@ CppNativeAsyncOptionals @@ CppNativeAsyncRecords
  @@ CppNativeAsyncLists @@ CppStreamsAndEvents @@ CppThrowing
  @@ CppFastInts @@ CppSums @@ CppNullableArrays @@ CppFast
  @@ CppResults @@ CppEventLists @@ CppPairs @@ CppFixedWidth
  @@ CppNullableStreams @@ CppProperties @@ CppNullableProperties
=============================================================================
