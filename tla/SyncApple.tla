------------------------------ MODULE SyncApple -----------------------------
\* What the iOS build of the bridge gives Dart for each call, export by export.
\*
\* A synchronous export clears the slot and calls the Swift function of the
\* method; those of methods do so inside a @try whose @catch writes to the slot.
\* An export that a worker runs has no slot: its @catch writes to the thread's
\* error record.  An export with a port only passes slot and port on.
EXTENDS TLC

\* Numbers and addresses, or nothing; a text in a buffer of the thread, a copy of
\* the one Swift made; a text, an optional or a struct on the heap, the struct
\* with fields of its own or without; typed data copied behind its envelope;
\* anything encoded.
Nothing  == {}
Buffer   == {"buffer"}
Text     == {"text"}
Optional == {"optional"}
Struct   == {"struct"}
Rich     == {"struct", "fields"}
View     == {"envelope"}
Block    == {"block"}

AppleBasics ==
     [m \in {"echoString"} |-> Buffer]
  @@ [m \in {"echoInt", "echoDouble", "echoBool", "addInts"} |-> Nothing]

AppleTextsAndDates ==
     [m \in {"joinStrings"} |-> Buffer]
  @@ [m \in {"echoNullableDateTime", "echoNullableInt"} |-> Optional]
  @@ [m \in {"mulDoubles", "echoDateTime"} |-> Nothing]

AppleNullablesAndStatus ==
     [m \in {"echoNullableDouble", "echoNullableBool"} |-> Optional]
  @@ [m \in {"echoNullableString"} |-> Buffer]
  @@ [m \in {"echoStatus", "echoNullableStatus"} |-> Nothing]

AppleStructsAndViews ==
     [m \in {"echoPoint"} |-> Struct]
  @@ [m \in {"echoRichStruct"} |-> Rich]
  @@ [m \in {"echoConfig"} |-> Block]
  @@ [m \in {"echoBytes", "echoFloats", "echoFloat64s"} |-> View]

AppleViewsAndLists ==
     [m \in {"echoInt32s", "echoInt8s", "echoInt16s", "echoInt64s"} |-> View]
  @@ [m \in {"echoIntList", "echoDoubleList"} |-> Block]

AppleListsAndPool ==
     [m \in {"echoStringList", "echoConfigList"} |-> Block]
  @@ [m \in {"asyncString"} |-> Text]
  @@ [m \in {"asyncInt", "asyncDouble", "asyncBool"} |-> Nothing]

ApplePoolOptionals ==
     [m \in {"asyncConfig"} |-> Block]
  @@ [m \in {"asyncNullableInt", "asyncNullableDouble",
      "asyncNullableBool"} |-> Optional]
  @@ [m \in {"asyncNullableString"} |-> Text]
  @@ [m \in {"asyncPoint"} |-> Struct]

AppleMetaAndSafeNullables ==
     [m \in {"asyncMeta", "echoMeta", "echoNullableIntSafe",
      "echoNullableDoubleSafe", "echoNullableBoolSafe"} |-> Block]
  @@ [m \in {"asyncNullableStatus"} |-> Nothing]

AppleRecordAndMaps ==
     [m \in {"echoDataRecord", "echoIntMap", "echoStringMap",
      "echoDoubleMap", "echoBoolMap", "echoConfigMap"} |-> Block]

AppleEventAndNullableMaps ==
     [m \in {"echoEventMap", "echoNullableIntMap",
      "echoNullableDoubleMap", "echoNullableBoolMap",
      "echoNullableStringMap"} |-> Block]
  @@ [m \in {"echoOptScalars"} |-> Struct]

ApplePacketsAndNested ==
     [m \in {"echoPacket", "echoNullableConfig", "echoNested",
      "echoConfigListSync"} |-> Block]
  @@ [m \in {"echoNullablePoint"} |-> Struct]
  @@ [m \in {"configureConfigStream"} |-> Nothing]

AppleWrappersAndCallbacks ==
     [m \in {"echoNullableWrapper", "echoStructHolder"} |-> Block]
  @@ [m \in {"onTransformEvent", "onStringTransform",
      "onDoubleTransform", "configureBatchStream"} |-> Nothing]

AppleCallbacksAndLists ==
     [m \in {"echoListBool", "echoPointList"} |-> Block]
  @@ [m \in {"configureBatchDoubleStream", "configureBatchBoolStream",
      "onBoolTransform", "onStatusTransform"} |-> Nothing]

AppleNativeAsync ==
     [m \in {"implVariant"} |-> Buffer]
  @@ [m \in {"submitCoalesced", "nativeAsyncInt", "nativeAsyncDouble",
      "nativeAsyncBool", "nativeAsyncString",
      "nativeAsyncNullableInt",
      "nativeAsyncNullableDouble",
      "nativeAsyncNullableBool", "nativeAsyncStatus",
      "nativeAsyncNullableStatus", "nativeAsyncConfig",
      "nativeAsyncPrintText", "nativeAsyncNullableConfig",
      "nativeAsyncEvent", "nativeAsyncConfigList",
      "nativeAsyncStatusList"} |-> Nothing]

AppleNativeAsyncLists ==
     [m \in {"nativeAsyncEventList", "nativeAsyncIntList",
      "nativeAsyncWithCallback", "nativeAsyncCounts",
      "nativeAsyncNullableUint64", "nativeAsyncEchoIntMap",
      "nativeAsyncEchoPoint", "nativeAsyncEchoAnyMap",
      "configureStringStream",
      "configureBatchStringStream",
      "configureBlockIntStream", "onPointEvent"} |-> Nothing]

AppleEventCallbacks ==
     [m \in {"onDetailEvent", "onIntEvent", "onBoolEvent",
      "onDoubleEvent", "configureStream",
      "configureDoubleStream"} |-> Nothing]

AppleThrowing ==
     [m \in {"getConfigOrFail"} |-> Block]
  @@ [m \in {"configureStatusStream", "throwNative", "throwNativeAsync",
      "throwNativeNativeAsync",
      "nativeAsyncEchoOptionalConfig", "addIntsFast"} |-> Nothing]

AppleFastInts ==
     [m \in {"touchFast", "addIntsInline", "addIntsInlineOr",
      "asyncIntOr", "nativeAsyncStringOr",
      "nullableBytesLength"} |-> Nothing]

AppleSums ==
     [m \in {"nullableFloatsSum", "nullableBytesLengthAsync",
      "emitTypedFrames", "sumU16", "sumU32", "sumU64"} |-> Nothing]

AppleNullableArrays ==
     [m \in {"nullableI16Length", "nullableF64Length",
      "nullableU64Length", "asyncDateTime",
      "nativeAsyncDateTime", "nativeAsyncNullableString",
      "scaleFast"} |-> Nothing]

AppleFast ==
     [m \in {"optIncFast"} |-> Optional]
  @@ [m \in {"notFast", "nextStatusFast", "strLenFast", "throwsFast",
      "bufferFill"} |-> Nothing]

AppleBuffers ==
     [m \in {"echoEvent", "safeDiv"} |-> Block]
  @@ [m \in {"bufferFirstByteFast", "addIntsHot", "bufferFirstByteHot",
      "acquireBuffer"} |-> Nothing]

AppleResultsAndPool ==
     [m \in {"validateLabel", "echoDeepRecord", "asyncDeepRecord",
      "asyncEchoEvent"} |-> Block]
  @@ [m \in {"slowAsync", "asyncAcquireBuffer"} |-> Nothing]

AppleEventsAndStreams ==
     [m \in {"asyncSafeDiv", "asyncValidateLabel"} |-> Block]
  @@ [m \in {"echoPriority", "configureBufferDropIntStream",
      "onEventCallback", "configureEventStream"} |-> Nothing]

AppleStatusAndEventLists ==
     [m \in {"getStatusList", "echoStatusList", "getEventList",
      "echoEventList"} |-> Block]
  @@ [m \in {"configureNullableStatusStream",
      "configureNullableStringStream"} |-> Nothing]

ApplePairs ==
     [m \in {"echoPair", "echoNullablePair"} |-> Block]
  @@ [m \in {"echoNullableUint64"} |-> Optional]
  @@ [m \in {"echoUint64", "configureUint64Stream",
      "configureNullableUint64Stream"} |-> Nothing]

AppleFixedWidth ==
     [m \in {"echoInt8", "echoInt16", "echoInt32", "echoUint8",
      "echoUint16", "echoUint32"} |-> Nothing]

AppleNullableFixedWidth ==
     [m \in {"echoNullableInt32", "echoNullableFloat"} |-> Optional]
  @@ [m \in {"echoFloat", "configureNullableIntStream",
      "configureNullableDoubleStream",
      "configureNullableBoolStream"} |-> Nothing]

AppleProperties ==
     [m \in {"getTag", "getLabel"} |-> Buffer]
  @@ [m \in {"getNullableRate", "getNullableCounter", "getOptionalFlag"} |-> Optional]
  @@ [m \in {"getCurrentEvent"} |-> Block]
  @@ [m \in {"getPrecision", "setPrecision", "setTag",
      "setNullableRate", "getEnabled", "setEnabled",
      "getCurrentStatus", "setCurrentStatus",
      "setNullableCounter", "setOptionalFlag", "getRatio",
      "setRatio", "setLabel", "setCurrentEvent"} |-> Nothing]

AppleExports ==
     AppleBasics @@ AppleTextsAndDates @@ AppleNullablesAndStatus
  @@ AppleStructsAndViews @@ AppleViewsAndLists @@ AppleListsAndPool
  @@ ApplePoolOptionals @@ AppleMetaAndSafeNullables
  @@ AppleRecordAndMaps @@ AppleEventAndNullableMaps
  @@ ApplePacketsAndNested @@ AppleWrappersAndCallbacks
  @@ AppleCallbacksAndLists @@ AppleNativeAsync
  @@ AppleNativeAsyncLists @@ AppleEventCallbacks @@ AppleThrowing
  @@ AppleFastInts @@ AppleSums @@ AppleNullableArrays @@ AppleFast
  @@ AppleBuffers @@ AppleResultsAndPool @@ AppleEventsAndStreams
  @@ AppleStatusAndEventLists @@ ApplePairs @@ AppleFixedWidth
  @@ AppleNullableFixedWidth @@ AppleProperties
=============================================================================
