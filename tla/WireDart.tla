------------------------------- MODULE WireDart -------------------------------
(***************************************************************************)
(* The layouts that the Dart side writes (arguments) and reads (results):  *)
(* the writeFields and fromReader extensions of the records and variants,  *)
(* and the codecs around them in the calls.                                    *)
(***************************************************************************)
EXTENDS WireFormat

TcStatus  == Enum(<<0, 1, 2>>)        \* nativeValue
StatusIndex == Enum(<<0, 1, 2>>)      \* index, which TcEvent writes
TcPriority == Enum(<<0, 100, 200>>)

NullableInt    == Packed(I64)
NullableDouble == Packed(F64)
NullableBool   == Packed(Bool)

TcPoint  == Rec(<<<<"x", F64>>, <<"y", F64>>, <<"z", F64>>>>)

TcConfig == Rec(<<<<"name", Str>>, <<"count", I64>>, <<"enabled", Bool>>,
                  <<"threshold", F64>>>>)

TcMeta   == Rec(<<<<"version", I64>>, <<"weight", F64>>, <<"active", Bool>>,
                  <<"label", Str>>>>)

TcPacket == Rec(<<<<"name", Str>>, <<"sequence", I64>>, <<"status", TcStatus>>,
                  <<"valid", Bool>>>>)

TcNested == Rec(<<<<"label", Str>>, <<"config", TcConfig>>, <<"version", I64>>>>)

TcNullableWrapper == Rec(<<<<"count", NullableInt>>, <<"rate", NullableDouble>>,
                           <<"name", Str>>>>)

TcDataRecord == Rec(<<<<"bytes", Blob(1)>>, <<"values", Blob(4)>>,
                      <<"scores", Blob(8)>>, <<"label", Str>>>>)

TcStructHolder == Rec(<<<<"label", Str>>, <<"origin", TcPoint>>, <<"radius", F64>>>>)

TcDeepRecord == Rec(<<<<"label", Str>>, <<"nested", TcNested>>, <<"depth", I64>>>>)

TcPair == Rec(<<<<"first", I64>>, <<"second", Str>>>>)

TcEvent == Variant(<<
  Rec(<<<<"x", I64>>, <<"y", I64>>>>),
  Rec(<<<<"delta", F64>>>>),
  Rec(<<<<"width", I64>>, <<"height", I64>>>>),
  Rec(<<<<"count", Opt(I64)>>, <<"status", Opt(StatusIndex)>>,
        <<"config", Opt(TcConfig)>>, <<"samples", Opt(List(I64))>>>>)>>)

NitroAnyMap == Frame(Dict(AnyValue(<<"null", "bool", "int", "double", "string",
                                     "list", "object">>), TRUE))

-----------------------------------------------------------------------------
(***************************************************************************)
(* The calls, by the kind of bytes they pass.                              *)
(***************************************************************************)
RecordCalls ==
  [echoConfig |-> Echo(Frame(TcConfig)), echoMeta |-> Echo(Frame(TcMeta)),
   echoNullableIntSafe |-> Echo(Frame(NullableInt)),
   echoNullableDoubleSafe |-> Echo(Frame(NullableDouble)),
   echoNullableBoolSafe |-> Echo(Frame(NullableBool)),
   echoDataRecord |-> Echo(Frame(TcDataRecord))]

MoreRecordCalls ==
  [echoPacket |-> Echo(Frame(TcPacket)), echoNested |-> Echo(Frame(TcNested)),
   echoNullableWrapper |-> Echo(Frame(TcNullableWrapper)),
   echoStructHolder |-> Echo(Frame(TcStructHolder))]

VariantCalls ==
  [echoEvent |-> Echo(Frame(TcEvent)), echoDeepRecord |-> Echo(Frame(TcDeepRecord)),
   asyncDeepRecord |-> Echo(Frame(TcDeepRecord)), asyncEchoEvent |-> Echo(Frame(TcEvent))]

OptCalls ==   \* the NitroOpt structs: no size in front
  [echoNullableInt |-> Echo(NullableInt), echoNullableDouble |-> Echo(NullableDouble),
   echoNullableBool |-> Echo(NullableBool)]

ListCalls ==
  [echoIntList |-> Pass(Frame(Indexed(I64, FALSE)), Frame(List(I64))),
   echoDoubleList |-> Pass(Frame(Indexed(F64, FALSE)), Frame(List(F64))),
   echoStringList |-> Pass(Frame(Indexed(Str, FALSE)), Frame(List(Str))),
   echoConfigList |-> Echo(Frame(Indexed(TcConfig, TRUE)))]

MoreListCalls ==
  [echoListBool |-> Pass(Frame(Indexed(Bool, FALSE)), Frame(List(Bool))),
   echoPointList |-> Echo(Frame(Indexed(TcPoint, TRUE)))]

EnumListCalls ==
  [echoStatusList |-> Echo(Frame(List(TcStatus))), echoEventList |-> Echo(Frame(List(TcEvent)))]

MapValue(tag, x)    == Dict(Tagged(tag, x, FALSE, FALSE), TRUE)
OptMapValue(tag, x) == Dict(Tagged(tag, x, TRUE, FALSE), TRUE)
SizedMap(d, fixed, text) == Pass(Sized(d, fixed, text), Frame(d))

MapCalls ==
  [echoIntMap |-> SizedMap(MapValue(1, I64), 9, FALSE),
   echoStringMap |-> SizedMap(MapValue(4, Str), 5, TRUE),
   echoDoubleMap |-> SizedMap(MapValue(2, F64), 9, FALSE),
   echoBoolMap |-> SizedMap(MapValue(3, Bool), 2, FALSE)]

RecordMapCalls ==   \* a record comes with its own size, inside the size of the value
  [echoConfigMap |-> Echo(Frame(MapValue(5, Frame(Frame(TcConfig))))),
   echoEventMap |-> Echo(Frame(MapValue(5, Frame(Frame(TcEvent)))))]

OptMapCalls ==
  [echoNullableIntMap |-> SizedMap(OptMapValue(1, I64), 9, FALSE),
   echoNullableDoubleMap |-> SizedMap(OptMapValue(2, F64), 9, FALSE),
   echoNullableBoolMap |-> SizedMap(OptMapValue(3, Bool), 2, FALSE),
   echoNullableStringMap |-> SizedMap(OptMapValue(4, Str), 5, TRUE)]

Result(x) == Variant(<<Frame(x), Frame(Str)>>)

ResultCalls ==
  [validateLabel |-> Pass(Void, Result(Str)), safeDiv |-> Pass(Void, Result(F64))]

ConfigResultCalls ==
  [getConfigOrFail |-> Pass(Void, Result(TcConfig))]

AsyncResultCalls ==
  [asyncValidateLabel |-> Pass(Void, Result(Str)), asyncSafeDiv |-> Pass(Void, Result(F64))]

NativeAsyncRecordCalls ==
  [nativeAsyncConfig |-> Echo(Frame(TcConfig)), nativeAsyncEvent |-> Echo(Frame(TcEvent)),
   nativeAsyncNullableInt |-> Echo(NullableInt)]

NativeAsyncListCalls ==
  [nativeAsyncConfigList |-> Echo(Frame(Indexed(TcConfig, TRUE))),
   nativeAsyncStatusList |-> Echo(Frame(List(TcStatus))),
   nativeAsyncEventList |-> Echo(Frame(List(TcEvent))),
   nativeAsyncIntList |-> Pass(Frame(Indexed(I64, FALSE)), Frame(List(I64)))]

NativeAsyncMapCalls ==
  [nativeAsyncCounts |-> Pass(Void, Frame(MapValue(1, I64))),
   nativeAsyncEchoIntMap |-> SizedMap(MapValue(1, I64), 9, FALSE),
   nativeAsyncEchoAnyMap |-> Echo(NitroAnyMap)]

PairCalls ==
  [echoPair |-> Echo(Frame(TcPair)), echoNullablePair |-> Echo(Ptr(Frame(TcPair))),
   echoNullableConfig |-> Echo(Ptr(Frame(TcConfig)))]

EnumCalls ==
  [echoStatus |-> Echo(TcStatus), echoNullableStatus |-> Echo(EnumOrNull(<<0, 1, 2>>)),
   echoPriority |-> Echo(TcPriority)]

AsyncCalls ==
  [asyncConfig |-> Echo(Frame(TcConfig)), asyncMeta |-> Echo(Frame(TcMeta)),
   echoConfigListSync |-> Echo(Frame(Indexed(TcConfig, TRUE))),
   asyncNullableInt |-> Echo(NullableInt), asyncNullableDouble |-> Echo(NullableDouble),
   asyncNullableBool |-> Echo(NullableBool),
   asyncNullableStatus |-> Echo(EnumOrNull(<<0, 1, 2>>))]

OwnListCalls ==
  [getStatusList |-> Pass(Void, Frame(List(TcStatus))),
   getEventList |-> Pass(Void, Frame(List(TcEvent)))]

NativeAsyncOptCalls ==
  [nativeAsyncNullableDouble |-> Echo(NullableDouble),
   nativeAsyncNullableBool |-> Echo(NullableBool),
   nativeAsyncStatus |-> Echo(TcStatus),
   nativeAsyncNullableStatus |-> Echo(EnumOrNull(<<0, 1, 2>>)),
   nativeAsyncNullableConfig |-> Echo(Ptr(Frame(TcConfig))),
   nativeAsyncEchoOptionalConfig |-> Echo(Ptr(Frame(TcConfig)))]
===============================================================================
