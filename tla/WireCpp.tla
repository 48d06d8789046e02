------------------------------- MODULE WireCpp -------------------------------
(***************************************************************************)
(* The layouts of the C++ side: the record structs and TcEvent of the      *)
(* generated header, and what the methods of HybridNitroTypeCoverage read  *)
(* from their argument (a view of the payload: the bridge has taken the    *)
(* size off) and return (a buffer with the size in front).                 *)
(***************************************************************************)
EXTENDS WireFormat

TcStatus  == Enum(<<0, 1, 2>>)        \* static_cast of the enum
StatusIndex == Enum(<<0, 1, 2>>)      \* nitro_TcStatus_toIndex
TcPriority == Enum(<<0, 100, 200>>)

NullableInt    == Packed(I64)
NullableDouble == Packed(F64)
NullableBool   == Packed(Bool)

TcPoint  == Rec(<<<<"x", F64>>, <<"y", F64>>, <<"z", F64>>>>)

TcConfig == Rec(<<<<"name", Str>>, <<"count", I64>>, <<"enabled", Bool>>,
                  <<"threshold", F64>>>>)

TcMeta   == Rec(<<<<"version", I64>>, <<"weight", F64>>, <<"active", Bool>>,
                  <<"label", Str>>>>)

TcPacket == Rec(<<<<"name", Str>>, <<"sequence", I64>>, <<"status", TcStatus>>,
                  <<"valid", Bool>>>>)

TcNested == Rec(<<<<"label", Str>>, <<"config", TcConfig>>, <<"version", I64>>>>)

TcNullableWrapper == Rec(<<<<"count", NullableInt>>, <<"rate", NullableDouble>>,
                           <<"name", Str>>>>)

TcDataRecord == Rec(<<<<"bytes", Blob(1)>>, <<"values", Blob(1)>>,
                      <<"scores", Blob(1)>>, <<"label", Str>>>>)

TcStructHolder == Rec(<<<<"label", Str>>, <<"origin", TcPoint>>, <<"radius", F64>>>>)

TcDeepRecord == Rec(<<<<"label", Str>>, <<"nested", TcNested>>, <<"depth", I64>>>>)

TcPair == Rec(<<<<"first", I64>>, <<"second", Str>>>>)

TcEvent == Variant(<<
  Rec(<<<<"x", I64>>, <<"y", I64>>>>),
  Rec(<<<<"delta", F64>>>>),
  Rec(<<<<"width", I64>>, <<"height", I64>>>>),
  Rec(<<<<"count", Opt(I64)>>, <<"status", Opt(StatusIndex)>>,
        <<"config", Opt(TcConfig)>>, <<"samples", Opt(List(I64))>>>>)>>)

-----------------------------------------------------------------------------
Item(x)      == Pass(x, Frame(x))
SimpleList(x)  == Pass(List(x), Frame(List(x)))
MaybeNull(x)    == Pass(Ptr(x), Ptr(Frame(x)))
IndexedParam(x) == Pass(Indexed(x, FALSE), Frame(List(x)))
RecordList(x)  == Pass(Indexed(x, FALSE), Frame(Indexed(x, FALSE)))
MapOf(tag, x)  == Item(Dict(Tagged(tag, x, FALSE, FALSE), TRUE))
OptMap(tag, x) == Item(Dict(Tagged(tag, x, TRUE, FALSE), TRUE))
Result(x)      == Pass(Void, Variant(<<Frame(x), Frame(Str)>>))

RecordCalls ==
  [echoConfig |-> Item(TcConfig), echoMeta |-> Item(TcMeta),
   echoDataRecord |-> Item(TcDataRecord), echoNested |-> Item(TcNested),
   echoNullableWrapper |-> Item(TcNullableWrapper),
   echoNullableIntSafe |-> Item(NullableInt),
   echoNullableDoubleSafe |-> Item(NullableDouble),
   echoNullableBoolSafe |-> Item(NullableBool),
   echoPacket |-> Item(TcPacket), echoStructHolder |-> Item(TcStructHolder)]

OptCalls ==
  [echoNullableInt |-> Echo(NullableInt), echoNullableDouble |-> Echo(NullableDouble),
   echoNullableBool |-> Echo(NullableBool)]

ListCalls ==
  [echoIntList |-> IndexedParam(I64), echoDoubleList |-> IndexedParam(F64),
   echoStringList |-> IndexedParam(Str), echoConfigList |-> RecordList(TcConfig)]

MapCalls ==
  [echoIntMap |-> MapOf(1, I64), echoStringMap |-> MapOf(4, Str),
   echoDoubleMap |-> MapOf(2, F64), echoBoolMap |-> MapOf(3, Bool),
   echoNullableIntMap |-> OptMap(1, I64), echoNullableDoubleMap |-> OptMap(2, F64),
   echoNullableBoolMap |-> OptMap(3, Bool), echoNullableStringMap |-> OptMap(4, Str),
   echoConfigMap |-> MapOf(5, Frame(Frame(TcConfig))),
   echoEventMap |-> MapOf(5, Frame(Frame(TcEvent)))]

MoreListCalls ==
  [echoListBool |-> IndexedParam(Bool), echoPointList |-> RecordList(TcPoint)]

VariantCalls ==
  [echoEvent |-> Item(TcEvent), echoDeepRecord |-> Item(TcDeepRecord),
   asyncDeepRecord |-> Item(TcDeepRecord), asyncEchoEvent |-> Item(TcEvent)]

EnumListCalls ==
  [echoStatusList |-> SimpleList(TcStatus), echoEventList |-> SimpleList(TcEvent)]

ResultCalls ==
  [validateLabel |-> Result(Str), safeDiv |-> Result(F64),
   asyncValidateLabel |-> Result(Str), asyncSafeDiv |-> Result(F64)]

ConfigResultCalls == [getConfigOrFail |-> Result(TcConfig)]

NativeAsyncCalls ==
  [nativeAsyncNullableInt |-> Echo(NullableInt),
   nativeAsyncConfig |-> Item(TcConfig), nativeAsyncEvent |-> Item(TcEvent),
   nativeAsyncConfigList |-> RecordList(TcConfig),
   nativeAsyncStatusList |-> SimpleList(TcStatus),
   nativeAsyncEventList |-> SimpleList(TcEvent),
   nativeAsyncIntList |-> IndexedParam(I64),
   nativeAsyncCounts |-> Pass(Void, Frame(Dict(Tagged(1, I64, FALSE, FALSE), TRUE))),
   nativeAsyncEchoIntMap |-> MapOf(1, I64)]

PairCalls ==
  [echoPair |-> Item(TcPair), echoNullablePair |-> MaybeNull(TcPair),
   echoNullableConfig |-> MaybeNull(TcConfig)]

EnumCalls ==
  [echoStatus |-> Echo(TcStatus), echoNullableStatus |-> Echo(EnumOrNull(<<0, 1, 2>>)),
   echoPriority |-> Echo(TcPriority)]

AsyncCalls ==
  [asyncConfig |-> Item(TcConfig), asyncMeta |-> Item(TcMeta),
   echoConfigListSync |-> RecordList(TcConfig),
   asyncNullableInt |-> Echo(NullableInt), asyncNullableDouble |-> Echo(NullableDouble),
   asyncNullableBool |-> Echo(NullableBool),
   asyncNullableStatus |-> Echo(EnumOrNull(<<0, 1, 2>>))]

OwnListCalls ==
  [getStatusList |-> Pass(Void, Frame(List(TcStatus))),
   getEventList |-> Pass(Void, Frame(List(TcEvent)))]

NativeAsyncOptCalls ==
  [nativeAsyncNullableDouble |-> Echo(NullableDouble),
   nativeAsyncNullableBool |-> Echo(NullableBool),
   nativeAsyncStatus |-> Echo(TcStatus),
   nativeAsyncNullableStatus |-> Echo(EnumOrNull(<<0, 1, 2>>)),
   nativeAsyncNullableConfig |-> MaybeNull(TcConfig),
   nativeAsyncEchoOptionalConfig |-> MaybeNull(TcConfig)]
===============================================================================
