------------------------------- MODULE WireSwift -------------------------------
(***************************************************************************)
(* The layouts of the Swift side: fromReader and writeFields of the structs*)
(* and of TcEvent, and what the functions called by the bridge read from   *)
(* the pointer they get and return.  Maps go through one codec that writes *)
(* by the type of the value and reads by the tag, and dictionaries have no *)
(* order; the size of a result's payload is taken from its first byte.     *)
(***************************************************************************)
EXTENDS WireFormat

TcStatus  == Enum(<<0, 1, 2>>)        \* rawValue
StatusIndex == Enum(<<0, 1, 2>>)      \* rawValue
TcPriority == Enum(<<0, 100, 200>>)

NullableInt    == Packed(I64)
NullableDouble == Packed(F64)
NullableBool   == Packed(Bool)

TcPoint  == Rec(<<<<"x", F64>>, <<"y", F64>>, <<"z", F64>>>>)

TcConfig == Rec(<<<<"name", Str>>, <<"count", I64>>, <<"enabled", Bool>>,
                  <<"threshold", F64>>>>)

TcMeta   == Rec(<<<<"version", I64>>, <<"weight", F64>>, <<"active", Bool>>,
                  <<"label", Str>>>>)

TcPacket == Rec(<<<<"name", Str>>, <<"sequence", I64>>, <<"status", TcStatus>>,
                  <<"valid", Bool>>>>)

TcNested == Rec(<<<<"label", Str>>, <<"config", TcConfig>>, <<"version", I64>>>>)

TcNullableWrapper == Rec(<<<<"count", NullableInt>>, <<"rate", NullableDouble>>,
                           <<"name", Str>>>>)

TcDataRecord == Rec(<<<<"bytes", Blob(1)>>, <<"values", Blob(4)>>,
                      <<"scores", Blob(8)>>, <<"label", Str>>>>)

TcStructHolder == Rec(<<<<"label", Str>>, <<"origin", TcPoint>>, <<"radius", F64>>>>)

TcDeepRecord == Rec(<<<<"label", Str>>, <<"nested", TcNested>>, <<"depth", I64>>>>)

TcPair == Rec(<<<<"first", I64>>, <<"second", Str>>>>)

TcEvent == Variant(<<
  Rec(<<<<"x", I64>>, <<"y", I64>>>>),
  Rec(<<<<"delta", F64>>>>),
  Rec(<<<<"width", I64>>, <<"height", I64>>>>),
  Rec(<<<<"count", Opt(I64)>>, <<"status", Opt(StatusIndex)>>,
        <<"config", Opt(TcConfig)>>, <<"samples", Opt(List(I64))>>>>)>>)

NitroAnyMap == Frame(Dict(AnyValue(<<"null", "bool", "int", "double", "string",
                                     "list", "object">>), FALSE))

-----------------------------------------------------------------------------
Item(x)         == Echo(Frame(x))
MaybeNull(x)    == Echo(Ptr(Frame(x)))
IndexedParam(x) == Pass(Frame(Indexed(x, FALSE)), Frame(List(x)))

RecordList(x)   == Item(Indexed(x, FALSE))
MapOf(tag, x)   == Item(Dict(Tagged(tag, x, FALSE, TRUE), FALSE))
OptMap(tag, x)  == Item(Dict(Tagged(tag, x, TRUE, TRUE), FALSE))
Result(x)       == Pass(Void, Variant(<<ShortFrame(x), ShortFrame(Str)>>))

OptCalls ==
  [echoNullableInt |-> Echo(NullableInt), echoNullableDouble |-> Echo(NullableDouble),
   echoNullableBool |-> Echo(NullableBool)]

ListCalls ==
  [echoIntList |-> IndexedParam(I64), echoDoubleList |-> IndexedParam(F64),
   echoStringList |-> IndexedParam(Str), echoConfigList |-> RecordList(TcConfig)]

RecordCalls ==
  [echoConfig |-> Item(TcConfig), echoMeta |-> Item(TcMeta),
   echoNullableIntSafe |-> Item(NullableInt),
   echoNullableDoubleSafe |-> Item(NullableDouble),
   echoNullableBoolSafe |-> Item(NullableBool), echoDataRecord |-> Item(TcDataRecord)]

MapCalls ==
  [echoIntMap |-> MapOf(1, I64), echoStringMap |-> MapOf(4, Str),
   echoDoubleMap |-> MapOf(2, F64), echoBoolMap |-> MapOf(3, Bool)]

RecordMapCalls ==
  [echoConfigMap |-> MapOf(5, Frame(Frame(TcConfig))),
   echoEventMap |-> MapOf(5, Frame(Frame(TcEvent)))]

OptMapCalls ==
  [echoNullableIntMap |-> OptMap(1, I64), echoNullableDoubleMap |-> OptMap(2, F64),
   echoNullableBoolMap |-> OptMap(3, Bool), echoNullableStringMap |-> OptMap(4, Str)]

MoreRecordCalls ==
  [echoPacket |-> Item(TcPacket), echoNested |-> Item(TcNested),
   echoNullableWrapper |-> Item(TcNullableWrapper),
   echoStructHolder |-> Item(TcStructHolder)]

MoreListCalls ==
  [echoListBool |-> IndexedParam(Bool), echoPointList |-> RecordList(TcPoint)]

VariantCalls ==
  [echoEvent |-> Item(TcEvent), echoDeepRecord |-> Item(TcDeepRecord),
   asyncDeepRecord |-> Item(TcDeepRecord), asyncEchoEvent |-> Item(TcEvent),
   validateLabel |-> Result(Str), safeDiv |-> Result(F64),
   asyncValidateLabel |-> Result(Str), asyncSafeDiv |-> Result(F64)]

ConfigResultCalls == [getConfigOrFail |-> Result(TcConfig)]

EnumListCalls ==
  [echoStatusList |-> Item(List(TcStatus)), echoEventList |-> Item(List(TcEvent))]

NativeAsyncRecordCalls ==
  [nativeAsyncNullableInt |-> Echo(NullableInt), nativeAsyncConfig |-> Item(TcConfig),
   nativeAsyncEvent |-> Item(TcEvent)]

NativeAsyncListCalls ==
  [nativeAsyncConfigList |-> RecordList(TcConfig),
   nativeAsyncStatusList |-> Item(List(TcStatus)),
   nativeAsyncEventList |-> Item(List(TcEvent)),
   nativeAsyncIntList |-> IndexedParam(I64)]

NativeAsyncMapCalls ==
  [nativeAsyncCounts |-> Pass(Void, Frame(Dict(Tagged(1, I64, FALSE, TRUE), FALSE))),
   nativeAsyncEchoIntMap |-> MapOf(1, I64), nativeAsyncEchoAnyMap |-> Echo(NitroAnyMap)]

PairCalls ==
  [echoPair |-> Item(TcPair), echoNullablePair |-> MaybeNull(TcPair),
   echoNullableConfig |-> MaybeNull(TcConfig)]

EnumCalls ==
  [echoStatus |-> Echo(TcStatus), echoNullableStatus |-> Echo(EnumOrNull(<<0, 1, 2>>)),
   echoPriority |-> Echo(TcPriority)]

AsyncCalls ==
  [asyncConfig |-> Item(TcConfig), asyncMeta |-> Item(TcMeta),
   echoConfigListSync |-> RecordList(TcConfig),
   asyncNullableInt |-> Echo(NullableInt), asyncNullableDouble |-> Echo(NullableDouble),
   asyncNullableBool |-> Echo(NullableBool),
   asyncNullableStatus |-> Echo(EnumOrNull(<<0, 1, 2>>))]

OwnListCalls ==
  [getStatusList |-> Pass(Void, Frame(List(TcStatus))),
   getEventList |-> Pass(Void, Frame(List(TcEvent)))]

NativeAsyncOptCalls ==
  [nativeAsyncNullableDouble |-> Echo(NullableDouble),
   nativeAsyncNullableBool |-> Echo(NullableBool),
   nativeAsyncStatus |-> Echo(TcStatus),
   nativeAsyncNullableStatus |-> Echo(EnumOrNull(<<0, 1, 2>>)),
   nativeAsyncNullableConfig |-> MaybeNull(TcConfig),
   nativeAsyncEchoOptionalConfig |-> MaybeNull(TcConfig)]
===============================================================================
