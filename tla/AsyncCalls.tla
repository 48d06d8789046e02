----------------------------- MODULE AsyncCalls -----------------------------
(***************************************************************************)
(* Who owns the memory of a @nitroAsync call.  Dart encodes the argument   *)
(* into an arena of the call; <method>_dispatch makes the copy a worker    *)
(* reads; the export allocates the result; the result is posted, a text by *)
(* value and anything else as an address, and Dart frees what it decoded   *)
(* and, when the future is complete, the arena.  Three lists of records    *)
(* are decoded lazily, from the block itself, which a finalizer frees when *)
(* Dart has dropped the list.  The queue, the workers and the error slots  *)
(* are those of AsyncDispatch, of which every other step is a step.        *)
(*                                                                         *)
(* A @NitroNativeAsync call keeps nothing in this module: what it passes   *)
(* is the subject of WireCalls.                                            *)
(***************************************************************************)
EXTENDS AsyncDispatch, TLC

CONSTANTS Platforms,   \* the builds of the bridge: "jni", "cpp", "apple"
          Methods      \* the @nitroAsync methods the isolates use

Jni   == INSTANCE SyncJni
Cpp   == INSTANCE SyncCpp
Apple == INSTANCE SyncApple

NoMethod == "none"

\* Dart's arena, the job's copy of the argument (its lambda owns it), a struct
\* cloned with malloc for the job, and what an export gives.
Results     == {"text", "optional", "struct", "block"}
Allocations == {"arena", "copy", "clone"} \cup Results

-----------------------------------------------------------------------------
\* What <method>_dispatch copies, and how the end of its job posts a result: a
\* number by value, a text by value and then free, or an address.
Job(copies, posts) == [copies |-> copies, posts |-> posts]
ByNumber == Job({}, "number")
ByText   == Job({"copy"}, "text")
Framed   == Job({"copy"}, "address")

FirstJobs ==
     [m \in {"echoIntList", "echoDoubleList", "echoStringList",
             "echoConfigList", "asyncConfig", "asyncNullableInt",
             "asyncNullableDouble", "asyncNullableBool"} |-> Framed]
  @@ [m \in {"asyncInt", "asyncDouble", "asyncBool"} |-> ByNumber]
  @@ [m \in {"asyncString", "asyncNullableString"} |-> ByText]

LastJobs ==
     [m \in {"asyncPoint"} |-> Job({"clone"}, "address")]
  @@ [m \in {"asyncMeta", "echoConfigListSync", "echoListBool",
             "echoPointList", "asyncDeepRecord", "asyncEchoEvent"} |-> Framed]
  @@ [m \in {"throwNativeAsync", "nullableBytesLengthAsync"} |->
        Job({"copy"}, "number")]
  @@ [m \in {"asyncNullableStatus", "asyncIntOr", "asyncDateTime"} |-> ByNumber]

Jobs == FirstJobs @@ LastJobs

\* What the Dart method allocates for its argument, what it frees of the result
\* and what it keeps for a list decoded lazily, and which address of a result it
\* takes for null: one that is 0, or none, where only a message without an address
\* is refused.
Await(arena, frees, zero) ==
  [arena |-> arena, frees |-> frees, keeps |-> {}, zero |-> zero]
Plain    == Await({}, {}, "number")
Passed   == Await({"arena"}, {}, "number")
Decoded  == Await({"arena"}, {"block"}, "read")
Lazy     == [Decoded EXCEPT !.frees = {}, !.keeps = {"block"}]
Optional == Await({"arena"}, {"optional"}, "null")

FirstAwaits ==
     [m \in {"echoIntList", "echoDoubleList", "echoStringList", "asyncConfig",
             "asyncMeta"} |-> Decoded]
  @@ [m \in {"echoConfigList"} |-> Lazy]
  @@ [m \in {"asyncInt", "asyncDouble", "asyncBool", "asyncNullableStatus"} |-> Plain]
  @@ [m \in {"asyncString", "asyncNullableString"} |-> Passed]
  @@ [m \in {"asyncNullableInt", "asyncNullableDouble", "asyncNullableBool"} |-> Optional]
  @@ [m \in {"asyncPoint"} |-> Await({"arena"}, {"struct"}, "read")]

LaterAwaits ==
     [m \in {"echoListBool", "asyncDeepRecord", "asyncEchoEvent"} |-> Decoded]
  @@ [m \in {"echoConfigListSync", "echoPointList"} |-> Lazy]
  @@ [m \in {"throwNativeAsync", "nullableBytesLengthAsync"} |-> Passed]
  @@ [m \in {"asyncIntOr", "asyncDateTime"} |-> Plain]

Awaits == FirstAwaits @@ LaterAwaits

\* What the export of m gives.
Gives(p, m) ==
  CASE p = "jni"   -> Jni!JniAsyncExports[m].gives
    [] p = "cpp"   -> Cpp!CppExports[m]
    [] p = "apple" -> Apple!AppleExports[m]

\* The export may come back with a null pointer and no error: of the nullable text
\* where null is one, and in Swift when there is no implementation or it threw,
\* since `try?` drops the error.
MayGiveNull(p, m) ==
  \/ p # "apple" /\ m = "asyncNullableString"
  \/ p = "apple" /\ Gives(p, m) \cap {"struct", "block"} # {}

ASSUME MethodsAssumption ==
  /\ NoMethod \notin Methods /\ Methods \subseteq DOMAIN Jobs
  /\ Platforms \subseteq {"jni", "cpp", "apple"}

\* Dispatch, export and Dart agree, export by export: what a job copies is its own,
\* a text is posted by value exactly when the export makes one, and Dart frees,
\* or leaves to a finalizer, exactly the rest of what the export gives.
ASSUME AsyncTablesAgree ==
  \A p \in Platforms, m \in DOMAIN Jobs :
    /\ Jobs[m].copies \subseteq {"copy", "clone"}
    /\ Awaits[m].arena \subseteq {"arena"}
    /\ Awaits[m].frees \cup Awaits[m].keeps \subseteq Results \ {"text"}
    /\ Awaits[m].frees \cap Awaits[m].keeps = {}
    /\ Gives(p, m) = Awaits[m].frees \cup Awaits[m].keeps
                     \cup (IF Jobs[m].posts = "text" THEN {"text"} ELSE {})

-----------------------------------------------------------------------------
VARIABLES
  platform, \* the build of the bridge
  method,   \* history: per call, its @nitroAsync method
  held,     \* per call, what is allocated for it and not freed
  lists,    \* the calls whose result is a lazy list that Dart still has
  null,     \* the calls whose export came back with a null pointer
  misused,  \* history: the calls that read or freed what was not allocated
  crashed   \* Dart read through a null pointer

ledger == <<platform, method, held, lists, null, misused, crashed>>
callVars == <<made, throws, slot, queue, caller, worker, thread, inbox, answer,
              freed, platform, method, held, lists, null, misused, crashed>>

CallTypeOK ==
  /\ platform \in Platforms
  /\ method \in [Calls -> Methods \cup {NoMethod}]
  /\ held \in [Calls -> SUBSET Allocations]
  /\ lists \subseteq Calls
  /\ null \subseteq Calls
  /\ misused \subseteq Calls
  /\ crashed \in BOOLEAN

CallInit ==
  /\ Init
  /\ platform \in Platforms
  /\ method = [n \in Calls |-> NoMethod]
  /\ held = [n \in Calls |-> {}]
  /\ lists = {}
  /\ null = {}
  /\ misused = {}
  /\ crashed = FALSE

Arguments(m) == Awaits[m].arena \cup Jobs[m].copies

\* Allocations of call n that are used now, and the ones that are freed.
Uses(n, used) == misused' = IF used \subseteq held[n] THEN misused ELSE misused \cup {n}
Frees(n, gone) == held' = [held EXCEPT ![n] = @ \ gone]

\* hasError, of the record the job has moved to the slot.
Failed(n) == slot[n].text # NoCall

-----------------------------------------------------------------------------
(* The Dart method encodes into its arena and calls <method>_dispatch, which *)
(* copies what the job is to read and enqueues it.                           *)
CallPool(i, n, m) ==
  /\ Dispatch(i, n)
  /\ method' = [method EXCEPT ![n] = m]
  /\ held' = [held EXCEPT ![n] = Arguments(m)]
  /\ UNCHANGED <<platform, lists, null, misused, crashed>>

\* Mutant: the clone of a struct is released only behind the error's return.
RunExportReturnsEarly(w) ==
  LET n == worker[w].call  m == method[n] IN
  /\ Run(w)
  /\ Uses(n, Jobs[m].copies)
  /\ \/ worker'[w].pc = "move" /\ UNCHANGED <<held, null>>
     \/ /\ worker'[w].pc = "post"
        /\ held' = [held EXCEPT ![n] = (@ \ {"clone"}) \cup Gives(platform, m)]
        /\ UNCHANGED null
     \/ /\ worker'[w].pc = "post" /\ MayGiveNull(platform, m)
        /\ Frees(n, {"clone"})
        /\ null' = null \cup {n}
  /\ UNCHANGED <<platform, method, lists, crashed>>

(* The job runs the export on its copy and releases a cloned struct; the    *)
(* export has reported an error and gives nothing, or gives a result, or    *)
(* null.                                                                    *)
RunExport(w) ==
  LET n == worker[w].call  m == method[n] IN
  /\ Run(w)
  /\ Uses(n, Jobs[m].copies)
  /\ \/ worker'[w].pc = "move" /\ Frees(n, {"clone"}) /\ UNCHANGED null
     \/ /\ worker'[w].pc = "post"
        /\ held' = [held EXCEPT ![n] = (@ \ {"clone"}) \cup Gives(platform, m)]
        /\ UNCHANGED null
     \/ /\ worker'[w].pc = "post" /\ MayGiveNull(platform, m)
        /\ Frees(n, {"clone"})
        /\ null' = null \cup {n}
  /\ UNCHANGED <<platform, method, lists, crashed>>

\* What a job frees once it has posted: the text (_nitro_post_str_owned), ...
PostFrees(n) ==
  IF Failed(n) \/ n \in null \/ Jobs[method[n]].posts # "text" THEN {} ELSE {"text"}

\* Mutant: every result is freed once it is posted, as a text is.
PostResultOwned(w) ==
  LET n == worker[w].call
      gone == IF Failed(n) \/ n \in null THEN {} ELSE Gives(platform, method[n]) IN
  /\ Post(w)
  /\ Uses(n, gone)
  /\ Frees(n, gone \cup {"copy"})
  /\ UNCHANGED <<platform, method, lists, null, crashed>>

(* ... and, at its end, its own copy of the argument.                       *)
PostResult(w) ==
  LET n == worker[w].call IN
  /\ Post(w)
  /\ Uses(n, PostFrees(n))
  /\ Frees(n, PostFrees(n) \cup {"copy"})
  /\ UNCHANGED <<platform, method, lists, null, crashed>>

\* unpack has an address and it is 0, which only optionals are checked for.
ReadsNull(n) ==
  ~Failed(n) /\ n \in null /\ Awaits[method[n]].zero = "read"

\* What a lazy list reads, for as long as Dart has it.
Listed(n) == IF n \in lists THEN Awaits[method[n]].keeps ELSE {}

(* The future's handler: unpack throws what the slot holds, or decodes the  *)
(* result and frees it, or makes a list that owns it; the arena is released *)
(* behind the await.                                                        *)
CompleteFuture(i) ==
  LET n == Head(inbox[i])
      value == method[n] # NoMethod /\ ~Failed(n) /\ n \notin null
      gone == IF value THEN Awaits[method[n]].frees ELSE {}
      arena == IF method[n] = NoMethod THEN {} ELSE Awaits[method[n]].arena IN
  /\ Answer(i)
  /\ method[n] # NoMethod => ~ReadsNull(n)
  /\ Uses(n, gone \cup arena)
  /\ Frees(n, gone \cup arena)
  /\ lists' = IF value /\ Awaits[method[n]].keeps # {} THEN lists \cup {n} ELSE lists
  /\ UNCHANGED <<platform, method, null, crashed>>

(* Dart has no reference to a lazy list any more, and its finalizer frees   *)
(* the block the list was read from.  When is the collector's choice.       *)
Collect(n) ==
  /\ n \in lists
  /\ Uses(n, Listed(n))
  /\ Frees(n, Listed(n))
  /\ lists' = lists \ {n}
  /\ UNCHANGED <<vars, platform, method, null, crashed>>

(* ... or unpack reads through a null pointer, and the process is over.     *)
ReadNull(i) ==
  LET n == Head(inbox[i]) IN
  /\ caller[i] = "idle" /\ inbox[i] # <<>>
  /\ method[n] # NoMethod /\ ReadsNull(n)
  /\ crashed' = TRUE
  /\ UNCHANGED <<vars, platform, method, held, lists, null, misused>>

\* The steps of the pool, and of a @NitroNativeAsync call, that own nothing.
OtherStep ==
  /\ \/ \E i \in Isolates : Notify(i) \/ \E n \in Calls : CallDetached(i, n)
     \/ \E w \in Workers : Look(w) \/ Sleep(w) \/ MoveError(w)
     \/ \E n \in Calls : ThreadStep(n)
  /\ UNCHANGED ledger

CallNext ==
  /\ ~crashed
  /\ \/ \E i \in Isolates : \/ \E n \in Calls, m \in Methods : CallPool(i, n, m)
                            \/ CompleteFuture(i) \/ ReadNull(i)
     \/ \E w \in Workers : RunExport(w) \/ PostResult(w)
     \/ \E n \in Calls : Collect(n)
     \/ OtherStep

CallSpec == CallInit /\ [][CallNext]_callVars

\* Threads run, enqueue returns, isolates handle their messages.  Nobody owes the
\* collection of a list.
CallFairness ==
  /\ \A i \in Isolates :
       /\ WF_callVars(~crashed /\ Notify(i) /\ UNCHANGED ledger)
       /\ WF_callVars(~crashed /\ (CompleteFuture(i) \/ ReadNull(i)))
  /\ \A w \in Workers :
       WF_callVars(/\ ~crashed
                   /\ \/ RunExport(w) \/ PostResult(w)
                      \/ (Look(w) \/ Sleep(w) \/ MoveError(w)) /\ UNCHANGED ledger)
  /\ \A n \in Calls : WF_callVars(~crashed /\ ThreadStep(n) /\ UNCHANGED ledger)

FairCallSpec == CallSpec /\ CallFairness

-----------------------------------------------------------------------------
\* Whatever a call's job reads or frees, and whatever Dart or a list's finalizer
\* reads or frees of its result and its arena, was allocated for the call and not
\* yet freed: no second free of a result that is posted by value, or by a finalizer
\* after the future's handler, no argument that is gone when the worker gets to it.
OwnersAgree == misused = {}

\* A call that is answered keeps nothing but what a lazy list that Dart still has
\* reads (LazyRecordList of ffi.g.dart, nativeFree): result, copies and arena are
\* freed with a value, with an error and with null, on every build, and the block
\* of a list has an owner that will free it.
NothingKept == \A n \in Calls : answer[n] # <<>> => held[n] = Listed(n)

\* Every call is answered, unless Dart has read through a null: no notification is
\* lost that a job needs, no worker stops, no message stays behind.
EveryCallEnds == \A n \in Calls : slot[n].state = "live" ~> (answer[n] # <<>> \/ crashed)
=============================================================================
