---------------------------- MODULE MCAsyncCalls ----------------------------
(* AsyncCalls with a method of every kind: the kinds differ in what the job *)
(* copies, how it posts, and what Dart frees, keeps and tests.              *)
EXTENDS AsyncCalls

MCMethods == {"asyncInt", "throwNativeAsync", "asyncNullableString",
              "asyncNullableInt", "asyncConfig", "echoConfigList", "asyncPoint"}

\* Every method behaves as one of them.
ASSUME EveryKind ==
  \A m \in DOMAIN Jobs : \E k \in MCMethods :
    /\ Jobs[m] = Jobs[k] /\ Awaits[m] = Awaits[k]
    /\ \A p \in Platforms : /\ Gives(p, m) = Gives(p, k)
                            /\ MayGiveNull(p, m) => MayGiveNull(p, k)
=============================================================================
