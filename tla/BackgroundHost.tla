---------------------------- MODULE BackgroundHost ----------------------------
(***************************************************************************)
(* The host side of @NitroEntryPoint, composed with the job table: the     *)
(* generated Kotlin (Android) and Swift (iOS) hosts start and destroy one  *)
(* headless engine per job and tell native callers when their job is done. *)
(*                                                                         *)
(* The starter and the done hook may be called from any thread; both hosts *)
(* pass the work on to the main thread, whose tasks run in order.  Swift   *)
(* keeps all of its state on the main queue; in Kotlin the thread inside   *)
(* runInBackground shares the maps with it.                                *)
(***************************************************************************)
EXTENDS BackgroundJobs

CONSTANTS
  Workers,      \* callers that use runInBackground / run with an onDone, or
                \* their waiting forms, runInBackgroundAndWait / async run
  Platforms,    \* the hosts: "android", "ios"
  MaxFinished   \* how many early results are kept (256 in the code)

ASSUME HostOK ==
  /\ Workers \subseteq Callers
  /\ Platforms \subseteq {"android", "ios"}
  /\ MaxFinished \in Nat

VARIABLES
  platform,   \* which host this is
  looper,     \* tasks of the main thread, oldest first
  main,       \* the task of the main thread that takes more than one step
  worker,     \* per worker: where it is after nitroBgRunString returned an id
  engines,    \* _bgEngines
  callbacks,  \* _bgCallbacks: jobs whose onDone waits
  finished,   \* _bgFinished: jobs that were done before their onDone was known
  wanted,     \* history: jobs whose caller passed an onDone and got its id
  dropped,    \* history: jobs whose early result was dropped at the limit
              \* before the waiting onDone could find it
  called,     \* per job, the errors onDone was called with: the latch and the
              \* result of a waiting caller, and a history of the others
  returned    \* history: per job, what its caller returned

hostVars == <<looper, main, worker, engines, callbacks, finished, wanted,
              dropped, called, returned>>
vars == <<jobs, pending, inflight, hosted, caller, runner, finish, inbox, late, told,
          platform, looper, main, worker, engines, callbacks, finished, wanted, dropped,
          called, returned>>

Free == [pc |-> "idle", job |-> NoJob]

Init ==
  /\ platform \in Platforms
  /\ JobsInit
  /\ looper = <<>>
  /\ main = Free
  /\ worker = [w \in Workers |-> Free]
  /\ engines = {}
  /\ callbacks = {}
  /\ finished = {}
  /\ wanted = {}
  /\ dropped = {}
  /\ called = [i \in Ids |-> <<>>]
  /\ returned = [i \in Ids |-> "none"]

-----------------------------------------------------------------------------
PostTask(t, i) == looper' = Append(looper, [task |-> t, job |-> i])

\* What onDone is told of a job.
ErrorOf(i) == IF finish[i].outcome = "error" THEN "error" ELSE "ok"

CallOnDone(i) == called' = [called EXCEPT ![i] = Append(@, ErrorOf(i))]

(* The table's own steps.  A worker submits native jobs and is busy until  *)
(* runInBackground returns.                                                *)
Table ==
  /\ \/ RegisterHost
     \/ \E c \in Callers :
          /\ c \in Workers => worker[c].pc = "idle"
          /\ \/ \E e \in Entries, kind \in Kinds :
                  Submit(c, e, kind) /\ (c \in Workers <=> kind = "native")
             \/ /\ platform = "ios" => ~caller[c].host
                /\ StartFallback(c) \/ StartRefused(c)
             \/ CancelRefused(c)
     \/ \E i \in Ids : Cancel(i) \/ PostOutcome(i) \/ IsolateStep(i)
  /\ UNCHANGED hostVars

(* nitroBgStart: the starter posts the start of the engine and returns 1;  *)
(* submit returns the id, and runInBackground goes on with it.             *)
HostStart(c) ==
  /\ StartOnHost(c)
  /\ PostTask("start", caller[c].job)
  /\ \/ /\ c \in Workers
        /\ worker' = [worker EXCEPT ![c] = [pc |-> "register", job |-> caller[c].job]]
        /\ wanted' = wanted \cup {caller[c].job}
     \/ c \notin Workers /\ UNCHANGED <<worker, wanted>>
  /\ UNCHANGED <<main, engines, callbacks, finished, dropped, called, returned>>

(* nitroBgDone: the done hook posts the end of the job.                    *)
HostDone(i) ==
  /\ NotifyDone(i)
  /\ IF hosted THEN PostTask("done", i) ELSE UNCHANGED looper
  /\ UNCHANGED <<main, worker, engines, callbacks, finished,
                 wanted, dropped, called, returned>>

-----------------------------------------------------------------------------
\* The main thread takes its next task.
Runs(t, i) ==
  /\ main.pc = "idle"
  /\ looper # <<>>
  /\ Head(looper) = [task |-> t, job |-> i]
  /\ looper' = Tail(looper)

MainStart(i) ==
  /\ Runs("start", i)
  /\ EngineUp(i)
  /\ engines' = engines \cup {i}
  /\ UNCHANGED <<main, worker, callbacks, finished, wanted, dropped, called, returned>>

(* Starting threw: nitroBgFail, on the main thread, ends when fail ends.   *)
(* FlutterEngineGroup on iOS cannot report that an engine did not start.   *)
MainStartFails(i) ==
  /\ platform = "android"
  /\ Runs("start", i)
  /\ EngineFails(i)
  /\ engines' = engines \ {i}
  /\ main' = [pc |-> "failing", job |-> i]
  /\ UNCHANGED <<worker, callbacks, finished, wanted, dropped, called, returned>>

MainFailed ==
  /\ main.pc = "failing"
  /\ finish[main.job].pc = "done"
  /\ main' = Free
  /\ UNCHANGED <<jobVars, looper, worker, engines, callbacks, finished,
                 wanted, dropped, called, returned>>

(* Keep an early result; drop all of them when too many were never claimed, *)
(* the ones whose onDone is only late included.                             *)
KeepResult(i) ==
  \/ /\ Cardinality(finished) > MaxFinished
     /\ finished' = {i}
     /\ dropped' = dropped \cup (finished \cap wanted)
  \/ /\ Cardinality(finished) <= MaxFinished
     /\ finished' = finished \cup {i}
     /\ UNCHANGED dropped

\* Mutant: reads the callback without removing it and always keeps the result.
MainDoneGets(i) ==
  /\ Runs("done", i)
  /\ engines' = engines \ {i}
  /\ KeepResult(i)
  /\ IF i \in callbacks THEN CallOnDone(i) ELSE UNCHANGED called
  /\ UNCHANGED <<jobVars, main, worker, callbacks, wanted, returned>>

\* Mutant: forgets to look for a callback and keeps the engine.
MainDoneForgetful(i) ==
  /\ Runs("done", i)
  /\ KeepResult(i)
  /\ UNCHANGED <<jobVars, main, worker, engines, callbacks, wanted, called, returned>>

(* The job is over: tear the engine down, call onDone if it is known, else *)
(* keep the result for it.  Two steps on Android, where a worker may look  *)
(* for the result between them; one block of the main queue on iOS.        *)
MainDone(i) ==
  /\ Runs("done", i)
  /\ engines' = engines \ {i}
  /\ callbacks' = callbacks \ {i}
  /\ \/ /\ i \in callbacks
        /\ CallOnDone(i)
        /\ UNCHANGED <<main, finished, dropped>>
     \/ /\ i \notin callbacks /\ platform = "ios"
        /\ KeepResult(i)
        /\ UNCHANGED <<main, called>>
     \/ /\ i \notin callbacks /\ platform = "android"
        /\ main' = [pc |-> "store", job |-> i]
        /\ UNCHANGED <<finished, dropped, called>>
  /\ UNCHANGED <<jobVars, worker, wanted, returned>>

MainStore ==
  /\ main.pc = "store"
  /\ KeepResult(main.job)
  /\ main' = Free
  /\ UNCHANGED <<jobVars, looper, worker, engines, callbacks, wanted, called, returned>>

MainDeliver(i) ==
  /\ Runs("deliver", i)
  /\ CallOnDone(i)
  /\ UNCHANGED <<jobVars, main, worker, engines, callbacks, finished,
                 wanted, dropped, returned>>

\* Mutant: leaves onDone without a look at the results.
MainRegisterBlind(i) ==
  /\ Runs("register", i)
  /\ callbacks' = callbacks \cup {i}
  /\ UNCHANGED <<jobVars, main, worker, engines, finished,
                 wanted, dropped, called, returned>>

\* iOS: the block that run posts looks for the result and else leaves onDone.
MainRegister(i) ==
  /\ Runs("register", i)
  /\ finished' = finished \ {i}
  /\ \/ i \in finished /\ CallOnDone(i) /\ UNCHANGED callbacks
     \/ i \notin finished /\ callbacks' = callbacks \cup {i} /\ UNCHANGED called
  /\ UNCHANGED <<jobVars, main, worker, engines, wanted, dropped, returned>>

\* destroy() ends the isolate of an engine that is no longer kept.
Destroyed(i) ==
  /\ i \notin engines
  /\ EngineDestroyed(i)
  /\ UNCHANGED hostVars

-----------------------------------------------------------------------------
\* onDone is on its way to be found.
Registered(w) == worker' = [worker EXCEPT ![w].pc = "wait"]

(* runInBackground, on its caller's thread: leave onDone in the map ...    *)
WorkerRegister(w) ==
  /\ worker[w].pc = "register"
  /\ \/ /\ platform = "android"
        /\ callbacks' = callbacks \cup {worker[w].job}
        /\ worker' = [worker EXCEPT ![w].pc = "check"]
        /\ UNCHANGED looper
     \/ /\ platform = "ios"
        /\ PostTask("register", worker[w].job)
        /\ Registered(w)
        /\ UNCHANGED callbacks
  /\ UNCHANGED <<jobVars, main, engines, finished, wanted, dropped, called, returned>>

(* ... then look whether the job finished already ...                      *)
WorkerCheck(w) ==
  /\ worker[w].pc = "check"
  /\ finished' = finished \ {worker[w].job}
  /\ IF worker[w].job \in finished
     THEN worker' = [worker EXCEPT ![w].pc = "early"] ELSE Registered(w)
  /\ UNCHANGED <<jobVars, looper, main, engines, callbacks,
                 wanted, dropped, called, returned>>

(* ... and then deliver, unless the main thread took the callback first.   *)
WorkerDeliver(w) ==
  /\ worker[w].pc = "early"
  /\ callbacks' = callbacks \ {worker[w].job}
  /\ IF worker[w].job \in callbacks THEN PostTask("deliver", worker[w].job)
     ELSE UNCHANGED looper
  /\ Registered(w)
  /\ UNCHANGED <<jobVars, main, engines, finished, wanted, dropped, called, returned>>

\* Mutant: one latch for all the calls, which a late answer opens as well.
LatchOpenedBy(w) == {i \in wanted : called[i] # <<>>}

\* The jobs whose onDone opens the latch that w waits for: its own.
LatchOf(w) == {i \in {worker[w].job} : called[i] # <<>>}

(* The latch opens: runInBackgroundAndWait, or the continuation, returns.  *)
WaitEnds(w) ==
  /\ worker[w].pc = "wait"
  /\ \E i \in LatchOf(w) :
       returned' = [returned EXCEPT ![worker[w].job] = Head(called[i])]
  /\ worker' = [worker EXCEPT ![w] = Free]
  /\ UNCHANGED <<jobVars, looper, main, engines, callbacks, finished,
                 wanted, dropped, called>>

(* A caller of the plain form goes on at once, latch.await on Android when *)
(* its time is up; onDone stays registered and may come later.             *)
Leaves(w) ==
  /\ worker[w].pc = "wait" /\ called[worker[w].job] = <<>>
  /\ returned' = [returned EXCEPT ![worker[w].job] = "left"]
  /\ worker' = [worker EXCEPT ![w] = Free]
  /\ UNCHANGED <<jobVars, looper, main, engines, callbacks, finished,
                 wanted, dropped, called>>

WorkerStep(w) ==
  WorkerRegister(w) \/ WorkerCheck(w) \/ WorkerDeliver(w) \/ WaitEnds(w)
MainStep ==
  \/ MainFailed \/ MainStore
  \/ \E i \in Ids : \/ MainStart(i) \/ MainStartFails(i) \/ MainDone(i)
                    \/ MainDeliver(i) \/ MainRegister(i)

Next ==
  /\ \/ Table
     \/ \E c \in Callers : HostStart(c)
     \/ \E i \in Ids : HostDone(i) \/ Destroyed(i)
     \/ MainStep
     \/ \E w \in Workers : WorkerStep(w) \/ Leaves(w)
  /\ UNCHANGED platform

Spec == Init /\ [][Next]_vars

Stays == UNCHANGED platform

\* The fairness of the table, a main thread that runs its tasks, and workers
\* that get through runInBackground.
Fairness ==
  /\ \A c \in Callers :
       WF_vars(/\ \/ HostStart(c)
                  \/ Table /\ (StartFallback(c) \/ StartRefused(c) \/ CancelRefused(c))
               /\ Stays)
  /\ \A i \in Ids : /\ WF_vars(Table /\ (Take(i) \/ TakeNothing(i)) /\ Stays)
                    /\ WF_vars(Table /\ EmitPost(i) /\ Stays)
                    /\ WF_vars(Table /\ Finish(i) /\ Stays)
                    /\ WF_vars(Table /\ PostOutcome(i) /\ Stays)
                    /\ WF_vars(HostDone(i) /\ Stays)
  /\ WF_vars(MainStep /\ Stays)
  /\ \A w \in Workers : WF_vars(WorkerStep(w) /\ Stays)

FairSpec == Spec /\ Fairness

-----------------------------------------------------------------------------
Waiting(t, i) == \E k \in DOMAIN looper : looper[k] = [task |-> t, job |-> i]

(* No engine outlives its job unnoticed: for every engine the job is still *)
(* active, or its end is on the way to the main thread.  The done hook may *)
(* be called by the isolate, the submitter or the main thread itself, and  *)
(* a job may be cancelled before its engine started.                       *)
EnginesAccountedFor ==
  \A i \in engines : Active(i) \/ finish[i].pc \in {"post", "notify"} \/ Waiting("done", i)

(* onDone is called at most once, only when the job is done, with the      *)
(* job's own outcome - although the main thread and the worker both look   *)
(* for the callback and for the result.                                    *)
OnDoneAtMostOnce ==
  \A i \in Ids : called[i] # <<>> =>
    i \in wanted /\ told[i] = 1 /\ called[i] = <<ErrorOf(i)>>

(* "[onDone] runs on the main thread once the job finished" (bridge.g.kt:  *)
(* 1616-1618; bridge.g.swift:1754-1756).                                   *)
OnDoneCalled == \A i \in Ids : i \in wanted ~> called[i] # <<>>

(* On iOS it is kept but for one case: the worker's block and the end of   *)
(* the job are both blocks of the main queue, and whichever comes second   *)
(* finds the first - unless the end came first and its result was dropped  *)
(* at the limit (bridge.g.swift:1739) before the worker's block ran.  That *)
(* onDone is never called, which the comment above it does not say.        *)
OnDoneCalledOnIos ==
  \A i \in Ids :
    (platform = "ios" /\ i \in wanted) ~> (called[i] # <<>> \/ i \in dropped)

(* "Returns once the job finished, with null on success or the error text  *)
(* on failure / timeout" (bridge.g.kt:1634-1636): a waiting caller returns *)
(* the outcome of its own job and only after it was over, also when an     *)
(* earlier call of the same caller gave up and is answered late.           *)
WaitReturnsOwn ==
  \A i \in Ids : returned[i] \in {"ok", "error"} =>
    told[i] = 1 /\ returned[i] = ErrorOf(i)

(* Every engine is torn down: "tear the engine down" is owed to each job.  *)
EnginesTornDown == \A i \in Ids : i \in engines ~> i \notin engines

=============================================================================
