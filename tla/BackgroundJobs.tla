---------------------------- MODULE BackgroundJobs ----------------------------
(***************************************************************************)
(* NitroBgTable (src/src/native/nitro_background.h), the process-wide job  *)
(* table behind @NitroEntryPoint, with the threads around it: callers that *)
(* submit jobs (Dart isolates, or native code through runNative), the      *)
(* background isolates that take and finish them, and the host hooks.      *)
(*                                                                         *)
(* Every method of the table takes its mutex for one step and makes its    *)
(* calls (starter, Dart_PostCObject, done) after releasing it, so a method *)
(* is as many actions here as it has such steps.  The host that starts and *)
(* destroys engines is left open: BackgroundHost puts one in its place.    *)
(***************************************************************************)
EXTENDS Integers, Sequences, FiniteSets

CONSTANTS
  Callers,       \* threads that submit jobs
  Entries,       \* entry points
  MaxJobs,       \* bound: jobs submitted
  MaxItems,      \* bound: items a stream job emits
  HostPassesId   \* hosts pass the job id to the engine (FALSE: it asks for 0)

ASSUME JobsOK == MaxJobs \in Nat /\ MaxItems \in Nat /\ HostPassesId \in BOOLEAN

Ids   == 1 .. MaxJobs
Kinds == {"future", "stream", "native"}
NoJob == 0

VARIABLES
  jobs,       \* history: the job submitted with each id, next_ is Len(jobs) + 1
  pending,    \* pending_: ids, oldest first
  inflight,   \* inflight_: ids
  hosted,     \* starter_ and done_ are registered
  caller,     \* per caller: the job it submitted and the starter it captured
  runner,     \* per job: the isolate started for it, and the job it took
  finish,     \* per job: how far the method that popped it has come
  inbox,      \* history: messages posted to the port of a job
  late,       \* history: items posted to it once the job was over
  told        \* history: calls of the host's done hook for a job

tableVars == <<jobs, pending, inflight>>
jobVars == <<jobs, pending, inflight, hosted, caller, runner, finish, inbox, late,
             told>>

AtRest == [pc |-> "idle", job |-> NoJob, host |-> FALSE]
NoRunner == [pc |-> "none", job |-> NoJob, engine |-> FALSE]
NotOver == [pc |-> "no", outcome |-> "none"]

CallerRecs == [pc : {"idle", "start", "cancel"}, job : {NoJob} \cup Ids, host : BOOLEAN]
RunnerRecs == [pc : {"none", "asked", "started", "running", "sending", "gone"},
               job : {NoJob} \cup Ids, engine : BOOLEAN]
FinishRecs == [pc : {"no", "post", "notify", "done"},
               outcome : {"none", "result", "error", "end", "cancel"}]

TypeOK ==
  /\ jobs \in Seq([entry : Entries, kind : Kinds]) /\ Len(jobs) <= MaxJobs
  /\ pending \in Seq(Ids)
  /\ inflight \subseteq Ids
  /\ hosted \in BOOLEAN
  /\ caller \in [Callers -> CallerRecs]
  /\ runner \in [Ids -> RunnerRecs]
  /\ finish \in [Ids -> FinishRecs]
  /\ inbox \in [Ids -> Seq({"item", "result", "error", "end"})]
  /\ late \in [Ids -> Nat]
  /\ told \in [Ids -> Nat]

JobsInit ==
  /\ jobs = <<>>
  /\ pending = <<>>
  /\ inflight = {}
  /\ hosted = FALSE
  /\ caller = [c \in Callers |-> AtRest]
  /\ runner = [i \in Ids |-> NoRunner]
  /\ finish = [i \in Ids |-> NotOver]
  /\ inbox = [i \in Ids |-> <<>>]
  /\ late = [i \in Ids |-> 0]
  /\ told = [i \in Ids |-> 0]

-----------------------------------------------------------------------------
Queued(i) == \E k \in DOMAIN pending : pending[k] = i
Active(i) == Queued(i) \/ i \in inflight

\* activeCount
ActiveCount == Len(pending) + Cardinality(inflight)

\* pending_.erase(it)
Erase(k) == pending' = SubSeq(pending, 1, k - 1) \o SubSeq(pending, k + 1, Len(pending))

\* Mutant: pop copies a job that is in flight but leaves it there.
PopKeeps(i, outcome) ==
  /\ Active(i)
  /\ \/ i \in inflight /\ UNCHANGED <<pending, inflight>>
     \/ /\ i \notin inflight
        /\ \E k \in DOMAIN pending : pending[k] = i /\ Erase(k)
        /\ UNCHANGED inflight
  /\ finish' = [finish EXCEPT ![i] = [pc |-> "post", outcome |-> outcome]]

\* pop: whoever finishes a job first removes it, taken or not; the rest of
\* its method (post, then done) follows outside the mutex.
Pop(i, outcome) ==
  /\ \/ i \in inflight /\ inflight' = inflight \ {i} /\ UNCHANGED pending
     \/ /\ i \notin inflight
        /\ \E k \in DOMAIN pending : pending[k] = i /\ Erase(k)
        /\ UNCHANGED inflight
  /\ finish' = [finish EXCEPT ![i] = [pc |-> "post", outcome |-> outcome]]

\* A method that finds the job gone returns false and does nothing.
PopFails(i) == ~Active(i) /\ UNCHANGED <<pending, inflight, finish>>

-----------------------------------------------------------------------------
RegisterHost ==
  /\ ~hosted
  /\ hosted' = TRUE
  /\ UNCHANGED <<jobs, pending, inflight, caller, runner, finish, inbox, late, told>>

(* submit, under the mutex.  runNative comes here once it has seen a host. *)
Submit(c, e, kind) ==
  /\ caller[c].pc = "idle"
  /\ Len(jobs) < MaxJobs
  /\ kind = "native" => hosted
  /\ jobs' = Append(jobs, [entry |-> e, kind |-> kind])
  /\ pending' = Append(pending, Len(jobs) + 1)
  /\ caller' = [caller EXCEPT ![c] =
                  [pc |-> "start", job |-> Len(jobs) + 1, host |-> hosted]]
  /\ UNCHANGED <<inflight, hosted, runner, finish, inbox, late, told>>

(* ... then the captured starter: the host will run an engine for the job. *)
StartOnHost(c) ==
  /\ caller[c].pc = "start"
  /\ caller[c].host
  /\ runner' = [runner EXCEPT ![caller[c].job] =
                  [pc |-> "asked", job |-> NoJob, engine |-> TRUE]]
  /\ caller' = [caller EXCEPT ![c] = AtRest]
  /\ UNCHANGED <<jobs, pending, inflight, hosted, finish, inbox, late, told>>

(* No starter, or it returned 0: Dart runs the wrapper on an isolate ...   *)
StartFallback(c) ==
  /\ caller[c].pc = "start"
  /\ jobs[caller[c].job].kind # "native"
  /\ runner' = [runner EXCEPT ![caller[c].job] =
                  [pc |-> "started", job |-> NoJob, engine |-> FALSE]]
  /\ caller' = [caller EXCEPT ![c] = AtRest]
  /\ UNCHANGED <<jobs, pending, inflight, hosted, finish, inbox, late, told>>

\* Mutant: runNative returns -1 and leaves its job in the queue.
StartRefusedKept(c) ==
  /\ caller[c].pc = "start"
  /\ jobs[caller[c].job].kind = "native"
  /\ caller' = [caller EXCEPT ![c] = AtRest]
  /\ UNCHANGED <<jobs, pending, inflight, hosted, runner, finish, inbox, late, told>>

(* ... and runNative, which has nobody to run it, takes the job back.      *)
StartRefused(c) ==
  /\ caller[c].pc = "start"
  /\ jobs[caller[c].job].kind = "native"
  /\ caller' = [caller EXCEPT ![c].pc = "cancel"]
  /\ UNCHANGED <<jobs, pending, inflight, hosted, runner, finish, inbox, late, told>>

CancelRefused(c) ==
  /\ caller[c].pc = "cancel"
  /\ Pop(caller[c].job, "cancel") \/ PopFails(caller[c].job)
  /\ caller' = [caller EXCEPT ![c] = AtRest]
  /\ UNCHANGED <<jobs, hosted, runner, inbox, late, told>>

(* The submitter of a stream closes it: submit has returned the id.        *)
Cancel(i) ==
  /\ i \in DOMAIN jobs
  /\ jobs[i].kind = "stream"
  /\ \A c \in Callers : caller[c].job # i
  /\ Pop(i, "cancel")
  /\ UNCHANGED <<jobs, hosted, caller, runner, inbox, late, told>>

-----------------------------------------------------------------------------
(* The host: an engine comes up at the entry wrapper, or cannot be started *)
(* and the host fails the job, or is destroyed once done was called.       *)
EngineUp(i) ==
  /\ runner[i].pc = "asked"
  /\ runner' = [runner EXCEPT ![i].pc = "started"]
  /\ UNCHANGED <<jobs, pending, inflight, hosted, caller, finish, inbox, late, told>>

EngineFails(i) ==
  /\ runner[i].pc = "asked"
  /\ runner' = [runner EXCEPT ![i].pc = "gone"]
  /\ Pop(i, "error") \/ PopFails(i)
  /\ UNCHANGED <<jobs, hosted, caller, inbox, late, told>>

EngineDestroyed(i) ==
  /\ told[i] > 0
  /\ runner[i].engine
  /\ runner[i].pc \in {"started", "running"}
  /\ runner' = [runner EXCEPT ![i].pc = "gone"]
  /\ UNCHANGED <<jobs, pending, inflight, hosted, caller, finish, inbox, late, told>>

-----------------------------------------------------------------------------
\* Mutant: the isolate takes whatever is oldest for its entry.
FitsAny(i, k) == jobs[pending[k]].entry = jobs[i].entry

\* The place in the queue of the job that the isolate of job i may take: its
\* own, or when it asks with id 0 the oldest of its entry.
Fits(i, k) == IF HostPassesId \/ ~runner[i].engine THEN pending[k] = i
              ELSE jobs[pending[k]].entry = jobs[i].entry

Takes(i, k) == Fits(i, k) /\ \A m \in 1 .. k - 1 : ~Fits(i, m)

\* Mutant: a taken job stays in the queue.
TakeKeeps(i) ==
  /\ runner[i].pc = "started"
  /\ \E k \in DOMAIN pending :
       /\ Takes(i, k)
       /\ inflight' = inflight \cup {pending[k]}
       /\ runner' = [runner EXCEPT ![i].pc = "running", ![i].job = pending[k]]
  /\ UNCHANGED <<jobs, pending, hosted, caller, finish, inbox, late, told>>

(* take: from the queue to in flight ...                                   *)
Take(i) ==
  /\ runner[i].pc = "started"
  /\ \E k \in DOMAIN pending :
       /\ Takes(i, k)
       /\ Erase(k)
       /\ inflight' = inflight \cup {pending[k]}
       /\ runner' = [runner EXCEPT ![i].pc = "running", ![i].job = pending[k]]
  /\ UNCHANGED <<jobs, hosted, caller, finish, inbox, late, told>>

(* ... or nothing left to take: the isolate ends.                          *)
TakeNothing(i) ==
  /\ runner[i].pc = "started"
  /\ \A k \in DOMAIN pending : ~Fits(i, k)
  /\ runner' = [runner EXCEPT ![i].pc = "gone"]
  /\ UNCHANGED <<jobs, pending, inflight, hosted, caller, finish, inbox, late, told>>

Items(j) == Len(SelectSeq(inbox[j], LAMBDA m : m = "item"))

\* Mutant: emit does not look whether the job is still in flight.
EmitUnchecked(i) ==
  /\ runner[i].pc = "running"
  /\ jobs[runner[i].job].kind = "stream"
  /\ Items(runner[i].job) < MaxItems
  /\ runner' = [runner EXCEPT ![i].pc = "sending"]
  /\ UNCHANGED <<jobs, pending, inflight, hosted, caller, finish, inbox, late, told>>

(* emit: read the port under the mutex while the job is in flight ...      *)
Emit(i) ==
  /\ runner[i].pc = "running"
  /\ jobs[runner[i].job].kind = "stream"
  /\ Items(runner[i].job) < MaxItems
  /\ runner[i].job \in inflight
  /\ runner' = [runner EXCEPT ![i].pc = "sending"]
  /\ UNCHANGED <<jobs, pending, inflight, hosted, caller, finish, inbox, late, told>>

(* ... and post the item after leaving it.                                 *)
EmitPost(i) ==
  LET j == runner[i].job IN
  /\ runner[i].pc = "sending"
  /\ inbox' = [inbox EXCEPT ![j] = Append(@, "item")]
  /\ late' = IF finish[j].pc = "no" THEN late ELSE [late EXCEPT ![j] = @ + 1]
  /\ runner' = [runner EXCEPT ![i].pc = "running"]
  /\ UNCHANGED <<jobs, pending, inflight, hosted, caller, finish, told>>

\* The methods that end a job of a kind.
Outcomes(kind) == IF kind = "stream" THEN {"end", "error"} ELSE {"result", "error"}

\* Mutant: completes, posts and notifies whether or not pop found the job.
FinishAnyway(i) ==
  LET j == runner[i].job IN
  /\ runner[i].pc = "running"
  /\ inflight' = inflight \ {j}
  /\ \E o \in Outcomes(jobs[j].kind) :
       finish' = [finish EXCEPT ![j] = [pc |-> "post", outcome |-> o]]
  /\ runner' = [runner EXCEPT ![i].pc = "gone"]
  /\ UNCHANGED <<jobs, pending, hosted, caller, inbox, late, told>>

(* complete, end or fail by the isolate: its last call.                    *)
Finish(i) ==
  LET j == runner[i].job IN
  /\ runner[i].pc = "running"
  /\ \E o \in Outcomes(jobs[j].kind) : Pop(j, o) \/ PopFails(j)
  /\ runner' = [runner EXCEPT ![i].pc = "gone"]
  /\ UNCHANGED <<jobs, hosted, caller, inbox, late, told>>

\* Mutant: also posts the outcome of a cancelled job.
PostOutcomeCancelled(i) ==
  /\ finish[i].pc = "post"
  /\ inbox' = IF jobs[i].kind = "native" THEN inbox
              ELSE [inbox EXCEPT ![i] = Append(@, finish[i].outcome)]
  /\ finish' = [finish EXCEPT ![i].pc = "notify"]
  /\ UNCHANGED <<jobs, pending, inflight, hosted, caller, runner, late, told>>

(* The rest of the method that popped job i: the submitter's port ...      *)
PostOutcome(i) ==
  /\ finish[i].pc = "post"
  /\ inbox' = IF jobs[i].kind = "native" \/ finish[i].outcome = "cancel" THEN inbox
              ELSE [inbox EXCEPT ![i] = Append(@, finish[i].outcome)]
  /\ finish' = [finish EXCEPT ![i].pc = "notify"]
  /\ UNCHANGED <<jobs, pending, inflight, hosted, caller, runner, late, told>>

(* ... and notifyDone: the hook read under the mutex, called outside.      *)
NotifyDone(i) ==
  /\ finish[i].pc = "notify"
  /\ told' = IF hosted THEN [told EXCEPT ![i] = @ + 1] ELSE told
  /\ finish' = [finish EXCEPT ![i].pc = "done"]
  /\ UNCHANGED <<jobs, pending, inflight, hosted, caller, runner, inbox, late>>

-----------------------------------------------------------------------------
CallerStep(c) ==
  \/ \E e \in Entries, kind \in Kinds : Submit(c, e, kind)
  \/ StartFallback(c) \/ StartRefused(c) \/ CancelRefused(c)
IsolateStep(i) == Take(i) \/ TakeNothing(i) \/ Emit(i) \/ EmitPost(i) \/ Finish(i)

JobsNext ==
  \/ RegisterHost
  \/ \E c \in Callers : CallerStep(c) \/ StartOnHost(c)
  \/ \E i \in Ids : \/ Cancel(i) \/ PostOutcome(i) \/ NotifyDone(i)
                    \/ EngineUp(i) \/ EngineFails(i) \/ EngineDestroyed(i)
                    \/ IsolateStep(i)

JobsSpec == JobsInit /\ [][JobsNext]_jobVars

\* A caller inside submit goes on, the host answers for an engine it promised,
\* an isolate runs its entry to the end, and a method that popped a job finishes.
JobsFairness ==
  /\ \A c \in Callers : WF_jobVars(StartOnHost(c) \/ StartFallback(c)
                                   \/ StartRefused(c) \/ CancelRefused(c))
  /\ \A i \in Ids : /\ WF_jobVars(EngineUp(i) \/ EngineFails(i))
                    /\ WF_jobVars(Take(i) \/ TakeNothing(i))
                    /\ WF_jobVars(EmitPost(i)) /\ WF_jobVars(Finish(i))
                    /\ WF_jobVars(PostOutcome(i)) /\ WF_jobVars(NotifyDone(i))

FairJobsSpec == JobsSpec /\ JobsFairness

-----------------------------------------------------------------------------
Messages == {"result", "error", "end"}

\* A job is in the queue once, or in flight, or over: never two of them.
TableInv ==
  /\ \A k, m \in DOMAIN pending : pending[k] = pending[m] => k = m
  /\ \A i \in Ids : /\ Queued(i) => i \notin inflight
                    /\ Active(i) <=> i \in DOMAIN jobs /\ finish[i].pc = "no"

\* The isolate of job i is busy with job j.
Holds(i, j) == runner[i].pc \in {"running", "sending"} /\ runner[i].job = j

(* No job is given to two isolates, also when two engines of an entry ask  *)
(* for the oldest job at once: its side effects would happen twice.        *)
OneIsolatePerJob ==
  \A j \in Ids : \A i, m \in Ids : Holds(i, j) /\ Holds(m, j) => i = m

(* A job in flight has its isolate.  An engine destroyed for the wrong job *)
(* would leave one in flight that nobody ever completes: take binds the    *)
(* runner to its job for this reason (nitro_background.h:75-78).           *)
InflightHasIsolate == \A j \in inflight : \E i \in Ids : Holds(i, j)

(* What a submitter's port sees: items, then at most one outcome, which is *)
(* the last message and the outcome the job was popped with; nothing for a *)
(* native job, no outcome for a cancelled one.  complete, fail, end, emit  *)
(* and cancel post outside the mutex, from different threads.              *)
PortProtocol ==
  \A i \in DOMAIN jobs : \A k \in DOMAIN inbox[i] :
    /\ jobs[i].kind # "native"
    /\ inbox[i][k] = "item" => jobs[i].kind = "stream"
    /\ inbox[i][k] \in Messages =>
         k = Len(inbox[i]) /\ inbox[i][k] = finish[i].outcome

(* emit returns false once the submitter cancelled (nitro_background.h:    *)
(* 119-120), so at most the one item whose emit was between its check and  *)
(* its post still reaches a cancelled stream, and none a finished one.     *)
AtMostOneLateItem ==
  \A i \in Ids : late[i] <= (IF finish[i].outcome = "cancel" THEN 1 ELSE 0)

\* A job as its submitter sees it.
Status(i) ==
  LET over == finish[i] IN
  CASE i \notin DOMAIN jobs -> "none"
    [] i \in DOMAIN jobs /\ over.pc = "no" -> IF Queued(i) THEN "waiting" ELSE "running"
    [] over.pc # "no" /\ jobs[i].kind = "native" -> "closed"
    [] over.outcome = "cancel" /\ jobs[i].kind # "native" ->
         IF late[i] = 0 THEN "cancelled" ELSE "closed"
    [] OTHER -> IF over.pc = "post" THEN over.outcome ELSE "closed"

Lifecycle == INSTANCE JobLifecycle WITH
  kind   <- [i \in Ids |-> IF i \in DOMAIN jobs THEN jobs[i].kind ELSE "none"],
  status <- [i \in Ids |-> Status(i)],
  box    <- inbox

(* The table keeps the promise of JobLifecycle although the caller, the    *)
(* isolate and the host end a job from different threads and post outside  *)
(* the mutex.                                                              *)
ImplementsLifecycle == Lifecycle!Spec

(* The host hears of a job at most once, after the outcome was posted: an  *)
(* engine destroyed earlier would take the post with it.                   *)
ToldOnce ==
  \A i \in Ids : told[i] > 0 => told[i] = 1 /\ finish[i].pc = "done"

(* activeCount falls back to 0: every job completes, fails or is cancelled *)
(* ("Reaches 0 once ...", nitro_type_coverage.ffi.g.dart:9039-9040), and   *)
(* a submitter that did not cancel gets its answer.                        *)
EveryJobFinishes ==
  \A i \in Ids :
    /\ i \in DOMAIN jobs ~> finish[i].pc = "done"
    /\ (i \in DOMAIN jobs /\ jobs[i].kind = "future")
         ~> \E k \in DOMAIN inbox[i] : inbox[i][k] \in {"result", "error"}

=============================================================================
