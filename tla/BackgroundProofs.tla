--------------------------- MODULE BackgroundProofs ---------------------------
(***************************************************************************)
(* Proofs about BackgroundJobs and BackgroundHost, for any number of       *)
(* callers, jobs and kept results.                                         *)
(*                                                                         *)
(* The table: IInv is inductive whatever the hosts do; PortInv, which is   *)
(* inductive together with it, needs hosts that pass the job id: an engine *)
(* that asks for the oldest job may run the job of an engine that fails,   *)
(* and then two threads post to one port.                                  *)
(*                                                                         *)
(* The hosts, which both pass the job id: no engine is left over, onDone   *)
(* is called at most once and with its own job's outcome.                  *)
(***************************************************************************)
EXTENDS BackgroundHost, TLAPS

Over == {"result", "error", "end", "cancel"}
Busy(i) == runner[i].pc \in {"running", "sending"}

\* A caller inside submit is alone with its job, which has no isolate yet.
CallerInv ==
  /\ \A c \in Callers : caller[c].pc # "idle" =>
       caller[c].job \in DOMAIN jobs /\ runner[caller[c].job].pc = "none"
  /\ \A c, d \in Callers :
       caller[c].pc # "idle" /\ caller[d].pc # "idle" /\ caller[c].job = caller[d].job
         => c = d

\* A busy isolate has a job of its own, which left the queue.
RunnerInv ==
  /\ \A i \in Ids : Busy(i) =>
       /\ runner[i].job \in DOMAIN jobs
       /\ ~Queued(runner[i].job)
       /\ runner[i].pc = "sending" => jobs[runner[i].job].kind = "stream"
  /\ \A i, m \in Ids : Busy(i) /\ Busy(m) /\ runner[i].job = runner[m].job => i = m

\* An id not given out is untouched; a job that is over has an outcome.
FinishInv ==
  \A i \in Ids :
    /\ i \notin DOMAIN jobs => finish[i].pc = "no" /\ runner[i].pc = "none"
    /\ finish[i].pc # "no" => finish[i].outcome \in Over

IInv == TypeOK /\ TableInv /\ CallerInv /\ RunnerInv /\ FinishInv /\ ToldOnce

\* An isolate runs its own job, which only its submitter can end meanwhile,
\* and a job in flight has it.
OwnJob ==
  \A i \in Ids :
    /\ Busy(i) => runner[i].job = i /\ (finish[i].pc = "no" \/ finish[i].outcome = "cancel")
    /\ i \in inflight => Busy(i)

LateInv ==
  \A i \in Ids : late[i] > 0 =>
    late[i] = 1 /\ finish[i].pc # "no" /\ finish[i].outcome = "cancel" /\ runner[i].pc # "sending"

\* What was posted to a port, and that an outcome was posted by its finisher.
BoxInv ==
  \A i \in Ids : \A k \in DOMAIN inbox[i] :
    /\ i \in DOMAIN jobs
    /\ jobs[i].kind # "native"
    /\ inbox[i][k] = "item" => jobs[i].kind = "stream"
    /\ inbox[i][k] \in Messages =>
         /\ k = Len(inbox[i]) /\ inbox[i][k] = finish[i].outcome
         /\ finish[i].pc \in {"notify", "done"} /\ finish[i].outcome # "cancel"

PortInv == OwnJob /\ LateInv /\ BoxInv

-----------------------------------------------------------------------------
(* pending_.erase: the queue loses the place k, and keeps its order.       *)
LEMMA EraseSeq ==
  ASSUME pending \in Seq(Ids), NEW k \in DOMAIN pending, Erase(k)
  PROVE  /\ pending' \in Seq(Ids)
         /\ Len(pending') = Len(pending) - 1
         /\ \A m \in 1 .. k - 1 : pending'[m] = pending[m]
         /\ \A m \in k .. Len(pending) - 1 : pending'[m] = pending[m + 1]
<1> DEFINE s == SubSeq(pending, 1, k - 1)
           t == SubSeq(pending, k + 1, Len(pending))
<1>1. k \in 1 .. Len(pending) /\ Len(pending) \in Nat
  OBVIOUS
<1>2. s \in Seq(Ids) /\ Len(s) = k - 1 /\ \A m \in 1 .. k - 1 : s[m] = pending[m]
  BY <1>1
<1>3. /\ t \in Seq(Ids) /\ Len(t) = Len(pending) - k
      /\ \A m \in 1 .. Len(pending) - k : t[m] = pending[m + k]
  BY <1>1
<1>4. pending' = s \o t
  BY DEF Erase
<1> HIDE DEF s, t
<1> QED
  BY <1>1, <1>2, <1>3, <1>4

(* If no id is in the queue twice, erase takes exactly one id out of it.   *)
LEMMA EraseIds ==
  ASSUME pending \in Seq(Ids), NEW k \in DOMAIN pending, Erase(k),
         \A m, n \in DOMAIN pending : pending[m] = pending[n] => m = n
  PROVE  /\ \A m, n \in DOMAIN pending' : pending'[m] = pending'[n] => m = n
         /\ \A j : Queued(j)' <=> Queued(j) /\ j # pending[k]
<1> DEFINE From(m) == IF m < k THEN m ELSE m + 1
<1>1. /\ pending' \in Seq(Ids) /\ Len(pending') = Len(pending) - 1
      /\ \A m \in DOMAIN pending' :
           From(m) \in DOMAIN pending \ {k} /\ pending'[m] = pending[From(m)]
  BY EraseSeq
<1>2. \A m \in DOMAIN pending \ {k} : \E n \in DOMAIN pending' : From(n) = m
  <2> TAKE m \in DOMAIN pending \ {k}
  <2>1. CASE m < k
    <3>1. m \in DOMAIN pending' /\ From(m) = m
      BY <1>1, <2>1
    <3> QED BY <3>1
  <2>2. CASE m > k
    <3>1. m - 1 \in DOMAIN pending' /\ From(m - 1) = m
      BY <1>1, <2>2
    <3> QED BY <3>1
  <2> QED BY <2>1, <2>2
<1>3. \A m, n \in DOMAIN pending' : From(m) = From(n) => m = n
  BY <1>1
<1> HIDE DEF From
<1>4. ASSUME NEW j PROVE Queued(j)' <=> Queued(j) /\ j # pending[k]
  <2>1. Queued(j)' => Queued(j) /\ j # pending[k]
    BY <1>1 DEF Queued
  <2>2. Queued(j) /\ j # pending[k] => Queued(j)'
    BY <1>1, <1>2 DEF Queued
  <2> QED BY <2>1, <2>2
<1> QED BY <1>1, <1>3, <1>4

(* A method that ends a job, whether or not it finds it: afterwards the job *)
(* is neither queued nor in flight, all others are as before, and only a    *)
(* job that was not over has become so.                                     *)
LEMMA PopOrFail ==
  ASSUME TypeOK, TableInv, NEW i \in Ids, NEW o, Pop(i, o) \/ PopFails(i), jobs' = jobs
  PROVE  /\ pending' \in Seq(Ids)
         /\ \A j : Queued(j)' <=> Queued(j) /\ j # i
         /\ inflight' = inflight \ {i}
         /\ \/ /\ finish[i].pc = "no" /\ i \in DOMAIN jobs
               /\ finish' = [finish EXCEPT ![i] = [pc |-> "post", outcome |-> o]]
            \/ UNCHANGED finish
         /\ TableInv'
<1>1. CASE PopFails(i)
  BY <1>1 DEF PopFails, Active, Queued, TypeOK, TableInv
<1>2. CASE Pop(i, o)
  <2>1. /\ pending' \in Seq(Ids)
        /\ \A j : Queued(j)' <=> Queued(j) /\ j # i
        /\ \A m, n \in DOMAIN pending' : pending'[m] = pending'[n] => m = n
        /\ inflight' = inflight \ {i}
        /\ Active(i)
    <3>1. CASE i \in inflight
      BY <1>2, <3>1 DEF Pop, Active, Queued, TypeOK, TableInv
    <3>2. CASE i \notin inflight
      <4>1. PICK k \in DOMAIN pending : pending[k] = i /\ Erase(k)
        BY <1>2, <3>2 DEF Pop
      <4>2. inflight' = inflight
        BY <1>2, <3>2 DEF Pop
      <4>3. /\ pending \in Seq(Ids)
            /\ \A m, n \in DOMAIN pending : pending[m] = pending[n] => m = n
        BY DEF TypeOK, TableInv
      <4>4. pending' \in Seq(Ids)
        BY <4>1, <4>3, EraseSeq
      <4>5. /\ \A m, n \in DOMAIN pending' : pending'[m] = pending'[n] => m = n
            /\ \A j : Queued(j)' <=> Queued(j) /\ j # i
        BY <4>1, <4>3, EraseIds
      <4>6. Active(i)
        BY <4>1 DEF Active, Queued
      <4> QED
        BY <3>2, <4>2, <4>4, <4>5, <4>6
    <3> QED BY <3>1, <3>2
  <2>2. /\ finish[i].pc = "no" /\ i \in DOMAIN jobs
        /\ finish' = [finish EXCEPT ![i] = [pc |-> "post", outcome |-> o]]
    BY <1>2, <2>1 DEF Pop, TableInv
  <2>3. ASSUME NEW j \in Ids
        PROVE  /\ Queued(j)' => j \notin inflight'
               /\ Active(j)' <=> j \in DOMAIN jobs' /\ finish'[j].pc = "no"
    <3>1. Active(j)' <=> Active(j) /\ j # i
      BY <2>1 DEF Active
    <3> QED BY <2>1, <2>2, <3>1 DEF TableInv, TypeOK
  <2> QED BY <2>1, <2>2, <2>3 DEF TableInv
<1> QED BY <1>1, <1>2

(* The same for an isolate that takes the job at k: it goes from the queue *)
(* to in flight.                                                           *)
LEMMA TakeMoves ==
  ASSUME TypeOK, TableInv, NEW k \in DOMAIN pending, Erase(k),
         inflight' = inflight \cup {pending[k]}, jobs' = jobs, finish' = finish
  PROVE  /\ pending' \in Seq(Ids) /\ pending[k] \in Ids
         /\ \A j : Queued(j)' <=> Queued(j) /\ j # pending[k]
         /\ TableInv'
<1>1. /\ pending' \in Seq(Ids) /\ pending[k] \in Ids /\ Queued(pending[k])
      /\ \A j : Queued(j)' <=> Queued(j) /\ j # pending[k]
      /\ \A m, n \in DOMAIN pending' : pending'[m] = pending'[n] => m = n
  <2>1. /\ pending \in Seq(Ids)
        /\ \A m, n \in DOMAIN pending : pending[m] = pending[n] => m = n
    BY DEF TypeOK, TableInv
  <2>2. pending' \in Seq(Ids)
    BY <2>1, EraseSeq
  <2>3. /\ \A m, n \in DOMAIN pending' : pending'[m] = pending'[n] => m = n
        /\ \A j : Queued(j)' <=> Queued(j) /\ j # pending[k]
    BY <2>1, EraseIds
  <2>4. pending[k] \in Ids /\ Queued(pending[k])
    BY <2>1 DEF Queued
  <2> QED BY <2>2, <2>3, <2>4
<1>2. ASSUME NEW j \in Ids
      PROVE  /\ Queued(j)' => j \notin inflight'
             /\ Active(j)' <=> j \in DOMAIN jobs' /\ finish'[j].pc = "no"
  <2>1. Active(j)' <=> Active(j)
    BY <1>1 DEF Active
  <2> QED BY <1>1, <2>1 DEF TableInv
<1> QED BY <1>1, <1>2 DEF TableInv

-----------------------------------------------------------------------------
LEMMA JobIds == ASSUME TypeOK PROVE DOMAIN jobs \subseteq Ids
<1>1. DOMAIN jobs = 1 .. Len(jobs) /\ Len(jobs) \in Nat /\ Len(jobs) <= MaxJobs
  BY DEF TypeOK
<1> QED BY <1>1, JobsOK DEF Ids

(* A method of the table that ends job i, called by a caller or an isolate *)
(* which then is done with it, keeps IInv.                                 *)
LEMMA EndKeeps ==
  ASSUME IInv, NEW i \in Ids, NEW o \in Over, Pop(i, o) \/ PopFails(i),
         UNCHANGED <<jobs, hosted, inbox, late, told>>,
         caller' \in [Callers -> CallerRecs],
         \A c \in Callers : caller'[c] = caller[c] \/ caller'[c].pc = "idle",
         runner' \in [Ids -> RunnerRecs],
         \A m \in Ids : \/ runner'[m] = runner[m]
                        \/ runner[m].pc # "none" /\ runner'[m].pc = "gone"
  PROVE  IInv'
<1>1. /\ pending' \in Seq(Ids)
      /\ \A j : Queued(j)' <=> Queued(j) /\ j # i
      /\ inflight' = inflight \ {i}
      /\ \/ /\ finish[i].pc = "no" /\ i \in DOMAIN jobs
            /\ finish' = [finish EXCEPT ![i] = [pc |-> "post", outcome |-> o]]
         \/ UNCHANGED finish
      /\ TableInv'
  <2>1. TypeOK /\ TableInv /\ jobs' = jobs
    BY DEF IInv
  <2> QED BY <2>1, PopOrFail
<1>2. TypeOK'
  <2>1. finish' \in [Ids -> FinishRecs]
    <3>1. finish \in [Ids -> FinishRecs]
      BY DEF IInv, TypeOK
    <3>2. [pc |-> "post", outcome |-> o] \in
            FinishRecs
      BY DEF Over, FinishRecs
    <3> QED BY <1>1, <3>1, <3>2
  <2>2. inflight' \subseteq Ids
    BY <1>1 DEF IInv, TypeOK
  <2> QED BY <1>1, <2>1, <2>2 DEF IInv, TypeOK
<1>3. CallerInv'
  <2>1. \A c \in Callers : caller[c].pc # "idle" => caller[c].job \in Ids
    BY JobIds DEF IInv, CallerInv
  <2> QED BY <2>1 DEF IInv, CallerInv
<1>4. RunnerInv'
  BY <1>1 DEF IInv, RunnerInv, Busy
<1>5. FinishInv'
  <2>1. finish \in [Ids -> FinishRecs]
    BY DEF IInv, TypeOK
  <2>2. \A m \in Ids : \/ finish'[m] = finish[m]
                       \/ m \in DOMAIN jobs /\ finish'[m].outcome = o
    BY <1>1, <2>1
  <2> QED BY <2>2 DEF IInv, FinishInv
<1>6. ToldOnce'
  BY <1>1 DEF IInv, ToldOnce, TypeOK
<1> QED BY <1>1, <1>2, <1>3, <1>4, <1>5, <1>6 DEF IInv

LEMMA SubmitKeeps ==
  ASSUME IInv, NEW c \in Callers, NEW e \in Entries, NEW kind \in Kinds,
         Submit(c, e, kind)
  PROVE  IInv'
<1> DEFINE new == Len(jobs) + 1
<1>1. /\ jobs \in Seq([entry : Entries, kind : Kinds]) /\ new \in Ids
      /\ pending \in Seq(Ids)
  BY JobsOK DEF IInv, TypeOK, Submit, Ids
<1>2. /\ DOMAIN jobs' = DOMAIN jobs \cup {new} /\ new \notin DOMAIN jobs
      /\ \A i \in DOMAIN jobs : jobs'[i] = jobs[i]
      /\ \A i \in DOMAIN jobs : i \in Ids
  <2>1. jobs' = Append(jobs, [entry |-> e, kind |-> kind])
    BY DEF Submit
  <2>2. DOMAIN jobs \subseteq Ids
    BY JobIds DEF IInv
  <2> QED BY <1>1, <2>1, <2>2
<1>3. /\ pending' \in Seq(Ids)
      /\ \A k \in DOMAIN pending' : \/ k \in DOMAIN pending /\ pending'[k] = pending[k]
                                    \/ k = Len(pending) + 1 /\ pending'[k] = new
      /\ \A k \in DOMAIN pending : k \in DOMAIN pending' /\ pending'[k] = pending[k]
      /\ Len(pending) + 1 \in DOMAIN pending' /\ pending'[Len(pending) + 1] = new
  BY <1>1 DEF Submit
<1>4. \A j : Queued(j)' <=> Queued(j) \/ j = new
  BY <1>3 DEF Queued
<1>5. \A j \in Ids : Queued(j) => j \in DOMAIN jobs
  BY DEF IInv, TableInv, Active
<1>6. new \notin inflight /\ ~Queued(new) /\ finish[new].pc = "no" /\ runner[new].pc = "none"
  BY <1>1, <1>2, <1>5 DEF IInv, TableInv, Active, FinishInv
<1> HIDE DEF new
<1>7. TypeOK'
  <2>1. caller' \in [Callers -> CallerRecs]
    <3>1. [pc |-> "start", job |-> new, host |-> hosted] \in CallerRecs
      BY <1>1 DEF IInv, TypeOK, CallerRecs, new
    <3> QED BY <3>1 DEF IInv, TypeOK, Submit, new
  <2>2. jobs' \in Seq([entry : Entries, kind : Kinds]) /\ Len(jobs') <= MaxJobs
    BY <1>1, JobsOK DEF Submit, Kinds
  <2> QED BY <1>3, <2>1, <2>2 DEF IInv, TypeOK, Submit
<1>8. TableInv'
  <2>1. \A k, m \in DOMAIN pending' : pending'[k] = pending'[m] => k = m
    BY <1>1, <1>3, <1>6 DEF IInv, TableInv, Queued
  <2>2. ASSUME NEW j \in Ids
        PROVE  /\ Queued(j)' => j \notin inflight'
               /\ Active(j)' <=> j \in DOMAIN jobs' /\ finish'[j].pc = "no"
    BY <1>2, <1>4, <1>6 DEF IInv, TableInv, Active, Submit
  <2> QED BY <2>1, <2>2 DEF TableInv
<1>9. CallerInv'
  <2>1. \A d \in Callers : caller'[d] = IF d = c THEN [pc |-> "start", job |-> new, host |-> hosted]
                                        ELSE caller[d]
    BY DEF IInv, TypeOK, Submit, new
  <2> QED BY <1>2, <1>6, <2>1 DEF IInv, CallerInv, Submit
<1>10. RunnerInv'
  <2>1. ASSUME NEW i \in Ids, Busy(i)
        PROVE  runner[i].job \in DOMAIN jobs /\ ~Queued(runner[i].job)'
    <3>1. runner[i].job \in DOMAIN jobs /\ ~Queued(runner[i].job) /\ runner' = runner
      BY <2>1 DEF IInv, RunnerInv, Submit
    <3> QED BY <1>2, <1>4, <3>1 DEF Queued
  <2> QED BY <1>2, <2>1 DEF IInv, RunnerInv, Busy, Submit
<1>11. FinishInv' /\ ToldOnce'
  BY <1>2 DEF IInv, FinishInv, ToldOnce, Submit
<1> QED BY <1>7, <1>8, <1>9, <1>10, <1>11 DEF IInv

(* The caller inside submit hands its job to an isolate, or goes on to     *)
(* take it back.                                                           *)
LEMMA StartKeeps ==
  ASSUME IInv, NEW c \in Callers,
         StartOnHost(c) \/ StartFallback(c) \/ StartRefused(c)
  PROVE  IInv'
<1> DEFINE i == caller[c].job
<1>1. /\ caller[c].pc = "start" /\ i \in Ids /\ i \in DOMAIN jobs
      /\ runner[i].pc = "none"
  BY JobIds DEF IInv, CallerInv, StartOnHost, StartFallback, StartRefused
<1>2. UNCHANGED <<jobs, pending, inflight, hosted, finish, inbox, late, told>>
  BY DEF StartOnHost, StartFallback, StartRefused
<1>3. /\ caller' \in [Callers -> CallerRecs]
      /\ \A d \in Callers \ {c} : caller'[d] = caller[d]
      /\ caller'[c].pc = "cancel" => caller'[c].job = i /\ runner' = runner
      /\ caller'[c].pc \in {"idle", "cancel"}
  <2>1. caller \in [Callers -> CallerRecs]
    BY DEF IInv, TypeOK
  <2>2. CASE caller' = [caller EXCEPT ![c] = AtRest]
    <3>1. AtRest \in CallerRecs /\ AtRest.pc = "idle"
      BY DEF AtRest, CallerRecs
    <3> QED BY <2>1, <2>2, <3>1
  <2>3. CASE caller' = [caller EXCEPT ![c].pc = "cancel"] /\ runner' = runner
    <3>1. [caller[c] EXCEPT !.pc = "cancel"] \in CallerRecs
      BY <2>1 DEF CallerRecs
    <3>2. caller' = [caller EXCEPT ![c] = [caller[c] EXCEPT !.pc = "cancel"]]
      BY <2>3
    <3>3. [caller[c] EXCEPT !.pc = "cancel"].pc = "cancel"
          /\ [caller[c] EXCEPT !.pc = "cancel"].job = i
      BY <2>1 DEF CallerRecs
    <3> QED BY <2>1, <2>3, <3>1, <3>2, <3>3
  <2> QED BY <2>2, <2>3 DEF StartOnHost, StartFallback, StartRefused
<1>4. /\ runner' \in [Ids -> RunnerRecs]
      /\ \A m \in Ids \ {i} : runner'[m] = runner[m]
      /\ runner'[i].pc \in {"none", "asked", "started"}
  <2>1. runner \in [Ids -> RunnerRecs]
    BY DEF IInv, TypeOK
  <2>2. CASE runner' = runner
    BY <1>1, <2>1, <2>2
  <2>3. CASE \E r \in RunnerRecs : /\ runner' = [runner EXCEPT ![i] = r]
                                   /\ r.pc \in {"none", "asked", "started"}
    BY <1>1, <2>1, <2>3
  <2>4. /\ [pc |-> "asked", job |-> NoJob, engine |-> TRUE] \in RunnerRecs
        /\ [pc |-> "started", job |-> NoJob, engine |-> FALSE] \in RunnerRecs
    BY DEF RunnerRecs
  <2> QED BY <2>2, <2>3, <2>4 DEF StartOnHost, StartFallback, StartRefused
<1> HIDE DEF i
<1>5. TypeOK' /\ TableInv'
  <2>1. TypeOK'
    BY <1>2, <1>3, <1>4 DEF IInv, TypeOK
  <2> QED BY <1>2, <2>1 DEF IInv, TableInv, Active, Queued
<1>6. CallerInv'
  <2>1. \A d \in Callers \ {c} : caller[d].pc # "idle" => caller[d].job \in Ids \ {i}
    BY <1>1, JobIds DEF IInv, CallerInv, i
  <2>2. \A d \in Callers \ {c} : caller'[d].pc # "idle" =>
          caller'[d].job \in DOMAIN jobs /\ runner'[caller'[d].job].pc = "none"
    BY <1>3, <1>4, <2>1 DEF IInv, CallerInv
  <2>3. caller'[c].pc # "idle" =>
          caller'[c].job \in DOMAIN jobs /\ runner'[caller'[c].job].pc = "none"
    BY <1>1, <1>3
  <2> QED BY <1>2, <1>3, <2>1, <2>2, <2>3 DEF IInv, CallerInv
<1>7. RunnerInv'
  <2>1. \A m \in Ids : Busy(m)' => m # i /\ Busy(m) /\ runner'[m] = runner[m]
    BY <1>4 DEF Busy
  <2> QED BY <1>2, <2>1 DEF IInv, RunnerInv, Queued
<1>8. FinishInv' /\ ToldOnce'
  BY <1>1, <1>2, <1>4 DEF IInv, FinishInv, ToldOnce
<1> QED BY <1>5, <1>6, <1>7, <1>8 DEF IInv

(* The isolate of i takes a job from the queue, its own or another's.      *)
LEMMA TakeKeepsIInv ==
  ASSUME IInv, NEW i \in Ids, Take(i)
  PROVE  IInv'
<1>1. PICK k \in DOMAIN pending :
        /\ Erase(k)
        /\ inflight' = inflight \cup {pending[k]}
        /\ runner' = [runner EXCEPT ![i].pc = "running", ![i].job = pending[k]]
  BY DEF Take
<1>2. /\ runner[i].pc = "started"
      /\ UNCHANGED <<jobs, hosted, caller, finish, inbox, late, told>>
  BY DEF Take
<1> DEFINE j == pending[k]
<1>3. /\ pending' \in Seq(Ids) /\ j \in Ids
      /\ \A m : Queued(m)' <=> Queued(m) /\ m # j
      /\ TableInv'
  BY <1>1, <1>2, TakeMoves DEF IInv
<1>4. Queued(j) /\ j \in DOMAIN jobs
  BY <1>3 DEF IInv, TableInv, Active, Queued
<1> HIDE DEF j
<1>5. /\ \A m \in Ids \ {i} : runner'[m] = runner[m]
      /\ runner'[i].pc = "running" /\ runner'[i].job = j
      /\ runner' \in [Ids -> RunnerRecs]
  <2>1. runner \in [Ids -> RunnerRecs]
    BY DEF IInv, TypeOK
  <2>2. PICK r : r = [runner[i] EXCEPT !.pc = "running", !.job = j]
    OBVIOUS
  <2>3. r \in RunnerRecs /\ r.pc = "running" /\ r.job = j
    <3>1. runner[i] \in RunnerRecs
      BY <2>1
    <3> QED BY <1>3, <2>2, <3>1 DEF RunnerRecs
  <2>4. runner' = [runner EXCEPT ![i] = r]
    BY <1>1, <2>1, <2>2 DEF j
  <2> QED BY <2>1, <2>3, <2>4
<1>6. TypeOK'
  <2>1. inflight' \subseteq Ids
    BY <1>1, <1>3 DEF IInv, TypeOK, j
  <2> QED BY <1>2, <1>3, <1>5, <2>1 DEF IInv, TypeOK
<1>7. CallerInv'
  <2>1. \A c \in Callers : caller[c].pc # "idle" => caller[c].job \in Ids \ {i}
    BY <1>2, JobIds DEF IInv, CallerInv
  <2> QED BY <1>2, <1>5, <2>1 DEF IInv, CallerInv
<1>8. RunnerInv'
  <2>1. \A m \in Ids \ {i} : Busy(m)' => Busy(m) /\ runner'[m] = runner[m] /\ runner[m].job # j
    BY <1>4, <1>5 DEF IInv, RunnerInv, Busy
  <2>2. ASSUME NEW m \in Ids, Busy(m)'
        PROVE  /\ runner'[m].job \in DOMAIN jobs'
               /\ ~Queued(runner[m].job)'
               /\ runner'[m].pc = "sending" => jobs'[runner'[m].job].kind = "stream"
    <3>1. CASE m = i
      BY <1>2, <1>3, <1>4, <1>5, <3>1 DEF Queued
    <3>2. CASE m # i
      <4>1. /\ runner[m].job \in DOMAIN jobs /\ ~Queued(runner[m].job)
            /\ runner[m].pc = "sending" => jobs[runner[m].job].kind = "stream"
        BY <2>1, <2>2, <3>2 DEF IInv, RunnerInv
      <4>2. runner'[m] = runner[m]
        BY <1>5, <3>2
      <4> QED BY <1>2, <1>3, <4>1, <4>2 DEF Queued
    <3> QED BY <3>1, <3>2
  <2>3. \A m, n \in Ids : Busy(m)' /\ Busy(n)' /\ runner'[m].job = runner'[n].job => m = n
    BY <1>5, <2>1 DEF IInv, RunnerInv
  <2> QED BY <2>2, <2>3 DEF RunnerInv, Queued
<1>9. FinishInv' /\ ToldOnce'
  BY <1>2, <1>5 DEF IInv, FinishInv, ToldOnce
<1> QED BY <1>3, <1>6, <1>7, <1>8, <1>9 DEF IInv

(* An isolate that only moves on: comes up, finds nothing, sends, ends.    *)
LEMMA MoveKeeps ==
  ASSUME IInv, NEW i \in Ids, NEW pc \in {"started", "running", "sending", "gone"},
         runner' = [runner EXCEPT ![i].pc = pc], runner[i].pc # "none",
         pc \in {"running", "sending"} => Busy(i),
         pc = "sending" => jobs[runner[i].job].kind = "stream",
         UNCHANGED <<jobs, pending, inflight, hosted, caller, finish, told>>,
         inbox' \in [Ids -> Seq({"item", "result", "error", "end"})],
         late' \in [Ids -> Nat]
  PROVE  IInv'
<1>1. /\ runner' \in [Ids -> RunnerRecs]
      /\ \A m \in Ids \ {i} : runner'[m] = runner[m]
      /\ runner'[i].pc = pc /\ runner'[i].job = runner[i].job
  <2>1. runner \in [Ids -> RunnerRecs]
    BY DEF IInv, TypeOK
  <2>2. PICK r : r = [runner[i] EXCEPT !.pc = pc]
    OBVIOUS
  <2>3. r \in RunnerRecs /\ r.pc = pc /\ r.job = runner[i].job
    <3>1. runner[i] \in RunnerRecs
      BY <2>1
    <3> QED BY <2>2, <3>1 DEF RunnerRecs
  <2>4. runner' = [runner EXCEPT ![i] = r]
    BY <2>1, <2>2
  <2> QED BY <2>1, <2>3, <2>4
<1>2. TypeOK' /\ TableInv'
  <2>1. TypeOK'
    BY <1>1 DEF IInv, TypeOK
  <2> QED BY <2>1 DEF IInv, TableInv, Active, Queued
<1>3. CallerInv'
  <2>1. \A c \in Callers : caller[c].pc # "idle" => caller[c].job \in Ids \ {i}
    BY JobIds DEF IInv, CallerInv
  <2> QED BY <1>1, <2>1 DEF IInv, CallerInv
<1>4. RunnerInv'
  <2>1. \A m \in Ids : Busy(m)' => Busy(m) /\ runner'[m].job = runner[m].job
    BY <1>1 DEF Busy
  <2>2. ASSUME NEW m \in Ids, Busy(m)'
        PROVE  /\ runner'[m].job \in DOMAIN jobs'
               /\ ~Queued(runner[m].job)'
               /\ runner'[m].pc = "sending" => jobs'[runner'[m].job].kind = "stream"
    <3>1. runner[m].job \in DOMAIN jobs /\ ~Queued(runner[m].job)
      BY <2>1, <2>2 DEF IInv, RunnerInv
    <3>2. runner'[m].pc = "sending" => jobs[runner[m].job].kind = "stream"
      BY <1>1, <2>1, <2>2 DEF IInv, RunnerInv
    <3> QED BY <2>1, <2>2, <3>1, <3>2 DEF Queued
  <2> QED BY <2>1, <2>2 DEF IInv, RunnerInv, Queued
<1>5. FinishInv' /\ ToldOnce'
  BY <1>1 DEF IInv, FinishInv, ToldOnce
<1> QED BY <1>2, <1>3, <1>4, <1>5 DEF IInv

(* The rest of the method that popped job i: post, then the host's hook.   *)
LEMMA OutcomeKeeps ==
  ASSUME IInv, NEW i \in Ids, PostOutcome(i) \/ NotifyDone(i)
  PROVE  IInv'
<1>1. PICK pc \in {"notify", "done"} :
        /\ finish' = [finish EXCEPT ![i].pc = pc]
        /\ pc = "notify" => told' = told
        /\ told' # told => pc = "done" /\ told' = [told EXCEPT ![i] = @ + 1]
  BY DEF PostOutcome, NotifyDone
<1>2. /\ finish[i].pc \in {"post", "notify"}
      /\ UNCHANGED <<jobs, pending, inflight, hosted, caller, runner, late>>
  BY DEF PostOutcome, NotifyDone
<1>3. /\ finish' \in [Ids -> FinishRecs]
      /\ \A m \in Ids \ {i} : finish'[m] = finish[m]
      /\ finish'[i].pc = pc /\ finish'[i].outcome = finish[i].outcome
  <2>1. finish \in [Ids -> FinishRecs]
    BY DEF IInv, TypeOK
  <2>2. PICK r : r = [finish[i] EXCEPT !.pc = pc]
    OBVIOUS
  <2>3. r \in FinishRecs /\ r.pc = pc /\ r.outcome = finish[i].outcome
    <3>1. finish[i] \in FinishRecs
      BY <2>1
    <3> QED BY <2>2, <3>1 DEF FinishRecs
  <2>4. finish' = [finish EXCEPT ![i] = r]
    BY <1>1, <2>1, <2>2
  <2> QED BY <2>1, <2>3, <2>4
<1>4. told[i] = 0
  <2>1. told[i] \in Nat
    BY DEF IInv, TypeOK
  <2>2. ~(told[i] > 0)
    BY <1>2 DEF IInv, ToldOnce
  <2> QED BY <2>1, <2>2
<1>5. inbox' \in [Ids -> Seq({"item", "result", "error", "end"})]
  <2>1. inbox \in [Ids -> Seq({"item", "result", "error", "end"})]
    BY DEF IInv, TypeOK
  <2>2. finish[i].outcome \in Over
    BY <1>2 DEF IInv, FinishInv
  <2>3. CASE inbox' = inbox
    BY <2>1, <2>3
  <2>4. CASE /\ inbox' = [inbox EXCEPT ![i] = Append(@, finish[i].outcome)]
             /\ finish[i].outcome # "cancel"
    BY <2>1, <2>2, <2>4 DEF Over
  <2> QED BY <2>3, <2>4 DEF PostOutcome, NotifyDone
<1>6. TypeOK'
  <2>1. told \in [Ids -> Nat]
    BY DEF IInv, TypeOK
  <2>2. told' \in [Ids -> Nat]
    BY <1>1, <2>1
  <2> QED BY <1>2, <1>3, <1>5, <2>2 DEF IInv, TypeOK
<1>7. TableInv'
  <2>1. \A m \in Ids : finish'[m].pc = "no" <=> finish[m].pc = "no"
    BY <1>2, <1>3
  <2> QED BY <1>2, <2>1 DEF IInv, TableInv, Active, Queued
<1>8. CallerInv' /\ RunnerInv'
  BY <1>2 DEF IInv, CallerInv, RunnerInv, Busy, Queued
<1>9. FinishInv'
  BY <1>2, <1>3 DEF IInv, FinishInv
<1>10. ToldOnce'
  <2>1. told \in [Ids -> Nat]
    BY DEF IInv, TypeOK
  <2> QED BY <1>1, <1>2, <1>3, <1>4, <2>1 DEF IInv, ToldOnce
<1> QED BY <1>6, <1>7, <1>8, <1>9, <1>10 DEF IInv

-----------------------------------------------------------------------------
LEMMA InitIInv == JobsInit => IInv
<1> SUFFICES ASSUME JobsInit PROVE IInv
  OBVIOUS
<1>1. DOMAIN jobs = {} /\ DOMAIN pending = {}
  BY DEF JobsInit
<1>2. TypeOK
  <2>1. AtRest \in CallerRecs /\ NoRunner \in RunnerRecs /\ NotOver \in FinishRecs
    BY DEF AtRest, NoRunner, NotOver, CallerRecs, RunnerRecs, FinishRecs
  <2>2. jobs \in Seq([entry : Entries, kind : Kinds]) /\ Len(jobs) <= MaxJobs
    BY JobsOK DEF JobsInit
  <2>3. pending \in Seq(Ids) /\ inflight \subseteq Ids /\ hosted \in BOOLEAN
    <3>1. <<>> \in Seq(Ids)
      OBVIOUS
    <3> QED BY <3>1 DEF JobsInit
  <2>4. inbox \in [Ids -> Seq({"item", "result", "error", "end"})]
    <3>1. <<>> \in Seq({"item", "result", "error", "end"})
      OBVIOUS
    <3> QED BY <3>1 DEF JobsInit
  <2>5. late \in [Ids -> Nat] /\ told \in [Ids -> Nat]
    BY DEF JobsInit
  <2>6. /\ caller \in [Callers -> CallerRecs] /\ runner \in [Ids -> RunnerRecs]
        /\ finish \in [Ids -> FinishRecs]
    BY <2>1 DEF JobsInit
  <2> QED BY <2>2, <2>3, <2>4, <2>5, <2>6 DEF TypeOK
<1>3. TableInv
  BY <1>1 DEF JobsInit, TableInv, Active, Queued
<1>4. CallerInv /\ RunnerInv /\ FinishInv /\ ToldOnce
  BY <1>1 DEF JobsInit, CallerInv, RunnerInv, FinishInv, ToldOnce, Busy, AtRest,
              NoRunner, NotOver
<1> QED BY <1>2, <1>3, <1>4 DEF IInv

LEMMA StepIInv == IInv /\ [JobsNext]_jobVars => IInv'
<1> SUFFICES ASSUME IInv, [JobsNext]_jobVars PROVE IInv'
  OBVIOUS
<1>1. CASE UNCHANGED jobVars
  BY <1>1 DEF IInv, jobVars, TypeOK, TableInv, CallerInv, RunnerInv, FinishInv, ToldOnce,
              Active, Queued, Busy
<1>2. CASE RegisterHost
  BY <1>2 DEF RegisterHost, IInv, TypeOK, TableInv, CallerInv, RunnerInv, FinishInv,
              ToldOnce, Active, Queued, Busy
<1>3. ASSUME NEW c \in Callers, NEW e \in Entries, NEW kind \in Kinds, Submit(c, e, kind)
      PROVE  IInv'
  BY <1>3, SubmitKeeps
<1>4. ASSUME NEW c \in Callers, StartOnHost(c) \/ StartFallback(c) \/ StartRefused(c)
      PROVE  IInv'
  BY <1>4, StartKeeps
<1>5. ASSUME NEW c \in Callers, CancelRefused(c) PROVE IInv'
  <2>1. PICK i \in Ids : i = caller[c].job
    BY <1>5, JobIds DEF CancelRefused, IInv, CallerInv
  <2>2. (Pop(i, "cancel") \/ PopFails(i)) /\ "cancel" \in Over
    BY <1>5, <2>1 DEF CancelRefused, Over
  <2>3. /\ UNCHANGED <<jobs, hosted, inbox, late, told, runner>>
        /\ caller' = [caller EXCEPT ![c] = AtRest]
    BY <1>5 DEF CancelRefused
  <2>4. /\ caller' \in [Callers -> CallerRecs]
        /\ \A d \in Callers : caller'[d] = caller[d] \/ caller'[d].pc = "idle"
    BY <2>3 DEF IInv, TypeOK, AtRest, CallerRecs
  <2>5. runner' \in [Ids -> RunnerRecs] /\ \A m \in Ids : runner'[m] = runner[m]
    BY <2>3 DEF IInv, TypeOK
  <2> QED BY <2>2, <2>3, <2>4, <2>5, EndKeeps
<1>6. ASSUME NEW i \in Ids, Cancel(i) PROVE IInv'
  <2>1. /\ Pop(i, "cancel") /\ "cancel" \in Over
        /\ UNCHANGED <<jobs, hosted, inbox, late, told, caller, runner>>
    BY <1>6 DEF Cancel, Over
  <2>2. caller' \in [Callers -> CallerRecs] /\ runner' \in [Ids -> RunnerRecs]
    BY <2>1 DEF IInv, TypeOK
  <2> QED BY <2>1, <2>2, EndKeeps
<1>7. ASSUME NEW i \in Ids, EngineFails(i) \/ Finish(i) PROVE IInv'
  <2>1. PICK j \in Ids, o \in Over : Pop(j, o) \/ PopFails(j)
    <3>1. CASE EngineFails(i)
      BY <3>1 DEF EngineFails, Over
    <3>2. CASE Finish(i)
      <4>1. runner[i].job \in Ids
        BY <3>2, JobIds DEF IInv, RunnerInv, Busy, Finish
      <4>2. Outcomes(jobs[runner[i].job].kind) \subseteq Over
        BY DEF Outcomes, Over
      <4> QED BY <3>2, <4>1, <4>2 DEF Finish
    <3> QED BY <1>7, <3>1, <3>2
  <2>2. /\ UNCHANGED <<jobs, hosted, inbox, late, told, caller>>
        /\ runner[i].pc # "none" /\ runner' = [runner EXCEPT ![i].pc = "gone"]
    BY <1>7 DEF EngineFails, Finish
  <2>3. /\ runner' \in [Ids -> RunnerRecs]
        /\ \A m \in Ids : \/ runner'[m] = runner[m]
                          \/ runner[m].pc # "none" /\ runner'[m].pc = "gone"
    <3>1. runner \in [Ids -> RunnerRecs]
      BY DEF IInv, TypeOK
    <3>2. PICK r : r = [runner[i] EXCEPT !.pc = "gone"]
      OBVIOUS
    <3>3. r \in RunnerRecs /\ r.pc = "gone"
      <4>1. runner[i] \in RunnerRecs
        BY <3>1
      <4> QED BY <3>2, <4>1 DEF RunnerRecs
    <3>4. runner' = [runner EXCEPT ![i] = r]
      BY <2>2, <3>1, <3>2
    <3> QED BY <2>2, <3>1, <3>3, <3>4
  <2>4. caller' \in [Callers -> CallerRecs]
    BY <2>2 DEF IInv, TypeOK
  <2> QED BY <2>1, <2>2, <2>3, <2>4, EndKeeps
<1>8. ASSUME NEW i \in Ids, Take(i) PROVE IInv'
  BY <1>8, TakeKeepsIInv
<1>9. ASSUME NEW i \in Ids,
             TakeNothing(i) \/ Emit(i) \/ EngineUp(i) \/ EngineDestroyed(i)
      PROVE  IInv'
  <2>1. /\ UNCHANGED <<jobs, pending, inflight, hosted, caller, finish, told, inbox, late>>
        /\ inbox' \in [Ids -> Seq({"item", "result", "error", "end"})]
        /\ late' \in [Ids -> Nat]
    BY <1>9 DEF TakeNothing, Emit, EngineUp, EngineDestroyed, IInv, TypeOK
  <2>2. CASE Emit(i)
    <3>1. /\ runner' = [runner EXCEPT ![i].pc = "sending"]
          /\ runner[i].pc # "none" /\ Busy(i) /\ jobs[runner[i].job].kind = "stream"
      BY <2>2 DEF Emit, Busy
    <3> QED BY <2>1, <3>1, MoveKeeps
  <2>3. CASE EngineUp(i)
    <3>1. runner' = [runner EXCEPT ![i].pc = "started"] /\ runner[i].pc # "none"
      BY <2>3 DEF EngineUp
    <3> QED BY <2>1, <3>1, MoveKeeps
  <2>4. CASE TakeNothing(i) \/ EngineDestroyed(i)
    <3>1. runner' = [runner EXCEPT ![i].pc = "gone"] /\ runner[i].pc # "none"
      BY <2>4 DEF TakeNothing, EngineDestroyed
    <3> QED BY <2>1, <3>1, MoveKeeps
  <2> QED BY <1>9, <2>2, <2>3, <2>4
<1>10. ASSUME NEW i \in Ids, EmitPost(i) PROVE IInv'
  <2>1. /\ runner' = [runner EXCEPT ![i].pc = "running"]
        /\ runner[i].pc # "none" /\ Busy(i)
        /\ UNCHANGED <<jobs, pending, inflight, hosted, caller, finish, told>>
    BY <1>10 DEF EmitPost, Busy
  <2>2. runner[i].job \in Ids
    BY <2>1, JobIds DEF IInv, RunnerInv
  <2>3. /\ inbox' \in [Ids -> Seq({"item", "result", "error", "end"})]
        /\ late' \in [Ids -> Nat]
    <3>1. /\ inbox \in [Ids -> Seq({"item", "result", "error", "end"})]
          /\ late \in [Ids -> Nat]
      BY DEF IInv, TypeOK
    <3>2. inbox' = [inbox EXCEPT ![runner[i].job] = Append(@, "item")]
      BY <1>10 DEF EmitPost
    <3>3. late' = late \/ late' = [late EXCEPT ![runner[i].job] = @ + 1]
      BY <1>10 DEF EmitPost
    <3>4. inbox[runner[i].job] \in Seq({"item", "result", "error", "end"})
      BY <2>2, <3>1
    <3>5. Append(inbox[runner[i].job], "item") \in Seq({"item", "result", "error", "end"})
      BY <3>4
    <3>6. inbox' \in [Ids -> Seq({"item", "result", "error", "end"})]
      BY <2>2, <3>1, <3>2, <3>5
    <3>7. late' \in [Ids -> Nat]
      BY <2>2, <3>1, <3>3
    <3> QED BY <3>6, <3>7
  <2> QED BY <2>1, <2>3, MoveKeeps
<1>11. ASSUME NEW i \in Ids, PostOutcome(i) \/ NotifyDone(i) PROVE IInv'
  BY <1>11, OutcomeKeeps
<1> QED BY <1>1, <1>2, <1>3, <1>4, <1>5, <1>6, <1>7, <1>8, <1>9, <1>10, <1>11
        DEF JobsNext, CallerStep, IsolateStep

-----------------------------------------------------------------------------
(* The table keeps its types.                                              *)
THEOREM TypeCorrect == JobsSpec => []TypeOK
<1>1. IInv => TypeOK
  BY DEF IInv
<1> QED BY <1>1, InitIInv, StepIInv, PTL DEF JobsSpec

(* A job is in the queue once, or in flight, or over, whoever submits,     *)
(* takes, cancels, fails or completes it and whatever the hosts do.        *)
THEOREM TableCorrect == JobsSpec => []TableInv
<1>1. IInv => TableInv
  BY DEF IInv
<1> QED BY <1>1, InitIInv, StepIInv, PTL DEF JobsSpec

(* The host hears of a job at most once and only when it is over.          *)
THEOREM HostToldOnce == JobsSpec => []ToldOnce
<1>1. IInv => ToldOnce
  BY DEF IInv
<1> QED BY <1>1, InitIInv, StepIInv, PTL DEF JobsSpec

(* No job is given to two isolates, also by hosts whose engines ask for    *)
(* the oldest job of an entry (HostPassesId is not used).                  *)
THEOREM JobsRunOnce == JobsSpec => []OneIsolatePerJob
<1>1. IInv => OneIsolatePerJob
  BY DEF IInv, RunnerInv, OneIsolatePerJob, Holds, Busy
<1> QED BY <1>1, InitIInv, StepIInv, PTL DEF JobsSpec

-----------------------------------------------------------------------------
(* What a step does to one job m, its isolate and its port, if isolates    *)
(* run their own jobs.                                                     *)
Alone(m) ==
  /\ m \in inflight' <=> m \in inflight
  /\ UNCHANGED <<runner[m], finish[m], inbox[m], late[m]>>

IsolateIdles(m) ==
  /\ ~Busy(m)' /\ m \notin inflight'
  /\ UNCHANGED <<finish[m], inbox[m], late[m]>>
IsolateTakes(m) ==
  /\ finish[m].pc = "no"
  /\ runner'[m].pc = "running" /\ runner'[m].job = m
  /\ UNCHANGED <<finish[m], inbox[m], late[m]>>
IsolateSends(m) ==
  /\ m \in inflight
  /\ Busy(m) /\ Busy(m)' /\ runner'[m].job = runner[m].job
  /\ UNCHANGED <<finish[m], inbox[m], late[m]>>
IsolateSent(m) ==
  /\ runner[m].pc = "sending" /\ runner'[m].pc = "running" /\ runner'[m].job = runner[m].job
  /\ m \in inflight' <=> m \in inflight
  /\ inbox'[m] = Append(inbox[m], "item")
  /\ late'[m] = IF finish[m].pc = "no" THEN late[m] ELSE late[m] + 1
  /\ finish'[m] = finish[m]
Ended(m) ==
  /\ m \notin inflight'
  /\ \/ finish'[m] = finish[m]
     \/ finish[m].pc = "no" /\ finish'[m].pc = "post"
  /\ \/ ~Busy(m)'
     \/ runner'[m] = runner[m] /\ (finish'[m] = finish[m] \/ finish'[m].outcome = "cancel")
  /\ UNCHANGED <<inbox[m], late[m]>>
OutcomePosted(m) ==
  /\ m \in inflight' <=> m \in inflight
  /\ finish[m].pc = "post" /\ finish'[m].pc = "notify"
  /\ finish'[m].outcome = finish[m].outcome
  /\ \/ inbox'[m] = inbox[m]
     \/ /\ jobs[m].kind # "native" /\ finish[m].outcome # "cancel"
        /\ inbox'[m] = Append(inbox[m], finish[m].outcome)
  /\ UNCHANGED <<runner[m], late[m]>>
HostTold(m) ==
  /\ m \in inflight' <=> m \in inflight
  /\ finish[m].pc = "notify" /\ finish'[m].pc = "done"
  /\ finish'[m].outcome = finish[m].outcome
  /\ UNCHANGED <<runner[m], inbox[m], late[m]>>

JobStep(m) ==
  \/ Alone(m) \/ IsolateIdles(m) \/ IsolateTakes(m) \/ IsolateSends(m) \/ IsolateSent(m)
  \/ Ended(m) \/ OutcomePosted(m) \/ HostTold(m)

\* The jobs submitted so far stay what they are.
JobsKept == \A m \in DOMAIN jobs : m \in DOMAIN jobs' /\ jobs'[m] = jobs[m]

LEMMA StepOfJob ==
  ASSUME HostPassesId, IInv, OwnJob, [JobsNext]_jobVars
  PROVE  JobsKept /\ \A m \in Ids : JobStep(m)
<1>0. /\ runner \in [Ids -> RunnerRecs] /\ finish \in [Ids -> FinishRecs]
      /\ inbox \in [Ids -> Seq({"item", "result", "error", "end"})]
      /\ late \in [Ids -> Nat] /\ DOMAIN jobs \subseteq Ids
  BY JobIds DEF IInv, TypeOK
<1>1. CASE UNCHANGED jobVars \/ RegisterHost
  BY <1>1 DEF jobVars, RegisterHost, JobsKept, JobStep, Alone
<1>2. ASSUME NEW c \in Callers, NEW e \in Entries, NEW kind \in Kinds, Submit(c, e, kind)
      PROVE  JobsKept /\ \A m \in Ids : JobStep(m)
  <2>1. JobsKept
    <3>1. jobs \in Seq([entry : Entries, kind : Kinds])
      BY DEF IInv, TypeOK
    <3>2. jobs' = Append(jobs, [entry |-> e, kind |-> kind])
      BY <1>2 DEF Submit
    <3> QED BY <3>1, <3>2 DEF JobsKept
  <2> QED BY <1>2, <2>1 DEF Submit, JobStep, Alone
<1>3. ASSUME NEW c \in Callers, StartOnHost(c) \/ StartFallback(c) \/ StartRefused(c)
      PROVE  JobsKept /\ \A m \in Ids : JobStep(m)
  <2>0. PICK i \in Ids : i = caller[c].job
    BY <1>0, <1>3 DEF StartOnHost, StartFallback, StartRefused, IInv, CallerInv
  <2>1. UNCHANGED <<jobs, inflight, finish, inbox, late>> /\ runner[i].pc = "none"
    BY <2>0, <1>3 DEF StartOnHost, StartFallback, StartRefused, IInv, CallerInv
  <2>2. i \notin inflight
    BY <2>1 DEF OwnJob, Busy
  <2>3. /\ \A m \in Ids \ {i} : runner'[m] = runner[m]
        /\ runner'[i].pc \in {"none", "asked", "started"}
    BY <1>0, <1>3, <2>0, <2>1 DEF StartOnHost, StartFallback, StartRefused
  <2>4. \A m \in Ids \ {i} : Alone(m)
    BY <2>1, <2>3 DEF Alone
  <2>5. IsolateIdles(i)
    BY <2>1, <2>2, <2>3 DEF IsolateIdles, Busy
  <2> QED BY <2>1, <2>4, <2>5 DEF JobStep, JobsKept
<1>4. ASSUME NEW c \in Callers, CancelRefused(c)
      PROVE  JobsKept /\ \A m \in Ids : JobStep(m)
  <2>0. PICK i \in Ids : i = caller[c].job
    BY <1>0, <1>4 DEF CancelRefused, IInv, CallerInv
  <2>1. /\ Pop(i, "cancel") \/ PopFails(i)
        /\ TypeOK /\ TableInv
        /\ UNCHANGED <<jobs, runner, inbox, late>>
    BY <1>4, <2>0 DEF CancelRefused, IInv
  <2>2. /\ inflight' = inflight \ {i}
        /\ \/ /\ finish[i].pc = "no"
              /\ finish' = [finish EXCEPT ![i] = [pc |-> "post", outcome |-> "cancel"]]
           \/ finish' = finish
    BY <2>1, PopOrFail
  <2>3. Ended(i) /\ \A m \in Ids \ {i} : Alone(m)
    BY <1>0, <2>1, <2>2 DEF Ended, Alone
  <2> QED BY <2>1, <2>3 DEF JobStep, JobsKept
<1>5. ASSUME NEW i \in Ids, Cancel(i)
      PROVE  JobsKept /\ \A m \in Ids : JobStep(m)
  <2>1. /\ Pop(i, "cancel") \/ PopFails(i)
        /\ TypeOK /\ TableInv
        /\ UNCHANGED <<jobs, runner, inbox, late>>
    BY <1>5 DEF Cancel, IInv
  <2>2. /\ inflight' = inflight \ {i}
        /\ \/ /\ finish[i].pc = "no"
              /\ finish' = [finish EXCEPT ![i] = [pc |-> "post", outcome |-> "cancel"]]
           \/ finish' = finish
    BY <2>1, PopOrFail
  <2>3. Ended(i) /\ \A m \in Ids \ {i} : Alone(m)
    BY <1>0, <2>1, <2>2 DEF Ended, Alone
  <2> QED BY <2>1, <2>3 DEF JobStep, JobsKept
<1>6. ASSUME NEW i \in Ids, EngineFails(i) \/ Finish(i)
      PROVE  JobsKept /\ \A m \in Ids : JobStep(m)
  <2>1. PICK o : Pop(i, o) \/ PopFails(i)
    <3>1. CASE EngineFails(i)
      BY <3>1 DEF EngineFails
    <3>2. CASE Finish(i)
      BY <3>2 DEF Finish, OwnJob, Busy
    <3> QED BY <1>6, <3>1, <3>2
  <2>2. /\ UNCHANGED <<jobs, inbox, late>>
        /\ runner' = [runner EXCEPT ![i].pc = "gone"]
        /\ TypeOK /\ TableInv
    BY <1>6 DEF EngineFails, Finish, IInv
  <2>3. /\ inflight' = inflight \ {i}
        /\ \/ /\ finish[i].pc = "no"
              /\ finish' = [finish EXCEPT ![i] = [pc |-> "post", outcome |-> o]]
           \/ finish' = finish
    BY <2>1, <2>2, PopOrFail
  <2>4. ~Busy(i)' /\ \A m \in Ids \ {i} : runner'[m] = runner[m]
    BY <1>0, <2>2 DEF Busy, RunnerRecs
  <2>5. Ended(i) /\ \A m \in Ids \ {i} : Alone(m)
    BY <1>0, <2>2, <2>3, <2>4 DEF Ended, Alone
  <2> QED BY <2>2, <2>5 DEF JobStep, JobsKept
<1>7. ASSUME NEW i \in Ids, Take(i)
      PROVE  JobsKept /\ \A m \in Ids : JobStep(m)
  <2>1. /\ \E k \in DOMAIN pending : pending[k] = i
        /\ inflight' = inflight \cup {i}
        /\ runner' = [runner EXCEPT ![i].pc = "running", ![i].job = i]
        /\ UNCHANGED <<jobs, finish, inbox, late>>
    BY <1>7 DEF Take, Takes, Fits
  <2>2. finish[i].pc = "no"
    BY <2>1 DEF IInv, TableInv, Active, Queued
  <2>3. /\ runner'[i].pc = "running" /\ runner'[i].job = i
        /\ \A m \in Ids \ {i} : runner'[m] = runner[m]
    BY <1>0, <2>1 DEF RunnerRecs
  <2>4. IsolateTakes(i) /\ \A m \in Ids \ {i} : Alone(m)
    BY <2>1, <2>2, <2>3 DEF IsolateTakes, Alone
  <2> QED BY <2>1, <2>4 DEF JobStep, JobsKept
<1>8. ASSUME NEW i \in Ids, TakeNothing(i) \/ EngineUp(i) \/ EngineDestroyed(i)
      PROVE  JobsKept /\ \A m \in Ids : JobStep(m)
  <2>1. UNCHANGED <<jobs, inflight, finish, inbox, late>>
    BY <1>8 DEF TakeNothing, EngineUp, EngineDestroyed
  <2>2. ~Busy(i)' /\ \A m \in Ids \ {i} : runner'[m] = runner[m]
    BY <1>0, <1>8 DEF TakeNothing, EngineUp, EngineDestroyed, Busy, RunnerRecs
  <2>3. i \notin inflight
    <3>1. CASE TakeNothing(i) \/ EngineUp(i)
      BY <3>1 DEF TakeNothing, EngineUp, OwnJob, Busy
    <3>2. CASE EngineDestroyed(i)
      BY <3>2 DEF EngineDestroyed, IInv, ToldOnce, TableInv, Active
    <3> QED BY <1>8, <3>1, <3>2
  <2>4. IsolateIdles(i) /\ \A m \in Ids \ {i} : Alone(m)
    BY <2>1, <2>2, <2>3 DEF IsolateIdles, Alone
  <2> QED BY <2>1, <2>4 DEF JobStep, JobsKept
<1>9. ASSUME NEW i \in Ids, Emit(i)
      PROVE  JobsKept /\ \A m \in Ids : JobStep(m)
  <2>1. /\ UNCHANGED <<jobs, inflight, finish, inbox, late>>
        /\ runner' = [runner EXCEPT ![i].pc = "sending"]
        /\ runner[i].pc = "running" /\ i \in inflight
    BY <1>9 DEF Emit, OwnJob, Busy
  <2>2. /\ Busy(i) /\ Busy(i)' /\ runner'[i].job = runner[i].job
        /\ \A m \in Ids \ {i} : runner'[m] = runner[m]
    BY <1>0, <2>1 DEF Busy, RunnerRecs
  <2>3. IsolateSends(i) /\ \A m \in Ids \ {i} : Alone(m)
    BY <2>1, <2>2 DEF IsolateSends, Alone
  <2> QED BY <2>1, <2>3 DEF JobStep, JobsKept
<1>10. ASSUME NEW i \in Ids, EmitPost(i)
       PROVE  JobsKept /\ \A m \in Ids : JobStep(m)
  <2>1. runner[i].job = i
    BY <1>10 DEF EmitPost, OwnJob, Busy
  <2>2. /\ UNCHANGED <<jobs, inflight, finish>>
        /\ inbox' = [inbox EXCEPT ![i] = Append(@, "item")]
        /\ late' = IF finish[i].pc = "no" THEN late ELSE [late EXCEPT ![i] = @ + 1]
        /\ runner' = [runner EXCEPT ![i].pc = "running"]
        /\ runner[i].pc = "sending"
    BY <1>10, <2>1 DEF EmitPost
  <2>3. /\ runner'[i].pc = "running" /\ runner'[i].job = runner[i].job
        /\ \A m \in Ids \ {i} : runner'[m] = runner[m]
    BY <1>0, <2>2 DEF RunnerRecs
  <2>4. IsolateSent(i) /\ \A m \in Ids \ {i} : Alone(m)
    BY <1>0, <2>2, <2>3 DEF IsolateSent, Alone
  <2> QED BY <2>2, <2>4 DEF JobStep, JobsKept
<1>11. ASSUME NEW i \in Ids, PostOutcome(i)
       PROVE  JobsKept /\ \A m \in Ids : JobStep(m)
  <2>1. /\ UNCHANGED <<jobs, inflight, runner, late>>
        /\ finish[i].pc = "post" /\ finish' = [finish EXCEPT ![i].pc = "notify"]
        /\ \/ inbox' = inbox
           \/ /\ jobs[i].kind # "native" /\ finish[i].outcome # "cancel"
              /\ inbox' = [inbox EXCEPT ![i] = Append(@, finish[i].outcome)]
    BY <1>11 DEF PostOutcome
  <2>2. /\ finish'[i].pc = "notify" /\ finish'[i].outcome = finish[i].outcome
        /\ \A m \in Ids \ {i} : finish'[m] = finish[m]
    BY <1>0, <2>1 DEF FinishRecs
  <2>3. OutcomePosted(i) /\ \A m \in Ids \ {i} : Alone(m)
    BY <1>0, <2>1, <2>2 DEF OutcomePosted, Alone
  <2> QED BY <2>1, <2>3 DEF JobStep, JobsKept
<1>12. ASSUME NEW i \in Ids, NotifyDone(i)
       PROVE  JobsKept /\ \A m \in Ids : JobStep(m)
  <2>1. /\ UNCHANGED <<jobs, inflight, runner, inbox, late>>
        /\ finish[i].pc = "notify" /\ finish' = [finish EXCEPT ![i].pc = "done"]
    BY <1>12 DEF NotifyDone
  <2>2. /\ finish'[i].pc = "done" /\ finish'[i].outcome = finish[i].outcome
        /\ \A m \in Ids \ {i} : finish'[m] = finish[m]
    BY <1>0, <2>1 DEF FinishRecs
  <2>3. HostTold(i) /\ \A m \in Ids \ {i} : Alone(m)
    BY <2>1, <2>2 DEF HostTold, Alone
  <2> QED BY <2>1, <2>3 DEF JobStep, JobsKept
<1> QED BY <1>1, <1>2, <1>3, <1>4, <1>5, <1>6, <1>7, <1>8, <1>9, <1>10, <1>11, <1>12
        DEF JobsNext, CallerStep, IsolateStep

LEMMA StepPortInv ==
  ASSUME HostPassesId, IInv, PortInv, [JobsNext]_jobVars
  PROVE  PortInv'
<1>1. JobsKept /\ \A m \in Ids : JobStep(m)
  BY StepOfJob DEF PortInv
<1>2. OwnJob'
  <2> SUFFICES ASSUME NEW m \in Ids
               PROVE  /\ Busy(m)' => /\ runner'[m].job = m
                                     /\ finish'[m].pc = "no" \/ finish'[m].outcome = "cancel"
                      /\ m \in inflight' => Busy(m)'
    BY DEF OwnJob
  <2>1. /\ Busy(m) => runner[m].job = m /\ (finish[m].pc = "no" \/ finish[m].outcome = "cancel")
        /\ m \in inflight => Busy(m)
    BY DEF PortInv, OwnJob
  <2>2. CASE Alone(m) \/ OutcomePosted(m) \/ HostTold(m)
    BY <2>1, <2>2 DEF Alone, OutcomePosted, HostTold, Busy
  <2>3. CASE IsolateIdles(m) \/ IsolateTakes(m) \/ IsolateSends(m) \/ IsolateSent(m)
    BY <2>1, <2>3 DEF IsolateIdles, IsolateTakes, IsolateSends, IsolateSent, Busy
  <2>4. CASE Ended(m)
    BY <2>1, <2>4 DEF Ended, Busy
  <2> QED BY <1>1, <2>2, <2>3, <2>4 DEF JobStep
<1>3. LateInv'
  <2> SUFFICES ASSUME NEW m \in Ids, late'[m] > 0
               PROVE  /\ late'[m] = 1 /\ finish'[m].pc # "no" /\ finish'[m].outcome = "cancel"
                      /\ runner'[m].pc # "sending"
    BY DEF LateInv
  <2>1. /\ late[m] \in Nat
        /\ late[m] > 0 => /\ late[m] = 1 /\ finish[m].pc # "no" /\ finish[m].outcome = "cancel"
                          /\ runner[m].pc # "sending"
    BY DEF IInv, TypeOK, PortInv, LateInv
  <2>2. CASE Alone(m) \/ OutcomePosted(m) \/ HostTold(m) \/ IsolateIdles(m)
    BY <2>1, <2>2 DEF Alone, OutcomePosted, HostTold, IsolateIdles, Busy
  <2>3. CASE IsolateTakes(m) \/ Ended(m)
    BY <2>1, <2>3 DEF IsolateTakes, Ended, Busy
  <2>4. CASE IsolateSends(m)
    <3>1. finish[m].pc = "no"
      BY <2>4 DEF IsolateSends, IInv, TableInv, Active
    <3> QED BY <2>1, <2>4, <3>1 DEF IsolateSends
  <2>5. CASE IsolateSent(m)
    <3>1. late[m] = 0 /\ finish'[m] = finish[m] /\ runner'[m].pc = "running"
      BY <2>1, <2>5 DEF IsolateSent
    <3>2. finish[m].pc # "no" /\ late'[m] = 1
      BY <2>5, <3>1 DEF IsolateSent
    <3>3. finish[m].outcome = "cancel"
      BY <2>5, <3>2 DEF IsolateSent, PortInv, OwnJob, Busy
    <3> QED BY <3>1, <3>2, <3>3
  <2> QED BY <1>1, <2>2, <2>3, <2>4, <2>5 DEF JobStep
<1>4. BoxInv'
  <2> SUFFICES ASSUME NEW m \in Ids, NEW k \in DOMAIN inbox'[m]
               PROVE  /\ m \in DOMAIN jobs'
                      /\ jobs'[m].kind # "native"
                      /\ inbox'[m][k] = "item" => jobs'[m].kind = "stream"
                      /\ inbox'[m][k] \in Messages =>
                           /\ k = Len(inbox'[m]) /\ inbox'[m][k] = finish'[m].outcome
                           /\ finish'[m].pc \in {"notify", "done"}
                           /\ finish'[m].outcome # "cancel"
    BY DEF BoxInv
  <2> DEFINE Box(n) == /\ m \in DOMAIN jobs
                       /\ jobs[m].kind # "native"
                       /\ inbox[m][n] = "item" => jobs[m].kind = "stream"
                       /\ inbox[m][n] \in Messages =>
                            /\ n = Len(inbox[m]) /\ inbox[m][n] = finish[m].outcome
                            /\ finish[m].pc \in {"notify", "done"}
                            /\ finish[m].outcome # "cancel"
  <2>1. /\ inbox[m] \in Seq({"item", "result", "error", "end"})
        /\ \A n \in DOMAIN inbox[m] : Box(n)
        /\ m \in DOMAIN jobs => m \in DOMAIN jobs' /\ jobs'[m] = jobs[m]
    BY <1>1 DEF IInv, TypeOK, PortInv, BoxInv, JobsKept
  <2>2. CASE /\ inbox'[m] = inbox[m]
             /\ \/ finish'[m] = finish[m]
                \/ finish[m].pc \notin {"notify", "done"}
                \/ finish'[m].pc \in {"notify", "done"} /\ finish'[m].outcome = finish[m].outcome
    BY <2>1, <2>2
  <2>3. CASE Alone(m) \/ HostTold(m) \/ IsolateIdles(m) \/ IsolateTakes(m)
             \/ IsolateSends(m) \/ Ended(m) \/ (OutcomePosted(m) /\ inbox'[m] = inbox[m])
    BY <2>2, <2>3 DEF Alone, HostTold, IsolateIdles, IsolateTakes, IsolateSends, Ended,
                      OutcomePosted
  <2>4. CASE IsolateSent(m)
    <3>1. /\ runner[m].job = m /\ (finish[m].pc = "no" \/ finish[m].outcome = "cancel")
          /\ m \in DOMAIN jobs /\ jobs[m].kind = "stream"
      BY <2>4 DEF IsolateSent, PortInv, OwnJob, Busy, IInv, RunnerInv
    <3>2. inbox'[m] = Append(inbox[m], "item") /\ "item" \notin Messages
      BY <2>4 DEF IsolateSent, Messages
    <3>3. \A n \in DOMAIN inbox[m] : inbox[m][n] \notin Messages
      BY <2>1, <3>1
    <3>4. \/ k \in DOMAIN inbox[m] /\ inbox'[m][k] = inbox[m][k]
          \/ inbox'[m][k] = "item"
      BY <2>1, <3>2
    <3> QED BY <2>1, <3>1, <3>2, <3>3, <3>4
  <2>5. CASE OutcomePosted(m) /\ inbox'[m] # inbox[m]
    <3>1. /\ jobs[m].kind # "native" /\ finish[m].outcome # "cancel"
          /\ inbox'[m] = Append(inbox[m], finish[m].outcome)
          /\ finish[m].pc = "post" /\ finish'[m].pc = "notify"
          /\ finish'[m].outcome = finish[m].outcome
      BY <2>5 DEF OutcomePosted
    <3>2. m \in DOMAIN jobs /\ finish[m].outcome \in Over
      BY <3>1 DEF IInv, FinishInv
    <3>3. \A n \in DOMAIN inbox[m] : inbox[m][n] \notin Messages
      BY <2>1, <3>1
    <3>4. \/ k \in DOMAIN inbox[m] /\ inbox'[m][k] = inbox[m][k]
          \/ k = Len(inbox'[m]) /\ inbox'[m][k] = finish[m].outcome
      BY <2>1, <3>1
    <3> QED BY <2>1, <3>1, <3>2, <3>3, <3>4 DEF Over
  <2> QED BY <1>1, <2>3, <2>4, <2>5 DEF JobStep
<1> QED BY <1>2, <1>3, <1>4 DEF PortInv

LEMMA InitPortInv == JobsInit => PortInv
BY DEF JobsInit, PortInv, OwnJob, LateInv, BoxInv, Busy, NoRunner

LEMMA PortCorrect == ASSUME HostPassesId PROVE JobsSpec => [](IInv /\ PortInv)
<1>1. IInv /\ PortInv /\ [JobsNext]_jobVars => (IInv /\ PortInv)'
  BY StepIInv, StepPortInv
<1> QED BY <1>1, InitIInv, InitPortInv, PTL DEF JobsSpec

(* With hosts that pass the job id: a submitter's port sees items and then *)
(* at most one outcome, the one its job was popped with, as the last       *)
(* message.                                                                *)
THEOREM PortKeepsProtocol == ASSUME HostPassesId PROVE JobsSpec => []PortProtocol
<1>1. IInv /\ PortInv => PortProtocol
  BY JobIds DEF IInv, PortInv, BoxInv, PortProtocol
<1> QED BY <1>1, PortCorrect, PTL

(* With such hosts at most one item follows a cancel and none an outcome.  *)
THEOREM OneItemLate == ASSUME HostPassesId PROVE JobsSpec => []AtMostOneLateItem
<1>1. IInv /\ PortInv => AtMostOneLateItem
  BY DEF IInv, TypeOK, PortInv, LateInv, AtMostOneLateItem
<1> QED BY <1>1, PortCorrect, PTL

(* With such hosts a job in flight has an isolate that works on it.        *)
THEOREM JobsHaveIsolates == ASSUME HostPassesId PROVE JobsSpec => []InflightHasIsolate
<1>1. IInv /\ PortInv => InflightHasIsolate
  BY DEF IInv, TypeOK, PortInv, OwnJob, InflightHasIsolate, Holds, Busy
<1> QED BY <1>1, PortCorrect, PTL

-----------------------------------------------------------------------------
(* The table implements JobLifecycle.  A job's kind and status change only *)
(* with its own record, its place in the queue and its late items.         *)
KindOf(i)  == IF i \in DOMAIN jobs THEN jobs[i].kind ELSE "none"
LifeKind   == [i \in Ids |-> IF i \in DOMAIN jobs THEN jobs[i].kind ELSE "none"]
LifeStatus == [i \in Ids |-> Status(i)]

\* Only native code takes a job back that its host refused.
RefusedNative ==
  \A c \in Callers : caller[c].pc = "cancel" => jobs[caller[c].job].kind = "native"

LEMMA RefusedStep ==
  ASSUME IInv, RefusedNative, [JobsNext]_jobVars
  PROVE  RefusedNative'
<1>0. caller \in [Callers -> CallerRecs] /\ jobs \in Seq([entry : Entries, kind : Kinds])
  BY DEF IInv, TypeOK
<1>1. CASE UNCHANGED <<caller, jobs>>
  BY <1>1 DEF RefusedNative
<1>2. ASSUME NEW c \in Callers, NEW e \in Entries, NEW kind \in Kinds, Submit(c, e, kind)
      PROVE  RefusedNative'
  <2>1. /\ jobs' = Append(jobs, [entry |-> e, kind |-> kind])
        /\ caller' = [caller EXCEPT ![c] =
                        [pc |-> "start", job |-> Len(jobs) + 1, host |-> hosted]]
    BY <1>2 DEF Submit
  <2>2. \A m \in DOMAIN jobs : jobs'[m] = jobs[m]
    BY <1>0, <2>1
  <2>3. \A d \in Callers : caller'[d].pc = "cancel" =>
          caller'[d] = caller[d] /\ caller[d].job \in DOMAIN jobs
    BY <1>0, <2>1 DEF IInv, CallerInv
  <2> QED BY <2>2, <2>3 DEF RefusedNative
<1>3. ASSUME NEW c \in Callers, StartRefused(c) PROVE RefusedNative'
  BY <1>0, <1>3 DEF StartRefused, RefusedNative, CallerRecs
<1>4. ASSUME NEW c \in Callers, StartOnHost(c) \/ StartFallback(c) \/ CancelRefused(c)
      PROVE  RefusedNative'
  <2>1. caller' = [caller EXCEPT ![c] = AtRest] /\ jobs' = jobs
    BY <1>4 DEF StartOnHost, StartFallback, CancelRefused
  <2> QED BY <1>0, <2>1 DEF RefusedNative, AtRest
<1>5. ASSUME NEW i \in Ids,
             \/ Cancel(i) \/ PostOutcome(i) \/ NotifyDone(i) \/ EngineUp(i)
             \/ EngineFails(i) \/ EngineDestroyed(i) \/ IsolateStep(i)
      PROVE  UNCHANGED <<caller, jobs>>
  BY <1>5 DEF Cancel, PostOutcome, NotifyDone, EngineUp, EngineFails, EngineDestroyed,
              IsolateStep, Take, TakeNothing, Emit, EmitPost, Finish
<1>6. RegisterHost \/ UNCHANGED jobVars => UNCHANGED <<caller, jobs>>
  BY DEF RegisterHost, jobVars
<1> QED BY <1>1, <1>2, <1>3, <1>4, <1>5, <1>6 DEF JobsNext, CallerStep

\* A job that is not over has no outcome.
NoOutcomeYet == \A i \in Ids : finish[i].pc = "no" => finish[i].outcome = "none"

LEMMA NoOutcomeStep ==
  ASSUME HostPassesId, IInv, PortInv, NoOutcomeYet, [JobsNext]_jobVars
  PROVE  NoOutcomeYet'
<1>1. \A m \in Ids : JobStep(m)
  BY StepOfJob DEF PortInv
<1>2. \A m \in Ids : finish'[m] = finish[m] \/ finish'[m].pc # "no"
  BY <1>1 DEF JobStep, Alone, IsolateIdles, IsolateTakes, IsolateSends, IsolateSent, Ended,
              OutcomePosted, HostTold
<1> QED BY <1>2 DEF NoOutcomeYet

StatusOf(i) ==
  IF i \notin DOMAIN jobs THEN "none"
  ELSE IF finish[i].pc = "no" THEN IF Queued(i) THEN "waiting" ELSE "running"
  ELSE IF jobs[i].kind = "native" THEN "closed"
  ELSE IF finish[i].outcome = "cancel"
       THEN IF late[i] = 0 THEN "cancelled" ELSE "closed"
  ELSE IF finish[i].pc = "post" THEN finish[i].outcome ELSE "closed"

\* The cases of Status exclude each other, before a step and after it.
LEMMA StatusIs ==
  ASSUME NEW i \in Ids
  PROVE  /\ IInv /\ NoOutcomeYet => Status(i) = StatusOf(i)
         /\ IInv' /\ NoOutcomeYet' => Status(i)' = StatusOf(i)'
<1>1. IInv /\ NoOutcomeYet => /\ i \notin DOMAIN jobs => finish[i].pc = "no"
                              /\ finish[i].pc = "no" => finish[i].outcome # "cancel"
  BY DEF IInv, FinishInv, NoOutcomeYet
<1>2. IInv' /\ NoOutcomeYet' => /\ i \notin DOMAIN jobs' => finish'[i].pc = "no"
                                /\ finish'[i].pc = "no" => finish'[i].outcome # "cancel"
  BY DEF IInv, FinishInv, NoOutcomeYet
<1>3. IInv /\ NoOutcomeYet => Status(i) = StatusOf(i)
  BY <1>1 DEF Status, StatusOf
<1>4. IInv' /\ NoOutcomeYet' => Status(i)' = StatusOf(i)'
  BY <1>2 DEF Status, StatusOf
<1> QED BY <1>3, <1>4

\* Nothing of job m changes that its submitter could see.
Quiet(m) == Status(m)' = Status(m) /\ KindOf(m)' = KindOf(m) /\ inbox'[m] = inbox[m]

LEMMA QuietBecause ==
  ASSUME IInv, NoOutcomeYet, IInv', NoOutcomeYet',
         NEW m \in Ids, m \in DOMAIN jobs <=> m \in DOMAIN jobs',
         m \in DOMAIN jobs => jobs'[m] = jobs[m],
         Queued(m)' <=> Queued(m),
         UNCHANGED <<finish[m], late[m], inbox[m]>>
  PROVE  Quiet(m)
<1>1. Status(m)' = Status(m)
  BY StatusIs DEF StatusOf
<1> QED BY <1>1 DEF Quiet, KindOf

\* A step of one job, as JobLifecycle sees it.
LEMMA LifeFrame ==
  ASSUME IInv, IInv', NEW i \in Ids, \A m \in Ids \ {i} : Quiet(m)
  PROVE  /\ LifeStatus' = [LifeStatus EXCEPT ![i] = Status(i)']
         /\ LifeKind' = [LifeKind EXCEPT ![i] = KindOf(i)']
         /\ inbox' = [inbox EXCEPT ![i] = inbox'[i]]
         /\ LifeStatus[i] = Status(i) /\ LifeKind[i] = KindOf(i)
<1>1. inbox' = [inbox EXCEPT ![i] = inbox'[i]]
  BY DEF Quiet, IInv, TypeOK
<1>2. LifeStatus' = [LifeStatus EXCEPT ![i] = Status(i)']
  BY DEF Quiet, LifeStatus
<1>3. LifeKind' = [LifeKind EXCEPT ![i] = KindOf(i)']
  BY DEF Quiet, LifeKind, KindOf
<1> QED BY <1>1, <1>2, <1>3 DEF LifeStatus, LifeKind, KindOf

\* The actions of JobLifecycle, by what they change of their job.
LEMMA LifeMoves ==
  ASSUME IInv, IInv', NEW i \in Ids, \A m \in Ids \ {i} : Quiet(m)
  PROVE  /\ /\ Status(i) = "none" /\ Status(i)' = "waiting" /\ KindOf(i)' \in Kinds
            /\ inbox'[i] = inbox[i]
            => Lifecycle!Submit(i)
         /\ /\ Status(i) = "waiting" /\ Status(i)' = "running" /\ KindOf(i)' = KindOf(i)
            /\ inbox'[i] = inbox[i]
            => Lifecycle!Begin(i)
         /\ /\ Status(i) = "running" /\ Status(i)' = "running" /\ KindOf(i) = "stream"
            /\ KindOf(i)' = KindOf(i) /\ inbox'[i] = Append(inbox[i], "item")
            => Lifecycle!Item(i)
         /\ /\ Status(i) \in {"result", "error", "end"} /\ Status(i)' = "closed"
            /\ KindOf(i)' = KindOf(i) /\ inbox'[i] = Append(inbox[i], Status(i))
            => Lifecycle!Answer(i)
         /\ /\ Status(i) = "cancelled" /\ Status(i)' = "closed" /\ KindOf(i) = "stream"
            /\ KindOf(i)' = KindOf(i) /\ inbox'[i] = Append(inbox[i], "item")
            => Lifecycle!LastItem(i)
         /\ \A o \in {"result", "error", "end", "cancelled"} :
              /\ Status(i) \in {"waiting", "running"}
              /\ o = "cancelled" => KindOf(i) # "future"
              /\ o = "result" => KindOf(i) # "stream"
              /\ o = "end" => KindOf(i) = "stream"
              /\ Status(i)' = IF KindOf(i) = "native" THEN "closed" ELSE o
              /\ KindOf(i)' = KindOf(i) /\ inbox'[i] = inbox[i]
              => Lifecycle!End(i, o)
<1>1. /\ LifeStatus' = [LifeStatus EXCEPT ![i] = Status(i)']
      /\ LifeKind' = [LifeKind EXCEPT ![i] = KindOf(i)']
      /\ inbox' = [inbox EXCEPT ![i] = inbox'[i]]
      /\ LifeStatus[i] = Status(i) /\ LifeKind[i] = KindOf(i)
  BY LifeFrame
<1>2. LifeKind = [LifeKind EXCEPT ![i] = KindOf(i)]
  BY <1>1 DEF LifeKind, KindOf
<1>3. inbox = [inbox EXCEPT ![i] = inbox[i]] /\ inbox \in [Ids -> Seq({"item", "result", "error", "end"})]
  BY DEF IInv, TypeOK
<1>4. ASSUME Status(i) = "none", Status(i)' = "waiting", KindOf(i)' \in Kinds,
             inbox'[i] = inbox[i]
      PROVE  Lifecycle!Submit(i)
  BY <1>1, <1>3, <1>4 DEF Lifecycle!Submit, LifeStatus, LifeKind, Kinds
<1>5. ASSUME Status(i) = "waiting", Status(i)' = "running", KindOf(i)' = KindOf(i),
             inbox'[i] = inbox[i]
      PROVE  Lifecycle!Begin(i)
  BY <1>1, <1>2, <1>3, <1>5 DEF Lifecycle!Begin, LifeStatus, LifeKind
<1>6. ASSUME Status(i) = "running", Status(i)' = "running", KindOf(i) = "stream",
             KindOf(i)' = KindOf(i), inbox'[i] = Append(inbox[i], "item")
      PROVE  Lifecycle!Item(i)
  <2>1. LifeStatus' = LifeStatus
    BY <1>1, <1>6 DEF LifeStatus
  <2> QED BY <1>1, <1>2, <1>6, <2>1 DEF Lifecycle!Item, LifeStatus, LifeKind
<1>7. ASSUME Status(i) \in {"result", "error", "end"}, Status(i)' = "closed",
             KindOf(i)' = KindOf(i), inbox'[i] = Append(inbox[i], Status(i))
      PROVE  Lifecycle!Answer(i)
  BY <1>1, <1>2, <1>7 DEF Lifecycle!Answer, LifeStatus, LifeKind
<1>8. ASSUME Status(i) = "cancelled", Status(i)' = "closed", KindOf(i) = "stream",
             KindOf(i)' = KindOf(i), inbox'[i] = Append(inbox[i], "item")
      PROVE  Lifecycle!LastItem(i)
  BY <1>1, <1>2, <1>8 DEF Lifecycle!LastItem, LifeStatus, LifeKind
<1>9. ASSUME NEW o \in {"result", "error", "end", "cancelled"},
             Status(i) \in {"waiting", "running"},
             o = "cancelled" => KindOf(i) # "future",
             o = "result" => KindOf(i) # "stream",
             o = "end" => KindOf(i) = "stream",
             Status(i)' = IF KindOf(i) = "native" THEN "closed" ELSE o,
             KindOf(i)' = KindOf(i), inbox'[i] = inbox[i]
      PROVE  Lifecycle!End(i, o)
  BY <1>1, <1>2, <1>3, <1>9 DEF Lifecycle!End, Lifecycle!Active, LifeStatus, LifeKind
<1> QED BY <1>4, <1>5, <1>6, <1>7, <1>8, <1>9

\* A step that changes no job is a stutter of JobLifecycle.
LEMMA LifeStutter ==
  ASSUME IInv, IInv', \A m \in Ids : Quiet(m)
  PROVE  UNCHANGED <<LifeKind, LifeStatus, inbox>>
<1>1. inbox' = inbox
  BY DEF Quiet, IInv, TypeOK
<1>2. LifeKind' = LifeKind
  BY DEF Quiet, LifeKind, KindOf
<1>3. LifeStatus' = LifeStatus
  BY DEF Quiet, LifeStatus
<1> QED BY <1>1, <1>2, <1>3

\* What the refinement rests on.
LifeInv == IInv /\ PortInv /\ RefusedNative /\ NoOutcomeYet

\* A method that ends job i: an end that its kind has, or it comes too late.
LEMMA LifeEnd ==
  ASSUME LifeInv, IInv', NoOutcomeYet', NEW i \in Ids, NEW o \in Over,
         Pop(i, o) \/ PopFails(i), UNCHANGED <<jobs, inbox, late>>,
         i \in DOMAIN jobs => /\ o = "cancel" => jobs[i].kind # "future"
                              /\ o = "result" => jobs[i].kind # "stream"
                              /\ o = "end" => jobs[i].kind = "stream"
  PROVE  [Lifecycle!Next]_<<LifeKind, LifeStatus, inbox>>
<1>1. /\ IInv /\ NoOutcomeYet /\ TypeOK /\ TableInv /\ TableInv'
      /\ late[i] \in Nat /\ finish \in [Ids -> FinishRecs]
      /\ late[i] > 0 => finish[i].pc # "no"
  BY DEF LifeInv, IInv, TypeOK, PortInv, LateInv
<1>2. /\ \A j : Queued(j)' <=> Queued(j) /\ j # i
      /\ inflight' = inflight \ {i}
      /\ \/ /\ finish[i].pc = "no" /\ i \in DOMAIN jobs
            /\ finish' = [finish EXCEPT ![i] = [pc |-> "post", outcome |-> o]]
         \/ UNCHANGED finish
  BY <1>1, PopOrFail
<1>3. \A m \in Ids \ {i} : Quiet(m)
  <2> TAKE m \in Ids \ {i}
  <2>1. /\ Queued(m)' <=> Queued(m)
        /\ UNCHANGED <<finish[m], late[m], inbox[m]>>
    BY <1>1, <1>2
  <2> QED BY <1>1, <2>1, QuietBecause
<1>4. CASE UNCHANGED finish
  <2>1. Queued(i)' <=> Queued(i)
    BY <1>1, <1>2, <1>4 DEF TableInv, Active
  <2>2. Quiet(i)
    BY <1>1, <1>4, <2>1, QuietBecause
  <2> QED BY <1>1, <1>3, <2>2, LifeStutter
<1>5. CASE /\ finish[i].pc = "no" /\ i \in DOMAIN jobs
           /\ finish' = [finish EXCEPT ![i] = [pc |-> "post", outcome |-> o]]
  <2> DEFINE end == IF o = "cancel" THEN "cancelled" ELSE o
  <2>1. finish'[i].pc = "post" /\ finish'[i].outcome = o /\ late[i] = 0
    BY <1>1, <1>5
  <2>2. Status(i) \in {"waiting", "running"}
    BY <1>1, <1>5, StatusIs DEF StatusOf
  <2>3. KindOf(i)' = KindOf(i) /\ KindOf(i) = jobs[i].kind
    BY <1>5 DEF KindOf
  <2>4. Status(i)' = IF KindOf(i) = "native" THEN "closed" ELSE end
    BY <1>1, <1>5, <2>1, <2>3, StatusIs DEF StatusOf
  <2>5. end \in {"result", "error", "end", "cancelled"}
    BY DEF Over
  <2>6. /\ end = "cancelled" => KindOf(i) # "future"
        /\ end = "result" => KindOf(i) # "stream"
        /\ end = "end" => KindOf(i) = "stream"
    BY <1>5, <2>3 DEF Over
  <2> HIDE DEF end
  <2>7. Lifecycle!End(i, end)
    BY <1>1, <1>3, <2>2, <2>3, <2>4, <2>5, <2>6, LifeMoves
  <2> QED BY <2>5, <2>7 DEF Lifecycle!Next
<1> QED BY <1>2, <1>4, <1>5

\* A step that changes neither a record of the table nor a port.
LEMMA LifeIdle ==
  ASSUME LifeInv, IInv', NoOutcomeYet',
         UNCHANGED <<jobs, pending, finish, inbox, late>>
  PROVE  UNCHANGED <<LifeKind, LifeStatus, inbox>>
<1>1. IInv /\ NoOutcomeYet
  BY DEF LifeInv
<1>2. \A m \in Ids : Quiet(m)
  <2> TAKE m \in Ids
  <2>1. Queued(m)' <=> Queued(m)
    BY DEF Queued
  <2> QED BY <1>1, <2>1, QuietBecause
<1> QED BY <1>1, <1>2, LifeStutter

LEMMA LifeSubmit ==
  ASSUME LifeInv, IInv', NoOutcomeYet',
         NEW c \in Callers, NEW e \in Entries, NEW kind \in Kinds, Submit(c, e, kind)
  PROVE  Lifecycle!Next
<1>0. PICK i \in Nat : i = Len(jobs) + 1
  BY DEF LifeInv, IInv, TypeOK
<1>1. /\ IInv /\ NoOutcomeYet /\ DOMAIN jobs \subseteq Ids
      /\ jobs \in Seq([entry : Entries, kind : Kinds]) /\ pending \in Seq(Ids)
      /\ UNCHANGED <<finish, inbox, late>>
  BY JobIds DEF LifeInv, IInv, TypeOK, Submit
<1>2. jobs' = Append(jobs, [entry |-> e, kind |-> kind]) /\ pending' = Append(pending, i)
  BY <1>0 DEF Submit
<1>3. /\ i \in Ids /\ DOMAIN jobs' = DOMAIN jobs \cup {i} /\ i \notin DOMAIN jobs
      /\ \A m \in DOMAIN jobs : jobs'[m] = jobs[m]
      /\ jobs'[i].kind = kind
  BY <1>0, <1>1, <1>2, JobsOK DEF Submit, Ids
<1>4. \A j : Queued(j)' <=> Queued(j) \/ j = i
  <2>1. /\ \A k \in DOMAIN pending' : \/ k \in DOMAIN pending /\ pending'[k] = pending[k]
                                      \/ pending'[k] = i
        /\ \A k \in DOMAIN pending : k \in DOMAIN pending' /\ pending'[k] = pending[k]
        /\ Len(pending) + 1 \in DOMAIN pending' /\ pending'[Len(pending) + 1] = i
    BY <1>1, <1>2
  <2> QED BY <2>1 DEF Queued
<1>5. \A m \in Ids \ {i} : Quiet(m)
  BY <1>1, <1>3, <1>4, QuietBecause
<1>6. finish'[i].pc = "no"
  BY <1>1, <1>3 DEF IInv, FinishInv
<1>7. Status(i) = "none" /\ Status(i)' = "waiting"
  BY <1>1, <1>3, <1>4, <1>6, StatusIs DEF StatusOf
<1>8. KindOf(i)' \in Kinds /\ inbox'[i] = inbox[i]
  BY <1>1, <1>3 DEF KindOf
<1>9. Lifecycle!Submit(i)
  BY <1>1, <1>3, <1>5, <1>7, <1>8, LifeMoves
<1> QED BY <1>3, <1>9 DEF Lifecycle!Next

\* A step that changes the record of job i only: its place in the queue, how
\* far its finisher is, its late items, its port.
LEMMA LifeOthers ==
  ASSUME LifeInv, IInv', NoOutcomeYet', NEW i \in Ids, jobs' = jobs,
         \A j : j # i => (Queued(j)' <=> Queued(j)),
         \A m \in Ids \ {i} : UNCHANGED <<finish[m], late[m], inbox[m]>>
  PROVE  \A m \in Ids \ {i} : Quiet(m)
<1>1. IInv /\ NoOutcomeYet
  BY DEF LifeInv
<1> TAKE m \in Ids \ {i}
<1>2. Queued(m)' <=> Queued(m)
  OBVIOUS
<1> QED BY <1>1, <1>2, QuietBecause

LEMMA LifeTake ==
  ASSUME HostPassesId, LifeInv, IInv', NoOutcomeYet', NEW i \in Ids, Take(i)
  PROVE  Lifecycle!Next
<1>1. /\ IInv /\ NoOutcomeYet /\ TypeOK /\ TableInv
      /\ UNCHANGED <<jobs, finish, inbox, late>>
  BY DEF LifeInv, IInv, Take
<1>2. PICK k \in DOMAIN pending :
        pending[k] = i /\ Erase(k) /\ inflight' = inflight \cup {pending[k]}
  BY DEF Take, Takes, Fits
<1>3. \A j : Queued(j)' <=> Queued(j) /\ j # i
  BY <1>1, <1>2, TakeMoves
<1>4. Queued(i) /\ i \in DOMAIN jobs /\ finish[i].pc = "no"
  BY <1>1, <1>2 DEF Queued, TableInv, Active
<1>5. \A m \in Ids \ {i} : Quiet(m)
  BY <1>1, <1>3, LifeOthers
<1>6. Status(i) = "waiting" /\ Status(i)' = "running"
  BY <1>1, <1>3, <1>4, StatusIs DEF StatusOf
<1>7. KindOf(i)' = KindOf(i) /\ inbox'[i] = inbox[i]
  BY <1>1 DEF KindOf
<1>8. Lifecycle!Begin(i)
  BY <1>1, <1>5, <1>6, <1>7, LifeMoves
<1> QED BY <1>8 DEF Lifecycle!Next

LEMMA LifeItem ==
  ASSUME LifeInv, IInv', NoOutcomeYet', NEW i \in Ids, EmitPost(i)
  PROVE  Lifecycle!Next
<1>1. /\ IInv /\ NoOutcomeYet /\ UNCHANGED <<jobs, pending, finish>>
      /\ runner[i].pc = "sending" /\ runner[i].job = i
      /\ inbox \in [Ids -> Seq({"item", "result", "error", "end"})]
      /\ late \in [Ids -> Nat]
  BY DEF LifeInv, IInv, TypeOK, PortInv, OwnJob, Busy, EmitPost
<1>2. /\ inbox' = [inbox EXCEPT ![i] = Append(@, "item")]
      /\ late' = IF finish[i].pc = "no" THEN late ELSE [late EXCEPT ![i] = @ + 1]
  BY <1>1 DEF EmitPost
<1>3. i \in DOMAIN jobs /\ ~Queued(i) /\ jobs[i].kind = "stream"
  BY <1>1 DEF IInv, RunnerInv, Busy
<1>4. \A m \in Ids \ {i} : Quiet(m)
  <2>1. \A j : Queued(j)' <=> Queued(j)
    BY <1>1 DEF Queued
  <2>2. \A m \in Ids \ {i} : UNCHANGED <<finish[m], late[m], inbox[m]>>
    BY <1>1, <1>2
  <2> QED BY <1>1, <2>1, <2>2, LifeOthers
<1>5. /\ KindOf(i)' = KindOf(i) /\ KindOf(i) = "stream"
      /\ inbox'[i] = Append(inbox[i], "item")
  BY <1>1, <1>2, <1>3 DEF KindOf
<1>6. CASE finish[i].pc = "no"
  <2>1. ~Queued(i)'
    BY <1>1, <1>3 DEF Queued
  <2>2. Status(i) = "running" /\ Status(i)' = "running"
    BY <1>1, <1>3, <1>6, <2>1, StatusIs DEF StatusOf
  <2>3. Lifecycle!Item(i)
    BY <1>1, <1>4, <1>5, <2>2, LifeMoves
  <2> QED BY <2>3 DEF Lifecycle!Next
<1>7. CASE finish[i].pc # "no"
  <2>1. finish[i].outcome = "cancel" /\ late[i] = 0 /\ late'[i] = 1
    <3>1. finish[i].outcome = "cancel" /\ ~(late[i] > 0)
      BY <1>1, <1>7 DEF LifeInv, PortInv, OwnJob, LateInv, Busy
    <3> QED BY <1>1, <1>2, <1>7, <3>1
  <2>2. Status(i) = "cancelled" /\ Status(i)' = "closed"
    BY <1>1, <1>3, <1>7, <2>1, StatusIs DEF StatusOf
  <2>3. Lifecycle!LastItem(i)
    BY <1>1, <1>4, <1>5, <2>2, LifeMoves
  <2> QED BY <2>3 DEF Lifecycle!Next
<1> QED BY <1>6, <1>7

\* The finisher of job i posts its outcome, and tells the host.
LEMMA LifePost ==
  ASSUME LifeInv, IInv', NoOutcomeYet', NEW i \in Ids, PostOutcome(i) \/ NotifyDone(i)
  PROVE  [Lifecycle!Next]_<<LifeKind, LifeStatus, inbox>>
<1>1. /\ IInv /\ NoOutcomeYet /\ UNCHANGED <<jobs, pending, late>>
      /\ inbox \in [Ids -> Seq({"item", "result", "error", "end"})]
      /\ finish \in [Ids -> FinishRecs] /\ late \in [Ids -> Nat]
      /\ finish[i].pc \in {"post", "notify"}
      /\ \A j : Queued(j)' <=> Queued(j)
  BY DEF LifeInv, IInv, TypeOK, PostOutcome, NotifyDone, Queued
<1>2. /\ i \in DOMAIN jobs /\ finish[i].outcome \in Over
      /\ late[i] > 0 => finish[i].outcome = "cancel"
  BY <1>1 DEF IInv, FinishInv, LifeInv, PortInv, LateInv
<1>3. /\ finish'[i].pc = IF finish[i].pc = "post" THEN "notify" ELSE "done"
      /\ finish'[i].outcome = finish[i].outcome
      /\ \A m \in Ids \ {i} : finish'[m] = finish[m]
  BY <1>1 DEF PostOutcome, NotifyDone, FinishRecs
<1>4. \A m \in Ids \ {i} : Quiet(m)
  <2>1. \A m \in Ids \ {i} : UNCHANGED <<finish[m], late[m], inbox[m]>>
    BY <1>1, <1>3 DEF PostOutcome, NotifyDone
  <2> QED BY <1>1, <2>1, LifeOthers
<1>5. KindOf(i)' = KindOf(i) /\ KindOf(i) = jobs[i].kind
  BY <1>1, <1>2 DEF KindOf
<1>6. CASE NotifyDone(i) \/ jobs[i].kind = "native" \/ finish[i].outcome = "cancel"
  <2>1. inbox'[i] = inbox[i]
    BY <1>1, <1>6 DEF PostOutcome, NotifyDone
  <2>2. NotifyDone(i) => finish[i].pc = "notify"
    BY DEF NotifyDone
  <2>3. Status(i)' = Status(i)
    BY <1>1, <1>2, <1>3, <1>6, <2>2, StatusIs DEF StatusOf
  <2>4. \A m \in Ids : Quiet(m)
    BY <1>4, <1>5, <2>1, <2>3 DEF Quiet
  <2> QED BY <1>1, <2>4, LifeStutter
<1>7. CASE /\ PostOutcome(i)
           /\ jobs[i].kind # "native" /\ finish[i].outcome # "cancel"
  <2>1. finish[i].pc = "post" /\ inbox'[i] = Append(inbox[i], finish[i].outcome)
    BY <1>1, <1>7 DEF PostOutcome
  <2>2. Status(i) = finish[i].outcome /\ Status(i)' = "closed"
    BY <1>1, <1>2, <1>3, <1>7, <2>1, StatusIs DEF StatusOf
  <2>3. Lifecycle!Answer(i)
    BY <1>1, <1>2, <1>4, <1>5, <1>7, <2>1, <2>2, LifeMoves DEF Over
  <2> QED BY <2>3 DEF Lifecycle!Next
<1> QED BY <1>6, <1>7

LEMMA LifeStep ==
  ASSUME HostPassesId, LifeInv, [JobsNext]_jobVars
  PROVE  [Lifecycle!Next]_<<LifeKind, LifeStatus, inbox>>
<1>1. IInv' /\ NoOutcomeYet' /\ DOMAIN jobs \subseteq Ids
  BY StepIInv, NoOutcomeStep, JobIds DEF LifeInv, IInv
<1>2. ASSUME NEW c \in Callers, NEW e \in Entries, NEW kind \in Kinds, Submit(c, e, kind)
      PROVE  Lifecycle!Next
  BY <1>1, <1>2, LifeSubmit
<1>3. ASSUME NEW c \in Callers, CancelRefused(c)
      PROVE  [Lifecycle!Next]_<<LifeKind, LifeStatus, inbox>>
  <2>1. PICK i \in Ids : i = caller[c].job /\ jobs[i].kind = "native"
    BY <1>1, <1>3 DEF LifeInv, IInv, CallerInv, RefusedNative, CancelRefused
  <2>2. Pop(i, "cancel") \/ PopFails(i)
    BY <1>3, <2>1 DEF CancelRefused
  <2>3. UNCHANGED <<jobs, inbox, late>> /\ "cancel" \in Over
    BY <1>3 DEF CancelRefused, Over
  <2> QED BY <1>1, <2>1, <2>2, <2>3, LifeEnd
<1>4. ASSUME NEW i \in Ids, Cancel(i)
      PROVE  [Lifecycle!Next]_<<LifeKind, LifeStatus, inbox>>
  <2>1. /\ Pop(i, "cancel") /\ jobs[i].kind = "stream"
        /\ UNCHANGED <<jobs, inbox, late>> /\ "cancel" \in Over
    BY <1>4 DEF Cancel, Over
  <2> QED BY <1>1, <2>1, LifeEnd
<1>5. ASSUME NEW i \in Ids, EngineFails(i)
      PROVE  [Lifecycle!Next]_<<LifeKind, LifeStatus, inbox>>
  <2>1. /\ Pop(i, "error") \/ PopFails(i)
        /\ UNCHANGED <<jobs, inbox, late>> /\ "error" \in Over
    BY <1>5 DEF EngineFails, Over
  <2> QED BY <1>1, <2>1, LifeEnd
<1>6. ASSUME NEW i \in Ids, Finish(i)
      PROVE  [Lifecycle!Next]_<<LifeKind, LifeStatus, inbox>>
  <2>1. runner[i].job = i /\ i \in DOMAIN jobs
    BY <1>6 DEF Finish, LifeInv, PortInv, OwnJob, IInv, RunnerInv, Busy
  <2>2. PICK o \in Outcomes(jobs[i].kind) : Pop(i, o) \/ PopFails(i)
    BY <1>6, <2>1 DEF Finish
  <2>3. /\ o \in Over
        /\ o = "cancel" => jobs[i].kind # "future"
        /\ o = "result" => jobs[i].kind # "stream"
        /\ o = "end" => jobs[i].kind = "stream"
    BY DEF Outcomes, Over
  <2>4. UNCHANGED <<jobs, inbox, late>>
    BY <1>6 DEF Finish
  <2> QED BY <1>1, <2>2, <2>3, <2>4, LifeEnd
<1>7. ASSUME NEW i \in Ids, Take(i) \/ EmitPost(i) PROVE Lifecycle!Next
  BY <1>1, <1>7, LifeTake, LifeItem
<1>8. ASSUME NEW i \in Ids, PostOutcome(i) \/ NotifyDone(i)
      PROVE  [Lifecycle!Next]_<<LifeKind, LifeStatus, inbox>>
  BY <1>1, <1>8, LifePost
<1>9. ASSUME \/ RegisterHost \/ UNCHANGED jobVars
             \/ \E c \in Callers : StartOnHost(c) \/ StartFallback(c) \/ StartRefused(c)
             \/ \E i \in Ids : EngineUp(i) \/ EngineDestroyed(i) \/ TakeNothing(i) \/ Emit(i)
      PROVE  UNCHANGED <<LifeKind, LifeStatus, inbox>>
  <2>1. UNCHANGED <<jobs, pending, finish, inbox, late>>
    BY <1>9 DEF RegisterHost, jobVars, StartOnHost, StartFallback, StartRefused, EngineUp,
                EngineDestroyed, TakeNothing, Emit
  <2> QED BY <1>1, <2>1, LifeIdle
<1> QED BY <1>2, <1>3, <1>4, <1>5, <1>6, <1>7, <1>8, <1>9
        DEF JobsNext, CallerStep, IsolateStep

LEMMA InitLife ==
  JobsInit => RefusedNative /\ NoOutcomeYet /\ Lifecycle!Init
<1> SUFFICES ASSUME JobsInit PROVE RefusedNative /\ NoOutcomeYet /\ Lifecycle!Init
  OBVIOUS
<1>1. RefusedNative /\ NoOutcomeYet
  BY DEF JobsInit, RefusedNative, NoOutcomeYet, AtRest, NotOver
<1>2. \A i \in Ids : i \notin DOMAIN jobs
  BY DEF JobsInit
<1>3. \A i \in Ids : Status(i) = "none"
  BY <1>2 DEF Status, JobsInit, NotOver
<1> QED BY <1>1, <1>2, <1>3 DEF Lifecycle!Init, JobsInit

(* With hosts that pass the job id, every behaviour of the table is one of *)
(* JobLifecycle: a job is submitted, begun and ended once, a cancellation  *)
(* leaves room for one item at most, and a port hears the outcome the job  *)
(* ended with, whoever ends it and however long its post takes.            *)
THEOREM ImplementsJobLifecycle ==
  ASSUME HostPassesId PROVE JobsSpec => ImplementsLifecycle
<1>1. LifeInv /\ [JobsNext]_jobVars => LifeInv'
  BY StepIInv, StepPortInv, RefusedStep, NoOutcomeStep DEF LifeInv
<1>2. JobsInit => LifeInv /\ Lifecycle!Init
  BY InitIInv, InitPortInv, InitLife DEF LifeInv
<1>3. LifeInv /\ [JobsNext]_jobVars => [Lifecycle!Next]_<<LifeKind, LifeStatus, inbox>>
  BY LifeStep
<1> QED BY <1>1, <1>2, <1>3, PTL
        DEF JobsSpec, ImplementsLifecycle, Lifecycle!Spec, LifeKind, LifeStatus

-----------------------------------------------------------------------------
(***************************************************************************)
(* The hosts.                                                              *)
(***************************************************************************)
Tasks == [task : {"start", "done", "register", "deliver"}, job : Ids]

HostTypes ==
  /\ looper \in Seq(Tasks)
  /\ main \in [pc : {"idle", "failing", "store"}, job : {NoJob} \cup Ids]
  /\ main.pc = "store" => main.job \in Ids
  /\ worker \in [Workers -> [pc : {"idle", "register", "check", "early", "wait"},
                             job : {NoJob} \cup Ids]]
  /\ \A w \in Workers : worker[w].pc # "idle" => worker[w].job \in Ids
  /\ engines \subseteq Ids /\ callbacks \subseteq Ids
  /\ finished \subseteq Ids /\ wanted \subseteq Ids /\ dropped \subseteq Ids
  /\ called \in [Ids -> Seq({"ok", "error"})]
  /\ returned \in [Ids -> {"none", "left", "ok", "error"}]

\* The done hook was called for job i, and nothing of it will change.
Done(i) == told[i] = 1 /\ finish[i].pc = "done"

\* Behind the place k of the main thread's tasks is the end of job i.
EndsBehind(k, i) ==
  \E m \in DOMAIN looper : m > k /\ looper[m] = [task |-> "done", job |-> i]

\* Nobody but the caller itself can end a job that its caller has not started.
CallersFresh ==
  \A c \in Callers : /\ caller[c].host => hosted
                     /\ caller[c].pc = "start" => finish[caller[c].job].pc = "no"

\* An engine is started in front of the end of its job, and only with a host ...
StartsInOrder ==
  \A k \in DOMAIN looper : looper[k].task = "start" =>
    /\ hosted /\ looper[k].job \in DOMAIN jobs
    /\ finish[looper[k].job].pc = "done" => EndsBehind(k, looper[k].job)

\* ... and one that runs will be told of that end.
EnginesEnd ==
  \A i \in engines : /\ hosted /\ i \in DOMAIN jobs
                     /\ finish[i].pc = "done" => Waiting("done", i)

EngineInv == CallersFresh /\ StartsInOrder /\ EnginesEnd

\* The right to call onDone of job i is with a worker that has not passed it on,
\* or with a task of the main thread.
Leaving(w, i) == worker[w].pc = "register" /\ worker[w].job = i
Posted(k, i)  == looper[k].task \in {"register", "deliver"} /\ looper[k].job = i

Out(i)  == \E k \in DOMAIN looper : Posted(k, i)
Once(i) == \A k, m \in DOMAIN looper : Posted(k, i) /\ Posted(m, i) => k = m

\* ... or in the map, or it was used: in one of the four, once.
RightAt(i) ==
  /\ \A w, u \in Workers : Leaving(w, i) /\ Leaving(u, i) => w = u
  /\ \A w \in Workers : Leaving(w, i) =>
       i \in wanted /\ ~Out(i) /\ i \notin callbacks /\ called[i] = <<>>
  /\ Once(i)
  /\ Out(i) => i \in wanted /\ i \notin callbacks /\ called[i] = <<>>
  /\ i \in callbacks => i \in wanted /\ called[i] = <<>>
  /\ called[i] # <<>> => i \in wanted
  /\ i \in wanted => runner[i].pc # "none"

RightInv == \A i \in Ids : RightAt(i)

\* Whoever is about to call onDone, or keeps a result, knows that the job is over.
ToldInv ==
  /\ \A k \in DOMAIN looper : looper[k].task \in {"done", "deliver"} => Done(looper[k].job)
  /\ \A i \in finished : Done(i)
  /\ main.pc = "store" => Done(main.job)
  /\ \A w \in Workers : worker[w].pc = "early" => Done(worker[w].job)
  /\ \A i \in Ids : called[i] # <<>> => Done(i) /\ called[i] = <<ErrorOf(i)>>

HostInv == HostTypes /\ EngineInv /\ RightInv /\ ToldInv /\ WaitReturnsOwn

-----------------------------------------------------------------------------
\* The main thread's tasks, one more at the end ...
LEMMA PostTaskFacts ==
  ASSUME looper \in Seq(Tasks), NEW t, NEW i, [task |-> t, job |-> i] \in Tasks,
         PostTask(t, i)
  PROVE  /\ looper' \in Seq(Tasks)
         /\ \A k \in DOMAIN looper : k \in DOMAIN looper' /\ looper'[k] = looper[k]
         /\ \A k \in DOMAIN looper' : \/ k \in DOMAIN looper
                                      \/ /\ looper'[k] = [task |-> t, job |-> i]
                                         /\ \A m \in DOMAIN looper' : m = k \/ m < k
         /\ \A m \in DOMAIN looper' : m \notin DOMAIN looper =>
              \A k \in DOMAIN looper : m > k
         /\ Len(looper) + 1 \in DOMAIN looper'
         /\ looper'[Len(looper) + 1] = [task |-> t, job |-> i]
         /\ Len(looper) + 1 \notin DOMAIN looper
<1> DEFINE x == [task |-> t, job |-> i]
<1>1. looper' = Append(looper, x) /\ x \in Tasks
  BY DEF PostTask
<1> HIDE DEF x
<1>2. /\ looper' \in Seq(Tasks) /\ Len(looper') = Len(looper) + 1 /\ Len(looper) \in Nat
      /\ DOMAIN looper = 1 .. Len(looper) /\ DOMAIN looper' = 1 .. Len(looper) + 1
      /\ \A k \in 1 .. Len(looper) : looper'[k] = looper[k]
      /\ looper'[Len(looper) + 1] = x
  BY <1>1
<1> QED
  BY <1>2 DEF x

\* ... and one fewer at the front.
LEMMA RunsFacts ==
  ASSUME looper \in Seq(Tasks), NEW t, NEW i, Runs(t, i)
  PROVE  /\ looper' \in Seq(Tasks) /\ main.pc = "idle"
         /\ 1 \in DOMAIN looper /\ looper[1] = [task |-> t, job |-> i]
         /\ \A k \in DOMAIN looper' : /\ k + 1 \in DOMAIN looper /\ k + 1 # 1
                                      /\ looper'[k] = looper[k + 1]
         /\ \A k \in DOMAIN looper : k # 1 =>
              k - 1 \in DOMAIN looper' /\ looper'[k - 1] = looper[k] /\ k > 1
         /\ DOMAIN looper \subseteq Nat /\ DOMAIN looper' \subseteq Nat
<1>1. /\ looper # <<>> /\ looper' = Tail(looper) /\ main.pc = "idle"
      /\ looper[1] = [task |-> t, job |-> i]
  BY DEF Runs
<1>2. /\ looper' \in Seq(Tasks) /\ Len(looper) \in Nat \ {0}
      /\ DOMAIN looper = 1 .. Len(looper) /\ DOMAIN looper' = 1 .. Len(looper) - 1
      /\ \A k \in 1 .. Len(looper) - 1 : looper'[k] = looper[k + 1]
  BY <1>1
<1> QED
  BY <1>1, <1>2

-----------------------------------------------------------------------------
\* Every step of the hosts is one of the table, or leaves the table alone.
LEMMA HostStepIsJobsStep ==
  ASSUME [Next]_vars
  PROVE  [JobsNext]_jobVars
<1>1. CASE UNCHANGED vars
  BY <1>1 DEF vars, jobVars
<1>2. CASE Table
  BY <1>2 DEF Table, JobsNext, CallerStep
<1>3. ASSUME NEW c \in Callers, HostStart(c) PROVE JobsNext
  BY <1>3 DEF HostStart, JobsNext
<1>4. ASSUME NEW i \in Ids, HostDone(i) \/ Destroyed(i) PROVE JobsNext
  BY <1>4 DEF HostDone, Destroyed, JobsNext
<1>5. CASE MainStep
  BY <1>5 DEF MainStep, MainFailed, MainStore, MainStart, MainStartFails, MainDone,
              MainDeliver, MainRegister, JobsNext
<1>6. ASSUME NEW w \in Workers, WorkerStep(w) \/ Leaves(w) PROVE UNCHANGED jobVars
  BY <1>6 DEF WorkerStep, WorkerRegister, WorkerCheck, WorkerDeliver, WaitEnds, Leaves
<1> QED
  BY <1>1, <1>2, <1>3, <1>4, <1>5, <1>6 DEF Next

\* What the host relies on of the table: what is over stays over and what started
\* does not become new, whoever takes a step.
LEMMA JobsStay ==
  ASSUME HostPassesId, IInv, PortInv, [JobsNext]_jobVars
  PROVE  /\ IInv' /\ PortInv'
         /\ \A i \in Ids : Done(i) => Done(i)' /\ finish'[i] = finish[i]
         /\ \A i \in Ids : finish[i].pc = "done" => finish'[i].pc = "done"
         /\ \A i \in Ids : runner[i].pc # "none" => runner'[i].pc # "none"
         /\ DOMAIN jobs \subseteq DOMAIN jobs'
         /\ hosted => hosted'
<1>1. IInv' /\ PortInv' /\ JobsKept /\ \A m \in Ids : JobStep(m)
  BY StepIInv, StepPortInv, StepOfJob DEF PortInv
<1>2. \A i \in Ids : finish[i].pc = "done" => finish'[i] = finish[i]
  BY <1>1 DEF JobStep, Alone, IsolateIdles, IsolateTakes, IsolateSends, IsolateSent, Ended,
              OutcomePosted, HostTold
<1>3. \A i \in Ids : Done(i) => told'[i] = told[i]
  <2>1. \/ told' = told
        \/ \E j \in Ids : finish[j].pc = "notify" /\ told' = [told EXCEPT ![j] = @ + 1]
    BY DEF JobsNext, jobVars, RegisterHost, CallerStep, Submit, StartOnHost, StartFallback,
           StartRefused, CancelRefused, Cancel, PostOutcome, NotifyDone, EngineUp,
           EngineFails, EngineDestroyed, IsolateStep, Take, TakeNothing, Emit, EmitPost,
           Finish
  <2> QED
    BY <2>1 DEF Done, IInv, TypeOK
<1>4. \A i \in Ids : runner[i].pc # "none" => runner'[i].pc # "none"
  <2>0. runner \in [Ids -> RunnerRecs] /\ pending \in Seq(Ids)
    BY DEF IInv, TypeOK
  <2> DEFINE Stay == \A i \in Ids : runner[i].pc # "none" => runner'[i].pc # "none"
  <2>1. ASSUME UNCHANGED runner PROVE Stay
    BY <2>1
  <2>2. ASSUME NEW c \in Callers, StartOnHost(c) \/ StartFallback(c)
        PROVE  Stay
    <3>1. PICK pc \in {"asked", "started"}, e \in BOOLEAN : runner' =
            [runner EXCEPT ![caller[c].job] = [pc |-> pc, job |-> NoJob, engine |-> e]]
      BY <2>2 DEF StartOnHost, StartFallback
    <3> QED
      BY <2>0, <3>1
  <2>3. ASSUME NEW j \in Ids, Take(j)
        PROVE  Stay
    <3>1. PICK k \in DOMAIN pending :
            runner' = [runner EXCEPT ![j].pc = "running", ![j].job = pending[k]]
      BY <2>3 DEF Take
    <3> QED
      BY <2>0, <3>1 DEF RunnerRecs
  <2>4. ASSUME NEW j \in Ids,
               \/ EngineUp(j) \/ EngineFails(j) \/ EngineDestroyed(j)
               \/ TakeNothing(j) \/ Emit(j) \/ EmitPost(j) \/ Finish(j)
        PROVE  Stay
    <3>1. PICK pc \in {"started", "running", "sending", "gone"} :
            runner' = [runner EXCEPT ![j].pc = pc]
      BY <2>4 DEF EngineUp, EngineFails, EngineDestroyed, TakeNothing, Emit, EmitPost, Finish
    <3> QED
      BY <2>0, <3>1 DEF RunnerRecs
  <2>5. ASSUME \/ RegisterHost
               \/ \E c \in Callers :
                    \/ \E e \in Entries, kind \in Kinds : Submit(c, e, kind)
                    \/ StartRefused(c) \/ CancelRefused(c)
               \/ \E j \in Ids : Cancel(j) \/ PostOutcome(j) \/ NotifyDone(j)
        PROVE  Stay
    BY <2>5 DEF RegisterHost, Submit, StartRefused, CancelRefused, Cancel, PostOutcome,
                NotifyDone
  <2> HIDE DEF Stay
  <2>6. Stay
    <3>1. CASE UNCHANGED jobVars
      BY <2>1, <3>1 DEF jobVars
    <3>2. CASE JobsNext
      BY <2>2, <2>3, <2>4, <2>5, <3>2 DEF JobsNext, CallerStep, IsolateStep
    <3> QED
      BY <3>1, <3>2
  <2> QED
    BY <2>6 DEF Stay
<1>5. hosted => hosted'
  BY DEF JobsNext, jobVars, RegisterHost, CallerStep, Submit, StartOnHost, StartFallback,
         StartRefused, CancelRefused, Cancel, PostOutcome, NotifyDone, EngineUp,
         EngineFails, EngineDestroyed, IsolateStep, Take, TakeNothing, Emit, EmitPost,
         Finish
<1> QED
  BY <1>1, <1>2, <1>3, <1>4, <1>5 DEF Done, JobsKept

-----------------------------------------------------------------------------
\* The job that a caller is submitting is one of the table.
LEMMA CallerJob ==
  ASSUME IInv, NEW c \in Callers, caller[c].pc # "idle"
  PROVE  /\ caller[c].job \in Ids /\ caller[c].job \in DOMAIN jobs
         /\ runner[caller[c].job].pc = "none"
  BY JobIds DEF IInv, CallerInv

LEMMA ErrorType == ASSUME NEW i PROVE ErrorOf(i) \in {"ok", "error"}
  BY DEF ErrorOf

\* The result is kept, whatever else is dropped.
LEMMA KeepFacts ==
  ASSUME NEW i, KeepResult(i)
  PROVE  /\ i \in finished' /\ finished' \subseteq finished \cup {i}
         /\ dropped' \subseteq dropped \cup wanted
  BY DEF KeepResult

LEMMA CallFacts ==
  ASSUME HostTypes, NEW i \in Ids, CallOnDone(i)
  PROVE  /\ called' \in [Ids -> Seq({"ok", "error"})]
         /\ called'[i] = Append(called[i], ErrorOf(i)) /\ called'[i] # <<>>
         /\ \A j \in Ids : j # i => called'[j] = called[j]
<1>1. called[i] \in Seq({"ok", "error"}) /\ called' = [called EXCEPT ![i] = Append(@, ErrorOf(i))]
  BY DEF HostTypes, CallOnDone
<1>2. Append(called[i], ErrorOf(i)) \in Seq({"ok", "error"})
  BY <1>1, ErrorType
<1>3. Append(called[i], ErrorOf(i)) # <<>>
  BY <1>1, ErrorType
<1> QED
  BY <1>1, <1>2, <1>3 DEF HostTypes

\* The first of the main thread's tasks is for a job.
LEMMA RunsIds ==
  ASSUME HostTypes, NEW t, NEW i, Runs(t, i)
  PROVE  i \in Ids
<1>1. looper \in Seq(Tasks) /\ 1 \in DOMAIN looper /\ looper[1] = [task |-> t, job |-> i]
  BY RunsFacts DEF HostTypes
<1>2. looper[1] \in Tasks
  BY <1>1
<1>3. [task |-> t, job |-> i].job \in Ids
  BY <1>1, <1>2 DEF Tasks
<1> QED
  BY <1>3

LEMMA WorkerFacts ==
  ASSUME HostTypes, NEW w \in Workers,
         NEW pc \in {"idle", "register", "check", "early", "wait"}, worker[w].pc # "idle"
  PROVE  /\ worker[w].job \in Ids
         /\ worker' = [worker EXCEPT ![w].pc = pc] =>
              /\ worker'[w].pc = pc /\ worker'[w].job = worker[w].job
              /\ \A u \in Workers : u # w => worker'[u] = worker[u]
              /\ worker' \in [Workers -> [pc : {"idle", "register", "check", "early", "wait"},
                                          job : {NoJob} \cup Ids]]
              /\ \A u \in Workers : worker'[u].pc # "idle" => worker'[u].job \in Ids
<1> DEFINE Recs == [pc : {"idle", "register", "check", "early", "wait"},
                    job : {NoJob} \cup Ids]
<1>1. worker \in [Workers -> Recs] /\ worker[w].job \in Ids
  BY DEF HostTypes
<1>2. ASSUME worker' = [worker EXCEPT ![w].pc = pc]
      PROVE  /\ worker'[w].pc = pc /\ worker'[w].job = worker[w].job
             /\ \A u \in Workers : u # w => worker'[u] = worker[u]
             /\ worker' \in [Workers -> Recs]
  BY <1>1, <1>2
<1>3. \A u \in Workers : worker[u].pc # "idle" => worker[u].job \in Ids
  BY DEF HostTypes
<1> QED
  BY <1>1, <1>2, <1>3

\* The state of the hosts keeps its types.
LEMMA HostTypeStep ==
  ASSUME IInv, HostTypes, [Next]_vars
  PROVE  HostTypes'
<1> USE DEF HostTypes
<1>1. CASE UNCHANGED hostVars
  BY <1>1 DEF hostVars
<1>2. ASSUME NEW c \in Callers, HostStart(c) PROVE HostTypes'
  <2>1. caller[c].job \in Ids
    BY <1>2, CallerJob DEF HostStart, StartOnHost
  <2>2. looper' \in Seq(Tasks)
    BY <1>2, <2>1, PostTaskFacts DEF HostStart, Tasks
  <2>3. \/ worker' = worker
        \/ /\ c \in Workers
           /\ worker' = [worker EXCEPT ![c] = [pc |-> "register", job |-> caller[c].job]]
    BY <1>2 DEF HostStart
  <2>4. wanted' \subseteq Ids
    BY <1>2, <2>1 DEF HostStart
  <2>5. /\ worker' \in [Workers -> [pc : {"idle", "register", "check", "early", "wait"},
                                    job : {NoJob} \cup Ids]]
        /\ \A w \in Workers : worker'[w].pc # "idle" => worker'[w].job \in Ids
    <3> DEFINE new == [pc |-> "register", job |-> caller[c].job]
               Recs == [pc : {"idle", "register", "check", "early", "wait"},
                        job : {NoJob} \cup Ids]
    <3>1. new \in Recs /\ new.job \in Ids /\ worker \in [Workers -> Recs]
      BY <2>1
    <3>2. worker' = worker \/ (c \in Workers /\ worker' = [worker EXCEPT ![c] = new])
      BY <2>3
    <3> HIDE DEF new
    <3> QED
      BY <3>1, <3>2
  <2> QED
    BY <1>2, <2>2, <2>4, <2>5 DEF HostStart
<1>3. ASSUME NEW i \in Ids, HostDone(i) PROVE HostTypes'
  <2>1. looper' \in Seq(Tasks)
    BY <1>3, PostTaskFacts DEF HostDone, Tasks
  <2> QED
    BY <1>3, <2>1 DEF HostDone
<1>4. CASE MainFailed \/ MainStore
  <2>1. finished' \subseteq Ids /\ dropped' \subseteq Ids
    BY <1>4, KeepFacts DEF MainFailed, MainStore
  <2> QED
    BY <1>4, <2>1 DEF MainFailed, MainStore, Free
<1>5. ASSUME NEW i \in Ids, MainStart(i) \/ MainStartFails(i) PROVE HostTypes'
  <2>1. looper' \in Seq(Tasks)
    BY <1>5, RunsFacts DEF MainStart, MainStartFails
  <2> QED
    BY <1>5, <2>1 DEF MainStart, MainStartFails
<1>6. ASSUME NEW i \in Ids, MainDone(i) PROVE HostTypes'
  <2>1. looper' \in Seq(Tasks)
    BY <1>6, RunsFacts DEF MainDone
  <2>2. /\ engines' \subseteq Ids /\ callbacks' \subseteq Ids
        /\ finished' \subseteq Ids /\ dropped' \subseteq Ids
        /\ called' \in [Ids -> Seq({"ok", "error"})]
    BY <1>6, KeepFacts, CallFacts DEF MainDone
  <2>3. main' = main \/ main' = [pc |-> "store", job |-> i]
    BY <1>6 DEF MainDone
  <2> QED
    BY <1>6, <2>1, <2>2, <2>3 DEF MainDone
<1>7. ASSUME NEW i \in Ids, MainDeliver(i) \/ MainRegister(i) PROVE HostTypes'
  <2>1. looper' \in Seq(Tasks)
    BY <1>7, RunsFacts DEF MainDeliver, MainRegister
  <2>2. called' \in [Ids -> Seq({"ok", "error"})]
    BY <1>7, CallFacts DEF MainDeliver, MainRegister
  <2>3. callbacks' \subseteq Ids /\ finished' \subseteq Ids
    BY <1>7 DEF MainDeliver, MainRegister
  <2> QED
    BY <1>7, <2>1, <2>2, <2>3 DEF MainDeliver, MainRegister
<1>8. ASSUME NEW w \in Workers, WorkerRegister(w) PROVE HostTypes'
  <2>1. /\ worker[w].job \in Ids
        /\ worker' = [worker EXCEPT ![w].pc = "check"]
             \/ worker' = [worker EXCEPT ![w].pc = "wait"]
    BY <1>8 DEF WorkerRegister, Registered
  <2>2. looper' \in Seq(Tasks)
    BY <1>8, <2>1, PostTaskFacts DEF WorkerRegister, Tasks
  <2> QED
    BY <1>8, <2>1, <2>2, WorkerFacts DEF WorkerRegister
<1>9. ASSUME NEW w \in Workers, WorkerCheck(w) PROVE HostTypes'
  <2>1. worker' = [worker EXCEPT ![w].pc = "early"] \/ worker' = [worker EXCEPT ![w].pc = "wait"]
    BY <1>9 DEF WorkerCheck, Registered
  <2> QED
    BY <1>9, <2>1, WorkerFacts DEF WorkerCheck
<1>10. ASSUME NEW w \in Workers, WorkerDeliver(w) PROVE HostTypes'
  <2>1. worker[w].job \in Ids
    BY <1>10 DEF WorkerDeliver
  <2>2. looper' \in Seq(Tasks)
    BY <1>10, <2>1, PostTaskFacts DEF WorkerDeliver, Tasks
  <2> QED
    BY <1>10, <2>2, WorkerFacts DEF WorkerDeliver, Registered
<1>11. ASSUME NEW w \in Workers, WaitEnds(w) \/ Leaves(w) PROVE HostTypes'
  <2>1. returned' \in [Ids -> {"none", "left", "ok", "error"}]
    <3>1. CASE Leaves(w)
      BY <3>1 DEF Leaves
    <3>2. CASE WaitEnds(w)
      <4>1. PICK i \in LatchOf(w) : returned' = [returned EXCEPT ![worker[w].job] = Head(called[i])]
        BY <3>2 DEF WaitEnds
      <4>2. i \in Ids /\ called[i] \in Seq({"ok", "error"}) /\ called[i] # <<>>
        BY <3>2 DEF WaitEnds, LatchOf
      <4>3. Head(called[i]) \in {"ok", "error"}
        BY <4>2
      <4> QED
        BY <4>1, <4>3
    <3> QED
      BY <1>11, <3>1, <3>2
  <2>2. worker' = [worker EXCEPT ![w] = Free]
    BY <1>11 DEF WaitEnds, Leaves
  <2> QED
    BY <1>11, <2>1, <2>2 DEF WaitEnds, Leaves, Free
<1>12. CASE UNCHANGED vars
  BY <1>1, <1>12 DEF vars, hostVars
<1>13. ASSUME NEW i \in Ids, Destroyed(i) PROVE HostTypes'
  BY <1>1, <1>13 DEF Destroyed
<1>14. CASE Table
  BY <1>1, <1>14 DEF Table
<1> QED
  BY <1>2, <1>3, <1>4, <1>5, <1>6, <1>7, <1>8, <1>9, <1>10, <1>11, <1>12, <1>13, <1>14
     DEF Next, MainStep, WorkerStep
-----------------------------------------------------------------------------
\* A task that carries the right to call onDone comes to the main thread ...
LEMMA OutAfterPost ==
  ASSUME HostTypes, NEW t, NEW j, [task |-> t, job |-> j] \in Tasks, PostTask(t, j),
         NEW i \in Ids, Once(i)
  PROVE  /\ t \in {"register", "deliver"} /\ j = i /\ ~Out(i) => Once(i)' /\ Out(i)'
         /\ t \notin {"register", "deliver"} \/ j # i => Once(i)' /\ (Out(i)' <=> Out(i))
<1>1. PICK n \in Nat :
      /\ \A k \in DOMAIN looper : k \in DOMAIN looper' /\ looper'[k] = looper[k]
      /\ n \in DOMAIN looper' /\ looper'[n] = [task |-> t, job |-> j]
      /\ n \notin DOMAIN looper
      /\ \A k \in DOMAIN looper' : k \in DOMAIN looper \/ k = n
  <2>1. looper \in Seq(Tasks) /\ looper' = Append(looper, [task |-> t, job |-> j])
    BY DEF HostTypes, PostTask
  <2>2. /\ Len(looper) + 1 \in Nat /\ DOMAIN looper' = 1 .. Len(looper) + 1
        /\ DOMAIN looper = 1 .. Len(looper)
    BY <2>1
  <2> QED
    BY <2>1, <2>2, PostTaskFacts
<1>2. Posted(n, i)' <=> t \in {"register", "deliver"} /\ j = i
  BY <1>1 DEF Posted
<1>3. \A k \in DOMAIN looper : Posted(k, i)' <=> Posted(k, i)
  BY <1>1 DEF Posted
<1> QED
  BY <1>1, <1>2, <1>3 DEF Once, Out

\* ... and leaves it when the main thread runs it.
LEMMA OutAfterRuns ==
  ASSUME HostTypes, NEW t, NEW j, Runs(t, j), NEW i \in Ids, Once(i)
  PROVE  /\ Once(i)' /\ (Out(i)' => Out(i))
         /\ t \in {"register", "deliver"} /\ j = i => Out(i) /\ ~Out(i)'
<1>1. /\ 1 \in DOMAIN looper /\ looper[1] = [task |-> t, job |-> j]
      /\ \A k \in DOMAIN looper' : /\ k + 1 \in DOMAIN looper /\ k + 1 # 1
                                   /\ looper'[k] = looper[k + 1]
      /\ DOMAIN looper' \subseteq Nat
  BY RunsFacts DEF HostTypes
<1>2. \A k \in DOMAIN looper' : Posted(k, i)' => Posted(k + 1, i)
  BY <1>1 DEF Posted
<1>3. Posted(1, i) <=> t \in {"register", "deliver"} /\ j = i
  BY <1>1 DEF Posted
<1>4. Once(i)'
  <2>1. ASSUME NEW k \in DOMAIN looper', NEW m \in DOMAIN looper', Posted(k, i)', Posted(m, i)'
        PROVE  k = m
    <3>1. k + 1 = m + 1 /\ k \in Nat /\ m \in Nat
      BY <1>1, <1>2, <2>1 DEF Once
    <3> QED
      BY <3>1
  <2> QED
    BY <2>1 DEF Once
<1>5. Out(i)' => Out(i)
  BY <1>1, <1>2 DEF Out
<1>6. Posted(1, i) => Out(i) /\ ~Out(i)'
  BY <1>1, <1>2 DEF Out, Once
<1> QED
  BY <1>3, <1>4, <1>5, <1>6

\* What a step leaves alone of job i, and what it may take from it.
RightFrame(i) ==
  /\ \A w \in Workers : Leaving(w, i)' => Leaving(w, i)
  /\ Once(i)' /\ (Out(i)' => Out(i))
  /\ i \in callbacks' => i \in callbacks
  /\ called'[i] = called[i]
  /\ i \in wanted' <=> i \in wanted
  /\ runner[i].pc # "none" => runner'[i].pc # "none"

LEMMA RightKept ==
  ASSUME NEW i \in Ids, RightAt(i), RightFrame(i)
  PROVE  RightAt(i)'
<1>1. (\A w, u \in Workers : Leaving(w, i) /\ Leaving(u, i) => w = u)'
  BY DEF RightAt, RightFrame
<1>2. (\A w \in Workers : Leaving(w, i) =>
         i \in wanted /\ ~Out(i) /\ i \notin callbacks /\ called[i] = <<>>)'
  BY DEF RightAt, RightFrame
<1>3. (Out(i) => i \in wanted /\ i \notin callbacks /\ called[i] = <<>>)'
  BY DEF RightAt, RightFrame
<1> QED
  BY <1>1, <1>2, <1>3 DEF RightAt, RightFrame
\* In every step the right stays where it is, moves on or is used.
LEMMA RightStep ==
  ASSUME HostPassesId, IInv, PortInv, HostTypes, RightInv, [Next]_vars
  PROVE  RightInv'
<1> SUFFICES ASSUME NEW i \in Ids PROVE RightAt(i)'
  BY DEF RightInv
<1>a. runner[i].pc # "none" => runner'[i].pc # "none"
  BY HostStepIsJobsStep, JobsStay
<1>b. RightAt(i) /\ Once(i)
  BY DEF RightInv, RightAt
<1>c. ASSUME NEW t \in {"start", "done"}, NEW j \in Ids, PostTask(t, j)
      PROVE  Once(i)' /\ (Out(i)' => Out(i))
  BY <1>b, <1>c, OutAfterPost DEF Tasks
<1>d. ASSUME NEW t, NEW j, Runs(t, j)
      PROVE  Once(i)' /\ (Out(i)' => Out(i))
  BY <1>b, <1>d, OutAfterRuns
<1>e. ASSUME UNCHANGED looper
      PROVE  Once(i)' /\ (Out(i)' <=> Out(i))
  BY <1>b, <1>e DEF Once, Out, Posted
<1>1. ASSUME UNCHANGED hostVars PROVE RightAt(i)'
  <2>1. RightFrame(i)
    BY <1>1, <1>a, <1>e DEF hostVars, RightFrame, Leaving
  <2> QED
    BY <2>1, <1>b, RightKept
<1>2. ASSUME NEW c \in Callers, HostStart(c) PROVE RightAt(i)'
  <2> DEFINE j == caller[c].job
  <2>1. j \in Ids /\ runner[j].pc = "none"
    BY <1>2, CallerJob DEF HostStart, StartOnHost
  <2>2. Once(i)' /\ (Out(i)' => Out(i))
    BY <1>2, <1>c, <2>1 DEF HostStart
  <2>3. UNCHANGED <<callbacks, called>>
    BY <1>2 DEF HostStart
  <2>4. CASE c \notin Workers
    <3>1. RightFrame(i)
      BY <1>2, <1>a, <2>2, <2>3, <2>4 DEF HostStart, RightFrame, Leaving
    <3> QED
      BY <3>1, <1>b, RightKept
  <2>5. CASE c \in Workers
    <3>1. /\ worker' = [worker EXCEPT ![c] = [pc |-> "register", job |-> j]]
          /\ wanted' = wanted \cup {j}
      BY <1>2, <2>5 DEF HostStart
    <3>2. \A w \in Workers : Leaving(w, i)' <=> (IF w = c THEN i = j ELSE Leaving(w, i))
      BY <3>1 DEF Leaving, HostTypes
    <3>3. CASE i # j
      <4>1. \A w \in Workers : Leaving(w, i)' => Leaving(w, i)
        BY <3>2, <3>3
      <4>2. RightFrame(i)
        BY <1>a, <2>2, <2>3, <3>1, <3>3, <4>1 DEF RightFrame
      <4> QED
        BY <4>2, <1>b, RightKept
    <3>4. CASE i = j
      <4>1. /\ ~Out(i) /\ i \notin callbacks /\ called[i] = <<>>
            /\ \A w \in Workers : ~Leaving(w, i)
        BY <1>b, <2>1, <3>4 DEF RightAt
      <4>2. runner'[i].pc # "none"
        <5>1. runner' = [runner EXCEPT ![i] = [pc |-> "asked", job |-> NoJob, engine |-> TRUE]]
          BY <1>2, <3>4 DEF HostStart, StartOnHost
        <5> QED
          BY <5>1 DEF IInv, TypeOK
      <4> QED
        BY <2>2, <2>3, <3>1, <3>2, <3>4, <4>1, <4>2 DEF RightAt
    <3> QED
      BY <3>3, <3>4
  <2> QED
    BY <2>4, <2>5
<1>3. ASSUME NEW j \in Ids, HostDone(j) PROVE RightAt(i)'
  <2>1. Once(i)' /\ (Out(i)' => Out(i))
    BY <1>3, <1>c, <1>e DEF HostDone
  <2>2. RightFrame(i)
    BY <1>3, <1>a, <2>1 DEF HostDone, RightFrame, Leaving
  <2> QED
    BY <2>2, <1>b, RightKept
<1>4. ASSUME MainFailed \/ MainStore PROVE RightAt(i)'
  <2>1. RightFrame(i)
    BY <1>4, <1>a, <1>e DEF MainFailed, MainStore, RightFrame, Leaving
  <2> QED
    BY <2>1, <1>b, RightKept
<1>5. ASSUME NEW j \in Ids, MainStart(j) \/ MainStartFails(j) PROVE RightAt(i)'
  <2>1. Once(i)' /\ (Out(i)' => Out(i))
    BY <1>5, <1>d DEF MainStart, MainStartFails
  <2>2. RightFrame(i)
    BY <1>5, <1>a, <2>1 DEF MainStart, MainStartFails, RightFrame, Leaving
  <2> QED
    BY <2>2, <1>b, RightKept
<1>6. ASSUME NEW j \in Ids, MainDone(j) PROVE RightAt(i)'
  <2>1. Once(i)' /\ (Out(i)' => Out(i))
    BY <1>6, <1>d DEF MainDone
  <2>2. UNCHANGED <<worker, wanted>> /\ callbacks' = callbacks \ {j}
    BY <1>6 DEF MainDone
  <2>3. CASE j \in callbacks /\ i = j
    <3>1. called'[i] # <<>>
      BY <1>6, <2>3, CallFacts DEF MainDone
    <3>2. ~Out(i) /\ (\A w \in Workers : ~Leaving(w, i)) /\ i \in wanted
      BY <1>b, <2>3 DEF RightAt
    <3>3. (\A w \in Workers : ~Leaving(w, i))' /\ ~Out(i)'
      BY <2>1, <2>2, <3>2 DEF Leaving
    <3> QED
      BY <1>a, <1>b, <2>1, <2>2, <2>3, <3>1, <3>2, <3>3 DEF RightAt
  <2>4. CASE ~(j \in callbacks /\ i = j)
    <3>1. called'[i] = called[i]
      BY <1>6, <2>4, CallFacts DEF MainDone
    <3>2. RightFrame(i)
      BY <1>a, <2>1, <2>2, <3>1 DEF RightFrame, Leaving
    <3> QED
      BY <3>2, <1>b, RightKept
  <2> QED
    BY <2>3, <2>4
<1>7. ASSUME NEW j \in Ids, MainDeliver(j) PROVE RightAt(i)'
  <2>1. Once(i)' /\ (Out(i)' => Out(i)) /\ (i = j => Out(i) /\ ~Out(i)')
    BY <1>7, <1>b, OutAfterRuns DEF MainDeliver
  <2>2. UNCHANGED <<worker, wanted, callbacks>> /\ CallOnDone(j)
    BY <1>7 DEF MainDeliver
  <2>3. CASE i = j
    <3>1. called'[i] # <<>>
      BY <2>2, <2>3, CallFacts
    <3>2. (\A w \in Workers : ~Leaving(w, i)) /\ i \in wanted /\ i \notin callbacks
      BY <1>b, <2>1, <2>3 DEF RightAt
    <3>3. (\A w \in Workers : ~Leaving(w, i))'
      BY <2>2, <3>2 DEF Leaving
    <3> QED
      BY <1>a, <1>b, <2>1, <2>2, <2>3, <3>1, <3>2, <3>3 DEF RightAt
  <2>4. CASE i # j
    <3>1. called'[i] = called[i]
      BY <2>2, <2>4, CallFacts
    <3>2. RightFrame(i)
      BY <1>a, <2>1, <2>2, <3>1 DEF RightFrame, Leaving
    <3> QED
      BY <3>2, <1>b, RightKept
  <2> QED
    BY <2>3, <2>4
<1>8. ASSUME NEW j \in Ids, MainRegister(j) PROVE RightAt(i)'
  <2>1. Once(i)' /\ (Out(i)' => Out(i)) /\ (i = j => Out(i) /\ ~Out(i)')
    BY <1>8, <1>b, OutAfterRuns DEF MainRegister
  <2>2. /\ UNCHANGED <<worker, wanted>>
        /\ \/ CallOnDone(j) /\ callbacks' = callbacks
           \/ callbacks' = callbacks \cup {j} /\ called' = called
    BY <1>8 DEF MainRegister
  <2>3. CASE i = j
    <3>1. \/ called'[i] # <<>> /\ callbacks' = callbacks
          \/ callbacks' = callbacks \cup {i} /\ called' = called
      BY <2>2, <2>3, CallFacts
    <3>2. /\ \A w \in Workers : ~Leaving(w, i)
          /\ i \in wanted /\ i \notin callbacks /\ called[i] = <<>>
      BY <1>b, <2>1, <2>3 DEF RightAt
    <3>3. (\A w \in Workers : ~Leaving(w, i))'
      BY <2>2, <3>2 DEF Leaving
    <3> QED
      BY <1>a, <1>b, <2>1, <2>2, <2>3, <3>1, <3>2, <3>3 DEF RightAt
  <2>4. CASE i # j
    <3>1. called'[i] = called[i]
      BY <2>2, <2>4, CallFacts
    <3>2. RightFrame(i)
      BY <1>a, <2>1, <2>2, <2>4, <3>1 DEF RightFrame, Leaving
    <3> QED
      BY <3>2, <1>b, RightKept
  <2> QED
    BY <2>3, <2>4
<1>9. ASSUME NEW w \in Workers, WorkerRegister(w) PROVE RightAt(i)'
  <2> DEFINE j == worker[w].job
  <2>1. j \in Ids /\ Leaving(w, j)
    BY <1>9, WorkerFacts DEF WorkerRegister, Leaving
  <2>2. /\ UNCHANGED <<called, wanted>>
        /\ \/ UNCHANGED looper /\ callbacks' = callbacks \cup {j}
           \/ PostTask("register", j) /\ UNCHANGED callbacks
    BY <1>9 DEF WorkerRegister
  <2>3. \A u \in Workers : Leaving(u, i)' <=> u # w /\ Leaving(u, i)
    BY <1>9, WorkerFacts DEF WorkerRegister, Registered, Leaving
  <2>4. CASE i = j
    <3>1. /\ \A u \in Workers : ~Leaving(u, i)'
          /\ i \in wanted /\ ~Out(i) /\ i \notin callbacks /\ called[i] = <<>>
      BY <1>b, <2>1, <2>3, <2>4 DEF RightAt
    <3>2. \/ Once(i)' /\ ~Out(i)' /\ i \in callbacks'
          \/ Once(i)' /\ Out(i)' /\ i \notin callbacks'
      BY <1>b, <1>e, <2>1, <2>2, <2>4, <3>1, OutAfterPost DEF Tasks
    <3> QED
      BY <1>a, <1>b, <2>2, <3>1, <3>2 DEF RightAt
  <2>5. CASE i # j
    <3>1. Once(i)' /\ (Out(i)' <=> Out(i))
      BY <1>b, <1>e, <2>1, <2>2, <2>5, OutAfterPost DEF Tasks
    <3>2. RightFrame(i)
      BY <1>a, <2>2, <2>3, <2>5, <3>1 DEF RightFrame
    <3> QED
      BY <3>2, <1>b, RightKept
  <2> QED
    BY <2>4, <2>5
<1>10. ASSUME NEW w \in Workers, WorkerCheck(w) PROVE RightAt(i)'
  <2>1. \A u \in Workers : Leaving(u, i)' => Leaving(u, i)
    BY <1>10, WorkerFacts DEF WorkerCheck, Registered, Leaving
  <2>2. RightFrame(i)
    BY <1>10, <1>a, <1>e, <2>1 DEF WorkerCheck, RightFrame
  <2> QED
    BY <2>2, <1>b, RightKept
<1>11. ASSUME NEW w \in Workers, WorkerDeliver(w) PROVE RightAt(i)'
  <2> DEFINE j == worker[w].job
  <2>1. j \in Ids
    BY <1>11, WorkerFacts DEF WorkerDeliver
  <2>2. /\ UNCHANGED <<called, wanted>> /\ callbacks' = callbacks \ {j}
        /\ IF j \in callbacks THEN PostTask("deliver", j) ELSE UNCHANGED looper
    BY <1>11 DEF WorkerDeliver
  <2>3. \A u \in Workers : Leaving(u, i)' => Leaving(u, i)
    BY <1>11, WorkerFacts DEF WorkerDeliver, Registered, Leaving
  <2>4. CASE i = j /\ j \in callbacks
    <3>1. /\ \A u \in Workers : ~Leaving(u, i)
          /\ i \in wanted /\ ~Out(i) /\ called[i] = <<>>
      BY <1>b, <2>4 DEF RightAt
    <3>2. Once(i)' /\ Out(i)'
      BY <1>b, <2>1, <2>2, <2>4, <3>1, OutAfterPost DEF Tasks
    <3> QED
      BY <1>a, <1>b, <2>2, <2>3, <2>4, <3>1, <3>2 DEF RightAt
  <2>5. CASE ~(i = j /\ j \in callbacks)
    <3>1. Once(i)' /\ (Out(i)' <=> Out(i))
      BY <1>b, <1>e, <2>1, <2>2, <2>5, OutAfterPost DEF Tasks
    <3>2. RightFrame(i)
      BY <1>a, <2>2, <2>3, <2>5, <3>1 DEF RightFrame
    <3> QED
      BY <3>2, <1>b, RightKept
  <2> QED
    BY <2>4, <2>5
<1>12. ASSUME NEW w \in Workers, WaitEnds(w) \/ Leaves(w) PROVE RightAt(i)'
  <2>1. \A u \in Workers : Leaving(u, i)' => Leaving(u, i)
    <3>1. worker' = [worker EXCEPT ![w] = Free]
      BY <1>12 DEF WaitEnds, Leaves
    <3> QED
      BY <3>1 DEF Leaving, Free, HostTypes
  <2>2. RightFrame(i)
    BY <1>12, <1>a, <1>e, <2>1 DEF WaitEnds, Leaves, RightFrame
  <2> QED
    BY <2>2, <1>b, RightKept
<1>13. ASSUME UNCHANGED vars \/ Table \/ \E j \in Ids : Destroyed(j) PROVE RightAt(i)'
  <2>1. UNCHANGED hostVars
    BY <1>13 DEF vars, hostVars, Table, Destroyed
  <2> QED
    BY <2>1, <1>1
<1> QED
  BY <1>2, <1>3, <1>4, <1>5, <1>6, <1>7, <1>8, <1>9, <1>10, <1>11, <1>12, <1>13
     DEF Next, MainStep, WorkerStep
-----------------------------------------------------------------------------
\* Whoever calls onDone does so with the outcome of a job that is over.
LEMMA ToldStep ==
  ASSUME HostPassesId, IInv, PortInv, HostTypes, RightInv, ToldInv, [Next]_vars
  PROVE  ToldInv'
<1>a. /\ \A i \in Ids : Done(i) => Done(i)' /\ ErrorOf(i)' = ErrorOf(i)
      /\ IInv'
  BY HostStepIsJobsStep, JobsStay DEF ErrorOf
<1>b. /\ looper \in Seq(Tasks)
      /\ \A k \in DOMAIN looper : looper[k] \in Tasks /\ looper[k].job \in Ids
  <2>1. \A k \in DOMAIN looper : looper[k] \in Tasks
    BY DEF HostTypes
  <2> QED
    BY <2>1 DEF HostTypes, Tasks
<1> DEFINE TasksTold == \A k \in DOMAIN looper :
                          looper[k].task \in {"done", "deliver"} => Done(looper[k].job)
           KeptTold  == \A i \in finished : Done(i)
           MainTold  == main.pc = "store" => Done(main.job)
           WorkTold  == \A w \in Workers : worker[w].pc = "early" => Done(worker[w].job)
           CallTold  == \A i \in Ids : called[i] # <<>> => Done(i) /\ called[i] = <<ErrorOf(i)>>
<1>c. ASSUME UNCHANGED looper PROVE TasksTold'
  BY <1>a, <1>b, <1>c DEF ToldInv
<1>d. ASSUME NEW t, NEW j, Runs(t, j)
      PROVE  TasksTold' /\ j \in Ids /\ (t \in {"done", "deliver"} => Done(j))
  <2>1. \A k \in DOMAIN looper' : k + 1 \in DOMAIN looper /\ looper'[k] = looper[k + 1]
    BY <1>b, <1>d, RunsFacts
  <2>2. 1 \in DOMAIN looper /\ looper[1] = [task |-> t, job |-> j]
    BY <1>b, <1>d, RunsFacts
  <2>3. t \in {"done", "deliver"} => Done(j)
    BY <2>2 DEF ToldInv
  <2> QED
    BY <1>a, <1>b, <1>d, <2>1, <2>3, RunsIds DEF ToldInv
<1>e. ASSUME NEW t, NEW j, [task |-> t, job |-> j] \in Tasks, PostTask(t, j),
             t \in {"done", "deliver"} => Done(j)'
      PROVE  TasksTold'
  <2>1. \A k \in DOMAIN looper' : \/ k \in DOMAIN looper /\ looper'[k] = looper[k]
                                  \/ looper'[k] = [task |-> t, job |-> j]
    BY <1>b, <1>e, PostTaskFacts
  <2> QED
    BY <1>a, <1>b, <1>e, <2>1 DEF ToldInv
<1>f. UNCHANGED finished => KeptTold'
  BY <1>a DEF ToldInv, HostTypes
<1>g. UNCHANGED main => MainTold'
  BY <1>a DEF ToldInv, HostTypes
<1>h. ASSUME \A w \in Workers : worker'[w].pc = "early" => worker'[w] = worker[w]
      PROVE  WorkTold'
  BY <1>a, <1>h, WorkerFacts DEF ToldInv, HostTypes
<1>i. UNCHANGED called => CallTold'
  BY <1>a DEF ToldInv
<1>j. ASSUME NEW j \in Ids, KeepResult(j), Done(j) PROVE KeptTold'
  BY <1>a, <1>j, KeepFacts DEF ToldInv, HostTypes
<1>k. ASSUME NEW j \in Ids, CallOnDone(j), Done(j), called[j] = <<>> PROVE CallTold'
  <2>1. called'[j] = <<ErrorOf(j)>> /\ \A i \in Ids : i # j => called'[i] = called[i]
    BY <1>k, CallFacts
  <2> QED
    BY <1>a, <1>k, <2>1 DEF ToldInv
<1> DEFINE Told == TasksTold /\ KeptTold /\ MainTold /\ WorkTold /\ CallTold
<1> HIDE DEF TasksTold, KeptTold, MainTold, WorkTold, CallTold
<1>1. ASSUME UNCHANGED hostVars PROVE Told'
  BY <1>1, <1>c, <1>f, <1>g, <1>h, <1>i DEF hostVars
<1>2. ASSUME NEW c \in Callers, HostStart(c) PROVE Told'
  <2>1. caller[c].job \in Ids
    BY <1>2, CallerJob DEF HostStart, StartOnHost
  <2>2. TasksTold'
    BY <1>2, <1>e, <2>1 DEF HostStart, Tasks
  <2>3. \A w \in Workers : worker'[w].pc = "early" => worker'[w] = worker[w]
    BY <1>2 DEF HostStart, HostTypes
  <2> QED
    BY <1>2, <1>f, <1>g, <1>h, <1>i, <2>2, <2>3 DEF HostStart
<1>3. ASSUME NEW i \in Ids, HostDone(i) PROVE Told'
  <2>1. ASSUME hosted PROVE Done(i)'
    <3>1. told'[i] = told[i] + 1 /\ told[i] \in Nat /\ finish'[i].pc = "done"
      BY <1>3, <2>1 DEF HostDone, NotifyDone, IInv, TypeOK, FinishRecs
    <3> QED
      BY <1>a, <3>1 DEF Done, IInv, ToldOnce
  <2>2. TasksTold'
    BY <1>3, <1>c, <1>e, <2>1 DEF HostDone, Tasks
  <2> QED
    BY <1>3, <1>f, <1>g, <1>h, <1>i, <2>2 DEF HostDone
<1>4. ASSUME MainFailed \/ MainStore PROVE Told'
  <2>1. KeptTold'
    <3>1. CASE MainStore
      BY <1>j, <3>1 DEF MainStore, ToldInv, HostTypes
    <3> QED
      BY <1>4, <1>f, <3>1 DEF MainFailed
  <2>2. MainTold'
    BY <1>4 DEF MainFailed, MainStore, Free, MainTold
  <2> QED
    BY <1>4, <1>c, <1>h, <1>i, <2>1, <2>2 DEF MainFailed, MainStore
<1>5. ASSUME NEW i \in Ids, MainStart(i) \/ MainStartFails(i) PROVE Told'
  <2>1. TasksTold'
    BY <1>5, <1>d DEF MainStart, MainStartFails
  <2>2. MainTold'
    BY <1>5, <1>g DEF MainStart, MainStartFails, MainTold
  <2> QED
    BY <1>5, <1>f, <1>h, <1>i, <2>1, <2>2 DEF MainStart, MainStartFails
<1>6. ASSUME NEW i \in Ids, MainDone(i) PROVE Told'
  <2>1. TasksTold' /\ Done(i)
    BY <1>6, <1>d DEF MainDone
  <2>2. KeptTold'
    BY <1>6, <1>f, <1>j, <2>1 DEF MainDone
  <2>3. MainTold'
    <3>1. CASE UNCHANGED main
      BY <1>g, <3>1
    <3>2. CASE main' = [pc |-> "store", job |-> i]
      BY <1>a, <2>1, <3>2 DEF MainTold
    <3> QED
      BY <1>6, <3>1, <3>2 DEF MainDone
  <2>4. CallTold'
    BY <1>6, <1>i, <1>k, <2>1 DEF MainDone, RightInv, RightAt
  <2> QED
    BY <1>6, <1>h, <2>1, <2>2, <2>3, <2>4 DEF MainDone
<1>7. ASSUME NEW i \in Ids, MainDeliver(i) \/ MainRegister(i) PROVE Told'
  <2>1. TasksTold'
    BY <1>7, <1>d DEF MainDeliver, MainRegister
  <2>2. KeptTold'
    BY <1>7, <1>f, <1>a DEF MainDeliver, MainRegister, KeptTold, ToldInv, HostTypes
  <2>3. called[i] = <<>>
    <3>1. Out(i)
      BY <1>7, OutAfterRuns DEF MainDeliver, MainRegister, RightInv, RightAt
    <3> QED
      BY <3>1 DEF RightInv, RightAt
  <2>4. CallOnDone(i) => Done(i)
    BY <1>7, <1>d, <2>3, CallFacts DEF MainDeliver, MainRegister, ToldInv
  <2>5. CallTold'
    BY <1>7, <1>i, <1>k, <2>3, <2>4 DEF MainDeliver, MainRegister
  <2> QED
    BY <1>7, <1>g, <1>h, <2>1, <2>2, <2>5 DEF MainDeliver, MainRegister
<1>8. ASSUME NEW w \in Workers, WorkerRegister(w) PROVE Told'
  <2>1. TasksTold'
    BY <1>8, <1>c, <1>e, WorkerFacts DEF WorkerRegister, Tasks
  <2>2. WorkTold'
    <3>1. \A u \in Workers : worker'[u].pc = "early" => worker'[u] = worker[u]
      BY <1>8, WorkerFacts DEF WorkerRegister, Registered
    <3> QED
      BY <1>h, <3>1
  <2> QED
    BY <1>8, <1>f, <1>g, <1>i, <2>1, <2>2 DEF WorkerRegister
<1>9. ASSUME NEW w \in Workers, WorkerCheck(w) PROVE Told'
  <2>1. worker[w].job \in Ids /\ finished' \subseteq finished
    BY <1>9, WorkerFacts DEF WorkerCheck
  <2>2. \A u \in Workers : worker'[u].pc = "early" =>
          \/ worker'[u] = worker[u]
          \/ u = w /\ worker'[w].job = worker[w].job /\ worker[w].job \in finished
    BY <1>9, WorkerFacts DEF WorkerCheck, Registered
  <2>3. WorkTold'
    BY <1>a, <2>1, <2>2, WorkerFacts DEF WorkTold, ToldInv
  <2>4. KeptTold'
    BY <1>a, <2>1 DEF KeptTold, ToldInv, HostTypes
  <2> QED
    BY <1>9, <1>c, <1>g, <1>i, <2>3, <2>4 DEF WorkerCheck
<1>10. ASSUME NEW w \in Workers, WorkerDeliver(w) PROVE Told'
  <2>1. worker[w].job \in Ids /\ Done(worker[w].job)
    BY <1>10, WorkerFacts DEF WorkerDeliver, ToldInv
  <2>2. TasksTold'
    BY <1>10, <1>a, <1>c, <1>e, <2>1 DEF WorkerDeliver, Tasks
  <2>3. \A u \in Workers : worker'[u].pc = "early" => worker'[u] = worker[u]
    BY <1>10, WorkerFacts DEF WorkerDeliver, Registered
  <2> QED
    BY <1>10, <1>f, <1>g, <1>h, <1>i, <2>2, <2>3 DEF WorkerDeliver
<1>11. ASSUME NEW w \in Workers, WaitEnds(w) \/ Leaves(w) PROVE Told'
  <2>1. worker' = [worker EXCEPT ![w] = Free]
    BY <1>11 DEF WaitEnds, Leaves
  <2>2. \A u \in Workers : worker'[u].pc = "early" => worker'[u] = worker[u]
    BY <2>1 DEF Free, HostTypes
  <2> QED
    BY <1>11, <1>c, <1>f, <1>g, <1>h, <1>i, <2>2 DEF WaitEnds, Leaves
<1>12. ASSUME UNCHANGED vars \/ Table \/ \E j \in Ids : Destroyed(j) PROVE Told'
  <2>1. UNCHANGED hostVars
    BY <1>12 DEF vars, hostVars, Table, Destroyed
  <2> QED
    BY <2>1, <1>1
<1>13. Told'
  BY <1>2, <1>3, <1>4, <1>5, <1>6, <1>7, <1>8, <1>9, <1>10, <1>11, <1>12
     DEF Next, MainStep, WorkerStep
<1> QED
  BY <1>13 DEF ToldInv, TasksTold, KeptTold, MainTold, WorkTold, CallTold

\* A waiting caller returns what onDone was called with.
LEMMA WaitStep ==
  ASSUME HostPassesId, IInv, PortInv, HostTypes, ToldInv, WaitReturnsOwn, [Next]_vars
  PROVE  WaitReturnsOwn'
<1>a. \A i \in Ids : Done(i) => Done(i)' /\ ErrorOf(i)' = ErrorOf(i)
  BY HostStepIsJobsStep, JobsStay DEF ErrorOf
<1>b. \A i \in Ids : told[i] = 1 => Done(i)
  BY DEF IInv, ToldOnce, Done
<1>1. CASE UNCHANGED returned
  BY <1>1, <1>a, <1>b DEF WaitReturnsOwn, Done
<1>2. ASSUME NEW w \in Workers, Leaves(w) PROVE WaitReturnsOwn'
  <2>1. \A i \in Ids : returned'[i] \in {"ok", "error"} => returned'[i] = returned[i]
    BY <1>2 DEF Leaves, HostTypes
  <2> QED
    BY <1>a, <1>b, <2>1 DEF WaitReturnsOwn, Done
<1>3. ASSUME NEW w \in Workers, WaitEnds(w) PROVE WaitReturnsOwn'
  <2> DEFINE j == worker[w].job
  <2>1. j \in Ids
    BY <1>3, WorkerFacts DEF WaitEnds
  <2>2. called[j] # <<>> /\ returned' = [returned EXCEPT ![j] = Head(called[j])]
    BY <1>3 DEF WaitEnds, LatchOf
  <2>3. Done(j) /\ called[j] = <<ErrorOf(j)>>
    BY <2>1, <2>2 DEF ToldInv
  <2>4. \A i \in Ids : returned'[i] = IF i = j THEN ErrorOf(j) ELSE returned[i]
    BY <2>2, <2>3 DEF HostTypes
  <2> QED
    BY <1>a, <1>b, <2>1, <2>3, <2>4 DEF WaitReturnsOwn, Done
<1>4. \/ UNCHANGED returned
      \/ \E w \in Workers : Leaves(w) \/ WaitEnds(w)
  BY DEF Next, vars, Table, hostVars, HostStart, HostDone, Destroyed, MainStep, MainFailed,
         MainStore, MainStart, MainStartFails, MainDone, MainDeliver, MainRegister,
         WorkerStep, WorkerRegister, WorkerCheck, WorkerDeliver
<1> QED
  BY <1>1, <1>2, <1>3, <1>4
-----------------------------------------------------------------------------
\* Every task that is waiting waits on, and in the same order, behind it a new one
\* and before it one fewer.
LEMMA WaitingAfterPost ==
  ASSUME HostTypes, NEW t, NEW i, [task |-> t, job |-> i] \in Tasks, PostTask(t, i)
  PROVE  /\ \A u, j : Waiting(u, j) => Waiting(u, j)'
         /\ Waiting(t, i)'
         /\ \A k \in DOMAIN looper, j \in Ids : EndsBehind(k, j) => EndsBehind(k, j)'
         /\ t = "done" => \A k \in DOMAIN looper : EndsBehind(k, i)'
<1>1. /\ \A k \in DOMAIN looper : k \in DOMAIN looper' /\ looper'[k] = looper[k]
      /\ \A m \in DOMAIN looper' : m \notin DOMAIN looper => \A k \in DOMAIN looper : m > k
      /\ \E n \in DOMAIN looper' : /\ n \notin DOMAIN looper
                                   /\ looper'[n] = [task |-> t, job |-> i]
  BY PostTaskFacts DEF HostTypes
<1> QED
  BY <1>1 DEF Waiting, EndsBehind

LEMMA WaitingAfterRuns ==
  ASSUME HostTypes, NEW t, NEW i, Runs(t, i)
  PROVE  /\ \A u, j : Waiting(u, j) /\ (u # t \/ j # i) => Waiting(u, j)'
         /\ \A k \in DOMAIN looper', j \in Ids : EndsBehind(k + 1, j) => EndsBehind(k, j)'
         /\ EndsBehind(1, i) => Waiting("done", i)'
<1>1. /\ looper[1] = [task |-> t, job |-> i]
      /\ \A k \in DOMAIN looper : k # 1 =>
           k - 1 \in DOMAIN looper' /\ looper'[k - 1] = looper[k]
      /\ DOMAIN looper \subseteq Nat /\ DOMAIN looper' \subseteq Nat
  BY RunsFacts DEF HostTypes
<1>2. \A u, j : Waiting(u, j) /\ (u # t \/ j # i) => Waiting(u, j)'
  <2> SUFFICES ASSUME NEW u, NEW j, Waiting(u, j), u # t \/ j # i PROVE Waiting(u, j)'
    OBVIOUS
  <2>1. PICK k \in DOMAIN looper : looper[k] = [task |-> u, job |-> j]
    BY DEF Waiting
  <2>2. k # 1
    BY <1>1, <2>1
  <2> QED
    BY <1>1, <2>1, <2>2 DEF Waiting
<1>3. ASSUME NEW k \in DOMAIN looper', NEW j \in Ids, EndsBehind(k + 1, j)
      PROVE  EndsBehind(k, j)'
  <2>1. PICK m \in DOMAIN looper : m > k + 1 /\ looper[m] = [task |-> "done", job |-> j]
    BY <1>3 DEF EndsBehind
  <2>2. m # 1 /\ m - 1 > k
    BY <1>1, <2>1
  <2> QED
    BY <1>1, <2>1, <2>2 DEF EndsBehind
<1>4. EndsBehind(1, i) => Waiting("done", i)'
  <2> SUFFICES ASSUME EndsBehind(1, i) PROVE Waiting("done", i)'
    OBVIOUS
  <2>1. PICK m \in DOMAIN looper : m > 1 /\ looper[m] = [task |-> "done", job |-> i]
    BY DEF EndsBehind
  <2> QED
    BY <1>1, <2>1 DEF Waiting
<1> QED
  BY <1>2, <1>3, <1>4

\* The job of a caller stays as it was submitted until the caller starts it.
LEMMA CallersStep ==
  ASSUME HostPassesId, IInv, PortInv, CallersFresh, [JobsNext]_jobVars
  PROVE  CallersFresh'
<1>0. /\ caller \in [Callers -> CallerRecs] /\ finish \in [Ids -> FinishRecs]
      /\ jobs \in Seq([entry : Entries, kind : Kinds]) /\ Len(jobs) <= MaxJobs
      /\ hosted => hosted'
  BY JobsStay DEF IInv, TypeOK
<1>1. ASSUME \A c \in Callers : \/ caller'[c] = caller[c]
                                \/ ~caller'[c].host /\ caller'[c].pc = "idle"
                                \/ caller'[c].host = caller[c].host /\ caller'[c].pc = "cancel",
             \A c \in Callers : caller[c].pc = "start" =>
               finish'[caller[c].job] = finish[caller[c].job]
      PROVE  CallersFresh'
  BY <1>0, <1>1 DEF CallersFresh
<1>2. ASSUME NEW c \in Callers, NEW e \in Entries, NEW kind \in Kinds, Submit(c, e, kind)
      PROVE  CallersFresh'
  <2>1. /\ caller' = [caller EXCEPT ![c] =
                        [pc |-> "start", job |-> Len(jobs) + 1, host |-> hosted]]
        /\ UNCHANGED <<finish, hosted>> /\ Len(jobs) < MaxJobs
    BY <1>2 DEF Submit
  <2>2. Len(jobs) + 1 \in Ids \ DOMAIN jobs
    BY <1>0, <2>1, JobsOK DEF Ids
  <2>3. finish[Len(jobs) + 1].pc = "no"
    BY <2>2 DEF IInv, FinishInv
  <2>4. /\ caller'[c].pc = "start" /\ caller'[c].job = Len(jobs) + 1
        /\ caller'[c].host = hosted
        /\ \A d \in Callers : d # c => caller'[d] = caller[d]
    BY <1>0, <2>1
  <2> QED
    BY <2>1, <2>3, <2>4 DEF CallersFresh
<1>3. ASSUME NEW c \in Callers, StartOnHost(c) \/ StartFallback(c) \/ StartRefused(c)
      PROVE  CallersFresh'
  <2>1. /\ UNCHANGED finish
        /\ caller' = [caller EXCEPT ![c] = AtRest] \/ caller' = [caller EXCEPT ![c].pc = "cancel"]
    BY <1>3 DEF StartOnHost, StartFallback, StartRefused
  <2> QED
    BY <1>0, <1>1, <2>1 DEF AtRest, CallerRecs
<1>4. ASSUME NEW i \in Ids, NEW o, Pop(i, o) \/ PopFails(i)
      PROVE  \A j \in Ids : j # i => finish'[j] = finish[j]
  BY <1>0, <1>4 DEF Pop, PopFails
<1>5. ASSUME NEW c \in Callers, CancelRefused(c) PROVE CallersFresh'
  <2>1. /\ caller[c].pc = "cancel" /\ caller' = [caller EXCEPT ![c] = AtRest]
        /\ Pop(caller[c].job, "cancel") \/ PopFails(caller[c].job)
    BY <1>5 DEF CancelRefused
  <2>2. \A d \in Callers : caller[d].pc = "start" =>
          caller[d].job \in Ids /\ caller[d].job # caller[c].job
    BY <2>1, CallerJob DEF IInv, CallerInv
  <2>3. caller[c].job \in Ids
    BY <2>1, CallerJob
  <2>4. \A d \in Callers : caller[d].pc = "start" =>
          finish'[caller[d].job] = finish[caller[d].job]
    BY <1>4, <2>1, <2>2, <2>3
  <2> QED
    BY <1>0, <1>1, <2>1, <2>4 DEF AtRest
<1>6. ASSUME NEW i \in Ids,
             Cancel(i) \/ EngineFails(i) \/ Finish(i) \/ PostOutcome(i) \/ NotifyDone(i)
      PROVE  CallersFresh'
  <2>1. caller' = caller
    BY <1>6 DEF Cancel, EngineFails, Finish, PostOutcome, NotifyDone
  <2>2. \A j \in Ids : j # i => finish'[j] = finish[j]
    <3>1. CASE \E o : Pop(i, o) \/ PopFails(i)
      BY <1>4, <3>1
    <3>2. CASE Finish(i)
      <4>1. runner[i].job = i
        BY <3>2 DEF Finish, PortInv, OwnJob, Busy
      <4> QED
        BY <1>4, <3>2, <4>1 DEF Finish
    <3>3. CASE PostOutcome(i) \/ NotifyDone(i)
      BY <1>0, <3>3 DEF PostOutcome, NotifyDone
    <3> QED
      BY <1>6, <3>1, <3>2, <3>3 DEF Cancel, EngineFails
  <2>3. \A c \in Callers : caller[c].pc = "start" => caller[c].job \in Ids /\ caller[c].job # i
    <3> SUFFICES ASSUME NEW c \in Callers, caller[c].pc = "start", caller[c].job = i
                 PROVE  FALSE
      BY CallerJob
    <3>1. runner[i].pc = "none" /\ finish[i].pc = "no"
      BY CallerJob DEF CallersFresh
    <3> QED
      BY <1>6, <3>1 DEF Cancel, EngineFails, Finish, PostOutcome, NotifyDone
  <2> QED
    BY <1>1, <2>1, <2>2, <2>3
<1>7. ASSUME \/ UNCHANGED jobVars \/ RegisterHost
             \/ \E i \in Ids : \/ EngineUp(i) \/ EngineDestroyed(i) \/ Take(i)
                               \/ TakeNothing(i) \/ Emit(i) \/ EmitPost(i)
      PROVE  CallersFresh'
  <2>1. UNCHANGED <<caller, finish>>
    BY <1>7 DEF jobVars, RegisterHost, EngineUp, EngineDestroyed, Take, TakeNothing, Emit,
                EmitPost
  <2> QED
    BY <1>1, <2>1
<1> QED
  BY <1>2, <1>3, <1>5, <1>6, <1>7 DEF JobsNext, CallerStep, IsolateStep
\* Only the done hook's own step makes a job done.
LEMMA DoneOnlyByHook ==
  ASSUME IInv, Table \/ \E j \in Ids : EngineFails(j)
  PROVE  \A i \in Ids : finish'[i].pc = "done" => finish[i].pc = "done"
<1>0. finish \in [Ids -> FinishRecs] /\ runner \in [Ids -> RunnerRecs]
  BY DEF IInv, TypeOK
<1>1. ASSUME NEW j, NEW o, Pop(j, o) \/ PopFails(j)
      PROVE  \A i \in Ids : finish'[i].pc = "done" => finish[i].pc = "done"
  BY <1>0, <1>1 DEF Pop, PopFails
<1>2. ASSUME NEW j \in Ids, PostOutcome(j)
      PROVE  \A i \in Ids : finish'[i].pc = "done" => finish[i].pc = "done"
  BY <1>0, <1>2 DEF PostOutcome
<1>3. ASSUME \/ \E c \in Callers : CancelRefused(c)
             \/ \E j \in Ids : Cancel(j) \/ EngineFails(j) \/ Finish(j)
      PROVE  \E j, o : Pop(j, o) \/ PopFails(j)
  <2>1. CASE \E j \in Ids : Finish(j)
    <3>1. PICK j \in Ids : \E o \in Outcomes(jobs[runner[j].job].kind) :
                             Pop(runner[j].job, o) \/ PopFails(runner[j].job)
      BY <2>1 DEF Finish
    <3> QED
      BY <3>1
  <2>2. CASE \E c \in Callers : CancelRefused(c)
    BY <2>2 DEF CancelRefused
  <2>3. CASE \E j \in Ids : Cancel(j) \/ EngineFails(j)
    BY <2>3 DEF Cancel, EngineFails
  <2> QED
    BY <1>3, <2>1, <2>2, <2>3
<1>4. ASSUME \/ RegisterHost
             \/ \E c \in Callers : \/ \E e \in Entries, kind \in Kinds : Submit(c, e, kind)
                                   \/ StartFallback(c) \/ StartRefused(c)
             \/ \E j \in Ids : Take(j) \/ TakeNothing(j) \/ Emit(j) \/ EmitPost(j)
      PROVE  UNCHANGED finish
  BY <1>4 DEF RegisterHost, Submit, StartFallback, StartRefused, Take, TakeNothing, Emit,
              EmitPost
<1> QED
  BY <1>1, <1>2, <1>3, <1>4 DEF Table, IsolateStep

\* No engine is started behind the end of its job, and none is left when it ends.
LEMMA EngineStep ==
  ASSUME HostPassesId, IInv, PortInv, HostTypes, EngineInv, [Next]_vars
  PROVE  EngineInv'
<1>a. /\ [JobsNext]_jobVars /\ (hosted => hosted') /\ DOMAIN jobs \subseteq DOMAIN jobs'
      /\ DOMAIN jobs \subseteq Ids
  BY HostStepIsJobsStep, JobsStay, JobIds DEF IInv
<1>b. \A k \in DOMAIN looper : looper[k] \in Tasks /\ looper[k].job \in Ids
  <2>1. \A k \in DOMAIN looper : looper[k] \in Tasks
    BY DEF HostTypes
  <2> QED
    BY <2>1 DEF Tasks
<1>0. CallersFresh'
  BY <1>a, CallersStep DEF EngineInv
<1> DEFINE NoneEnds == \A i \in Ids : finish'[i].pc = "done" => finish[i].pc = "done"
           Kept == StartsInOrder' /\ EnginesEnd'
<1>c. ASSUME NoneEnds, UNCHANGED looper, engines' \subseteq engines PROVE Kept
  BY <1>a, <1>b, <1>c DEF EngineInv, StartsInOrder, EnginesEnd, EndsBehind, Waiting, HostTypes
<1>d. ASSUME NoneEnds, UNCHANGED engines, NEW t \in {"register", "deliver"}, NEW i \in Ids,
             PostTask(t, i)
      PROVE  Kept
  <2>1. \A k \in DOMAIN looper' : \/ k \in DOMAIN looper /\ looper'[k] = looper[k]
                                  \/ looper'[k] = [task |-> t, job |-> i]
    <3>1. looper \in Seq(Tasks) /\ [task |-> t, job |-> i] \in Tasks
      BY DEF HostTypes, Tasks
    <3> QED
      BY <1>d, <3>1, PostTaskFacts
  <2>2. StartsInOrder'
    BY <1>a, <1>b, <1>d, <2>1, WaitingAfterPost DEF EngineInv, StartsInOrder, Tasks
  <2>3. EnginesEnd'
    BY <1>a, <1>d, WaitingAfterPost DEF EngineInv, EnginesEnd, HostTypes, Tasks
  <2> QED
    BY <2>2, <2>3
<1>e. ASSUME NoneEnds, NEW t, NEW i \in Ids, Runs(t, i)
      PROVE  /\ StartsInOrder'
             /\ engines' \subseteq engines /\ (t = "done" => i \notin engines') => EnginesEnd'
  <2>1. \A k \in DOMAIN looper' : k + 1 \in DOMAIN looper /\ looper'[k] = looper[k + 1]
    BY <1>e, RunsFacts DEF HostTypes
  <2>2. StartsInOrder'
    BY <1>a, <1>b, <1>e, <2>1, WaitingAfterRuns DEF EngineInv, StartsInOrder
  <2>3. ASSUME engines' \subseteq engines, t = "done" => i \notin engines' PROVE EnginesEnd'
    BY <1>a, <1>e, <2>3, WaitingAfterRuns DEF EngineInv, EnginesEnd, HostTypes
  <2> QED
    BY <2>2, <2>3
<1>f. ASSUME UNCHANGED finish PROVE NoneEnds
  BY <1>f
<1> HIDE DEF NoneEnds, Kept
<1>1. ASSUME UNCHANGED vars \/ Table \/ \E j \in Ids : Destroyed(j) PROVE Kept
  <2>1. UNCHANGED hostVars
    BY <1>1 DEF vars, hostVars, Table, Destroyed
  <2>2. NoneEnds
    <3>1. CASE Table
      BY <3>1, DoneOnlyByHook DEF NoneEnds
    <3>2. CASE UNCHANGED finish
      BY <3>2, <1>f
    <3> QED
      BY <1>1, <3>1, <3>2 DEF vars, Destroyed, EngineDestroyed
  <2> QED
    BY <2>1, <2>2, <1>c DEF hostVars
<1>2. ASSUME NEW c \in Callers, HostStart(c) PROVE Kept
  <2> DEFINE i == caller[c].job
  <2>1. /\ i \in Ids /\ i \in DOMAIN jobs /\ hosted /\ finish[i].pc = "no"
        /\ UNCHANGED <<finish, engines>> /\ PostTask("start", i)
    BY <1>2, CallerJob DEF HostStart, StartOnHost, EngineInv, CallersFresh
  <2> HIDE DEF i
  <2>2. \A k \in DOMAIN looper' : \/ k \in DOMAIN looper /\ looper'[k] = looper[k]
                                  \/ looper'[k] = [task |-> "start", job |-> i]
    <3>1. looper \in Seq(Tasks) /\ [task |-> "start", job |-> i] \in Tasks
      BY <2>1 DEF HostTypes, Tasks
    <3> QED
      BY <2>1, <3>1, PostTaskFacts
  <2>3. StartsInOrder'
    BY <1>a, <1>b, <2>1, <2>2, WaitingAfterPost DEF EngineInv, StartsInOrder, Tasks
  <2>4. EnginesEnd'
    BY <1>a, <2>1, WaitingAfterPost DEF EngineInv, EnginesEnd, HostTypes, Tasks
  <2> QED
    BY <2>3, <2>4 DEF Kept
<1>3. ASSUME NEW i \in Ids, HostDone(i) PROVE Kept
  <2>1. /\ \A j \in Ids : j # i => finish'[j] = finish[j]
        /\ UNCHANGED <<engines, hosted, jobs>>
    BY <1>3 DEF HostDone, NotifyDone, IInv, TypeOK
  <2>2. CASE hosted
    <3>1. PostTask("done", i)
      BY <1>3, <2>2 DEF HostDone
    <3>2. \A k \in DOMAIN looper' : \/ k \in DOMAIN looper /\ looper'[k] = looper[k]
                                    \/ looper'[k] = [task |-> "done", job |-> i]
      BY <3>1, PostTaskFacts DEF HostTypes, Tasks
    <3>3. StartsInOrder'
      BY <1>b, <2>1, <3>1, <3>2, WaitingAfterPost DEF EngineInv, StartsInOrder, Tasks
    <3>4. EnginesEnd'
      BY <2>1, <3>1, WaitingAfterPost DEF EngineInv, EnginesEnd, HostTypes, Tasks
    <3> QED
      BY <3>3, <3>4 DEF Kept
  <2>3. CASE ~hosted
    <3>1. UNCHANGED looper
      BY <1>3, <2>3 DEF HostDone
    <3> QED
      BY <2>1, <2>3, <3>1 DEF EngineInv, StartsInOrder, EnginesEnd, Kept
  <2> QED
    BY <2>2, <2>3
<1>4. ASSUME MainFailed \/ MainStore PROVE Kept
  BY <1>4, <1>c, <1>f DEF MainFailed, MainStore, jobVars
<1>5. ASSUME NEW i \in Ids, MainStart(i) PROVE Kept
  <2>1. Runs("start", i) /\ engines' = engines \cup {i} /\ UNCHANGED <<finish, jobs, hosted>>
    BY <1>5 DEF MainStart, EngineUp
  <2>2. StartsInOrder'
    BY <1>e, <1>f, <2>1
  <2>3. 1 \in DOMAIN looper /\ looper[1] = [task |-> "start", job |-> i]
    BY <2>1, RunsFacts DEF HostTypes
  <2>4. hosted /\ i \in DOMAIN jobs /\ (finish[i].pc = "done" => Waiting("done", i)')
    BY <2>1, <2>3, WaitingAfterRuns DEF EngineInv, StartsInOrder
  <2>5. EnginesEnd'
    BY <2>1, <2>4, WaitingAfterRuns DEF EngineInv, EnginesEnd
  <2> QED
    BY <2>2, <2>5 DEF Kept
<1>6. ASSUME NEW i \in Ids, MainStartFails(i) PROVE Kept
  <2>1. NoneEnds
    BY <1>6, DoneOnlyByHook DEF MainStartFails, NoneEnds
  <2> QED
    BY <1>6, <1>e, <2>1 DEF MainStartFails, Kept
<1>7. ASSUME NEW i \in Ids, MainDone(i) PROVE Kept
  BY <1>7, <1>e, <1>f DEF MainDone, jobVars, Kept
<1>8. ASSUME NEW i \in Ids, MainDeliver(i) \/ MainRegister(i) PROVE Kept
  BY <1>8, <1>e, <1>f DEF MainDeliver, MainRegister, jobVars, Kept
<1>9. ASSUME NEW w \in Workers, WorkerRegister(w) \/ WorkerDeliver(w) PROVE Kept
  <2>1. worker[w].job \in Ids
    BY <1>9, WorkerFacts DEF WorkerRegister, WorkerDeliver
  <2>2. UNCHANGED <<finish, engines>>
    BY <1>9 DEF WorkerRegister, WorkerDeliver, jobVars
  <2>3. \/ UNCHANGED looper
        \/ PostTask("register", worker[w].job) \/ PostTask("deliver", worker[w].job)
    BY <1>9 DEF WorkerRegister, WorkerDeliver
  <2> QED
    BY <1>c, <1>d, <1>f, <2>1, <2>2, <2>3
<1>10. ASSUME NEW w \in Workers, WorkerCheck(w) \/ WaitEnds(w) \/ Leaves(w) PROVE Kept
  BY <1>10, <1>c, <1>f DEF WorkerCheck, WaitEnds, Leaves, jobVars
<1>11. Kept
  BY <1>1, <1>2, <1>3, <1>4, <1>5, <1>6, <1>7, <1>8, <1>9, <1>10
     DEF Next, MainStep, WorkerStep
<1> QED
  BY <1>0, <1>11 DEF EngineInv, Kept
-----------------------------------------------------------------------------
\* At the start nothing was submitted, and the main thread has nothing to do.
LEMMA InitHost == Init => IInv /\ PortInv /\ HostInv
<1> SUFFICES ASSUME Init PROVE IInv /\ PortInv /\ HostInv
  OBVIOUS
<1>1. IInv /\ PortInv
  BY InitIInv, InitPortInv DEF Init
<1>2. /\ looper = <<>> /\ DOMAIN looper = {} /\ main.pc = "idle"
      /\ \A w \in Workers : worker[w].pc = "idle"
      /\ \A i \in Ids : called[i] = <<>> /\ returned[i] = "none"
  BY DEF Init, Free
<1>3. HostTypes
  <2>1. looper \in Seq(Tasks) /\ called \in [Ids -> Seq({"ok", "error"})]
    BY DEF Init
  <2> QED
    BY <1>2, <2>1 DEF Init, HostTypes, Free
<1>4. EngineInv
  BY <1>2 DEF Init, JobsInit, AtRest, EngineInv, CallersFresh, StartsInOrder, EnginesEnd
<1>5. RightInv
  BY <1>2 DEF Init, RightInv, RightAt, Leaving, Out, Once
<1>6. ToldInv /\ WaitReturnsOwn
  BY <1>2 DEF Init, ToldInv, WaitReturnsOwn
<1> QED
  BY <1>1, <1>3, <1>4, <1>5, <1>6 DEF HostInv

LEMMA HostInvariant == ASSUME HostPassesId PROVE Spec => [](IInv /\ PortInv /\ HostInv)
<1>1. IInv /\ PortInv /\ HostInv /\ [Next]_vars => (IInv /\ PortInv /\ HostInv)'
  <2> SUFFICES ASSUME IInv, PortInv, HostInv, [Next]_vars
               PROVE  (IInv /\ PortInv /\ HostInv)'
    OBVIOUS
  <2>1. IInv' /\ PortInv'
    BY HostStepIsJobsStep, JobsStay
  <2>2. HostTypes' /\ EngineInv' /\ RightInv' /\ ToldInv' /\ WaitReturnsOwn'
    BY HostTypeStep, EngineStep, RightStep, ToldStep, WaitStep DEF HostInv
  <2> QED
    BY <2>1, <2>2 DEF HostInv
<1> QED
  BY <1>1, InitHost, PTL DEF Spec

(***************************************************************************)
(* Neither host leaves an engine behind: for any number of jobs and        *)
(* callers, a kept engine's job is still to end or its end is on the way   *)
(* to the main thread, though a job may be over before its engine started. *)
(***************************************************************************)
THEOREM EnginesKept == ASSUME HostPassesId PROVE Spec => []EnginesAccountedFor
<1>1. IInv /\ HostInv => EnginesAccountedFor
  <2> SUFFICES ASSUME IInv, HostInv, NEW i \in engines
               PROVE  \/ Active(i) \/ finish[i].pc \in {"post", "notify"}
                      \/ Waiting("done", i)
    BY DEF EnginesAccountedFor
  <2>1. i \in Ids /\ i \in DOMAIN jobs /\ (finish[i].pc = "done" => Waiting("done", i))
    BY DEF HostInv, HostTypes, EngineInv, EnginesEnd
  <2>2. finish[i].pc \in {"no", "post", "notify", "done"}
    BY <2>1 DEF IInv, TypeOK, FinishRecs
  <2>3. finish[i].pc = "no" => Active(i)
    BY <2>1 DEF IInv, TableInv
  <2> QED
    BY <2>1, <2>2, <2>3
<1> QED
  BY <1>1, HostInvariant, PTL

(***************************************************************************)
(* onDone is called at most once per job and with the job's own outcome,   *)
(* whichever of the worker and the main thread finds it, on both hosts.    *)
(***************************************************************************)
THEOREM OnDoneOnce == ASSUME HostPassesId PROVE Spec => []OnDoneAtMostOnce
<1>1. HostInv => OnDoneAtMostOnce
  BY DEF HostInv, RightInv, RightAt, ToldInv, Done, OnDoneAtMostOnce
<1> QED
  BY <1>1, HostInvariant, PTL

(***************************************************************************)
(* A caller that waits returns the outcome of its own job, also when an    *)
(* earlier call of it gave up waiting and is answered late.                *)
(***************************************************************************)
THEOREM WaitersGetOwn == ASSUME HostPassesId PROVE Spec => []WaitReturnsOwn
<1>1. HostInv => WaitReturnsOwn
  BY DEF HostInv
<1> QED
  BY <1>1, HostInvariant, PTL
(***************************************************************************)
(* With either host the table is the table of BackgroundJobs, whose        *)
(* engines come and go as they like: what is proved there holds here.      *)
(***************************************************************************)
THEOREM HostsRefineTable == Spec => JobsSpec
<1>1. Init => JobsInit
  BY DEF Init
<1>2. [Next]_vars => [JobsNext]_jobVars
  BY HostStepIsJobsStep
<1> QED
  BY <1>1, <1>2, PTL DEF Spec, JobsSpec

================================================================================
