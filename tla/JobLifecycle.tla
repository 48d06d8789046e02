----------------------------- MODULE JobLifecycle -----------------------------
(***************************************************************************)
(* What a background job promises its submitter, and no word on how: the   *)
(* job waits, runs on one isolate and ends once; the port of a Dart        *)
(* submitter gets the items of a stream in between and then exactly the    *)
(* outcome, or after a cancellation nothing but perhaps one last item.     *)
(***************************************************************************)
EXTENDS Naturals, Sequences

CONSTANT Ids

VARIABLES kind, status, box

Active(i) == status[i] \in {"waiting", "running"}

Init ==
  /\ kind = [i \in Ids |-> "none"]
  /\ status = [i \in Ids |-> "none"]
  /\ box = [i \in Ids |-> <<>>]

Submit(i) ==
  /\ status[i] = "none"
  /\ \E k \in {"future", "stream", "native"} : kind' = [kind EXCEPT ![i] = k]
  /\ status' = [status EXCEPT ![i] = "waiting"]
  /\ UNCHANGED box

Begin(i) ==
  /\ status[i] = "waiting"
  /\ status' = [status EXCEPT ![i] = "running"]
  /\ UNCHANGED <<kind, box>>

Item(i) ==
  /\ status[i] = "running"
  /\ kind[i] = "stream"
  /\ box' = [box EXCEPT ![i] = Append(@, "item")]
  /\ UNCHANGED <<kind, status>>

\* Only the submitter of a stream cancels; an error may come before it ran.
End(i, outcome) ==
  /\ Active(i)
  /\ outcome = "cancelled" => kind[i] # "future"
  /\ outcome = "result" => kind[i] # "stream"
  /\ outcome = "end" => kind[i] = "stream"
  /\ status' = [status EXCEPT ![i] = IF kind[i] = "native" THEN "closed" ELSE outcome]
  /\ UNCHANGED <<kind, box>>

Answer(i) ==
  /\ status[i] \in {"result", "error", "end"}
  /\ box' = [box EXCEPT ![i] = Append(@, status[i])]
  /\ status' = [status EXCEPT ![i] = "closed"]
  /\ UNCHANGED kind

LastItem(i) ==
  /\ status[i] = "cancelled"
  /\ kind[i] = "stream"
  /\ box' = [box EXCEPT ![i] = Append(@, "item")]
  /\ status' = [status EXCEPT ![i] = "closed"]
  /\ UNCHANGED kind

Next == \E i \in Ids :
  \/ Submit(i) \/ Begin(i) \/ Item(i) \/ Answer(i) \/ LastItem(i)
  \/ \E outcome \in {"result", "error", "end", "cancelled"} : End(i, outcome)

Spec == Init /\ [][Next]_<<kind, status, box>>

=============================================================================
