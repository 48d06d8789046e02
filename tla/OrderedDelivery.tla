--------------------------- MODULE OrderedDelivery ---------------------------
(***************************************************************************)
(* What NitroCompletionBatch promises, without the mutex, the in-flight    *)
(* flag or the acks: as long as a port is served (a batch port, or a       *)
(* subscribed stream, whose receive port is open) it is a channel.  Every  *)
(* object posted to it arrives once, in order, in messages of any size;    *)
(* when the port stops being served the rest of the channel is dropped.    *)
(* An object that goes ahead of the channel ends it as well: of what       *)
(* arrives afterwards nothing is promised here.                            *)
(***************************************************************************)
EXTENDS Integers, Sequences

CONSTANTS Ports

VARIABLES
  served,     \* the ports the batcher delivers to
  posts,      \* objects are numbered by the calls of post(), all ports together
  chan,       \* per served port: accepted, not yet delivered
  delivered   \* per port: what Dart received

avars == <<served, posts, chan, delivered>>

Init ==
  /\ served \subseteq Ports
  /\ posts = 0
  /\ chan = [p \in Ports |-> <<>>]
  /\ delivered = [p \in Ports |-> <<>>]

\* A stream subscribes; nothing was ever delivered to its port.
Serve(p) ==
  /\ p \notin served
  /\ delivered[p] = <<>>
  /\ served' = served \cup {p}
  /\ UNCHANGED <<posts, chan, delivered>>

Accept(p) ==
  /\ p \in served
  /\ posts' = posts + 1
  /\ chan' = [chan EXCEPT ![p] = Append(@, posts + 1)]
  /\ UNCHANGED <<served, delivered>>

\* A post to a port nobody serves.
Refuse ==
  /\ posts' = posts + 1
  /\ UNCHANGED <<served, chan, delivered>>

Deliver(p) ==
  /\ p \in served
  /\ \E k \in 1 .. Len(chan[p]) :
       /\ delivered' = [delivered EXCEPT ![p] = @ \o SubSeq(chan[p], 1, k)]
       /\ chan' = [chan EXCEPT ![p] = SubSeq(@, k + 1, Len(@))]
  /\ UNCHANGED <<served, posts>>

Stop(p) ==
  /\ p \in served
  /\ served' = served \ {p}
  /\ chan' = [chan EXCEPT ![p] = <<>>]
  /\ UNCHANGED <<posts, delivered>>

\* A post that goes ahead of what the channel holds.
Overtake(p) ==
  /\ p \in served
  /\ posts' = posts + 1
  /\ served' = served \ {p}
  /\ chan' = [chan EXCEPT ![p] = <<>>]
  /\ UNCHANGED delivered

\* A port that is no longer served may still see stray messages.
Stray(p) ==
  /\ p \notin served
  /\ delivered' = [delivered EXCEPT ![p] = delivered'[p]]
  /\ Len(delivered'[p]) >= Len(delivered[p])
  /\ UNCHANGED <<served, posts, chan>>

Next == Refuse \/ \E p \in Ports :
          \/ Serve(p) \/ Accept(p) \/ Deliver(p)
          \/ Stop(p)  \/ Overtake(p) \/ Stray(p)

Spec == Init /\ [][Next]_avars
=============================================================================
