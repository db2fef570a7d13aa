---------------------------- MODULE TunnelStream ----------------------------
(***************************************************************************)
(* What a data plane of the tunnel promises the two applications it joins, *)
(* whichever of the architectures (per-user bridge, bonded lanes, shared   *)
(* mux) carries the connection: a pair of byte streams, as TCP gives them. *)
(* Chunks arrive in order; an application is shown a clean end of stream   *)
(* only after all the other one supplied, or after the other end of the    *)
(* tunnel gave the connection up.                                          *)
(***************************************************************************)
EXTENDS Integers, Sequences

CONSTANT Chunk

Ends == {"internal", "external"}
Peer(e) == IF e = "internal" THEN "external" ELSE "internal"

VARIABLES
  sent,      (* What the application at each end has supplied.             *)
  fin,       (* That application has finished its own stream.              *)
  got,       (* What has been written to the application at each end.      *)
  ended,     (* That application was shown the end of the stream.          *)
  aborted    (* The tunnel's end gave up, and resets what is left.         *)

vars == <<sent, fin, got, ended, aborted>>

Init ==
  /\ sent = [e \in Ends |-> <<>>] /\ got = [e \in Ends |-> <<>>]
  /\ fin = [e \in Ends |-> FALSE] /\ ended = [e \in Ends |-> FALSE]
  /\ aborted = [e \in Ends |-> FALSE]

Supply(e) ==
  /\ ~fin[e]
  /\ \E c \in Chunk : sent' = [sent EXCEPT ![e] = Append(@, c)]
  /\ UNCHANGED <<fin, got, ended, aborted>>

Finish(e) ==
  /\ ~fin[e] /\ fin' = [fin EXCEPT ![e] = TRUE]
  /\ UNCHANGED <<sent, got, ended, aborted>>

Arrive(e) ==
  /\ ~ended[e] /\ Len(got[e]) < Len(sent[Peer(e)])
  /\ got' = [got EXCEPT ![e] = Append(@, sent[Peer(e)][Len(@) + 1])]
  /\ UNCHANGED <<sent, fin, ended, aborted>>

End(e) ==
  /\ ~ended[e]
  /\ \/ aborted[Peer(e)]
     \/ fin[Peer(e)] /\ Len(got[e]) = Len(sent[Peer(e)])
  /\ ended' = [ended EXCEPT ![e] = TRUE]
  /\ UNCHANGED <<sent, fin, got, aborted>>

Abort(e) ==
  /\ ~aborted[e] /\ aborted' = [aborted EXCEPT ![e] = TRUE]
  /\ UNCHANGED <<sent, fin, got, ended>>

Next == \E e \in Ends : Supply(e) \/ Finish(e) \/ Arrive(e) \/ End(e) \/ Abort(e)

Spec == Init /\ [][Next]_vars

-----------------------------------------------------------------------------
(* What follows for the two applications: each receives what the other one *)
(* supplied, nothing lost, repeated or overtaken, ...                      *)
InOrder ==
  \A e \in Ends :
    /\ Len(got[e]) <= Len(sent[Peer(e)])
    /\ \A i \in 1 .. Len(got[e]) : got[e][i] = sent[Peer(e)][i]

(* ... and an end of stream that it is shown comes after all of it, unless *)
(* the tunnel's other end gave up.                                         *)
CleanEnd ==
  \A e \in Ends : ended[e] =>
    aborted[Peer(e)] \/ (fin[Peer(e)] /\ Len(got[e]) = Len(sent[Peer(e)]))
=============================================================================
