------------------------------ MODULE OneAnswer ------------------------------
(***************************************************************************)
(* What a client is promised of one request, however often the upstream is *)
(* asked: one answer, from one of the sends, in order and not repeated.    *)
(*                                                                         *)
(* The upstream may be asked again until a send has produced something;    *)
(* from then on the answer is that send's and nobody is asked any more.    *)
(* The code behind it is `DevinStream` of src/src/upstream/retry.rs, which *)
(* UpstreamStream models in detail and shows to implement this.            *)
(***************************************************************************)
EXTENDS Integers, Sequences

VARIABLES
  answer,   \* events given to the client: their kind and the send they are of
  source,   \* the send the answer comes from, or 0
  asked,    \* the number of the send being made or read
  calling,  \* a call is on the wire that has not been answered
  over      \* the client has left, or has been told that no more will come

vars == <<answer, source, asked, calling, over>>

Event == [kind : {"start", "content", "done", "error"}, send : Nat]

Closed == answer # <<>> /\ answer[Len(answer)].kind \in {"done", "error"}

Init ==
  /\ answer = <<>> /\ source = 0
  /\ asked = 1 /\ calling = FALSE
  /\ over = FALSE

(* Another send is prepared, or a call for it goes out.                    *)
Ask ==
  /\ source = 0 /\ ~over
  /\ \/ asked' = asked + 1 /\ calling' = FALSE
     \/ asked' = asked /\ calling' = TRUE
  /\ UNCHANGED <<answer, source, over>>

CallReturns ==
  /\ calling' = FALSE
  /\ UNCHANGED <<answer, source, asked, over>>

(* A send has produced something for the client.                           *)
Commit ==
  /\ source = 0 /\ ~over /\ ~calling
  /\ source' = asked
  /\ UNCHANGED <<answer, asked, calling, over>>

Fits(event) ==
  \/ event.kind = "start" /\ answer = <<>>
  \/ event.kind = "content" /\ answer # <<>> /\ event.send = source
  \/ event.kind = "done" /\ answer # <<>> /\ (source = 0 \/ event.send = source)
  \/ event.kind = "error"

Give ==
  /\ ~over /\ ~Closed
  /\ \E n \in {source, asked, asked - 1}, kind \in {"start", "content", "done", "error"} :
       /\ n > 0 /\ Fits([kind |-> kind, send |-> n])
       /\ answer' = Append(answer, [kind |-> kind, send |-> n])
  /\ UNCHANGED <<source, asked, calling, over>>

(* The end is told: the answer is closed, or there was nothing to answer.  *)
End ==
  /\ ~over
  /\ Closed \/ source = 0
  /\ over' = TRUE
  /\ UNCHANGED <<answer, source, asked, calling>>

(* The client may leave at any time, and the request is forgotten.         *)
Leave ==
  /\ ~over
  /\ over' = TRUE /\ source' = 0 /\ asked' = 1 /\ calling' = FALSE
  /\ UNCHANGED answer

Next == Ask \/ CallReturns \/ Commit \/ Give \/ End \/ Leave

Spec == Init /\ [][Next]_vars
=============================================================================
