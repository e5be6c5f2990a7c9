------------------------------ MODULE Exchange ------------------------------
(***************************************************************************)
(* What a server session promises its peer, without threads, sockets or    *)
(* timers: requests are taken one at a time and in the order in which they *)
(* came; the one in hand is answered once, or given up when the connection *)
(* is over; nothing is answered on a connection that is over.              *)
(***************************************************************************)
EXTENDS Naturals, Sequences

VARIABLES
  hand,         \* the request in hand: a set of at most one number
  answered,     \* the requests answered, in the order of the answers
  over          \* the connection is closed

vars == <<hand, answered, over>>

Init == hand = {} /\ answered = <<>> /\ over = FALSE

\* A connection may be over before the rest of a request has been taken in.
Receive ==
  /\ hand = {} /\ hand' # {}
  /\ \E r \in hand' : /\ hand' = {r}
                      /\ \A k \in DOMAIN answered : answered[k] < r
  /\ UNCHANGED <<answered, over>>

Answer ==
  /\ ~over /\ hand # {} /\ hand' = {}
  /\ \E r \in hand : answered' = Append(answered, r)
  /\ UNCHANGED over

GiveUp ==
  /\ over /\ hand # {} /\ hand' = {}
  /\ UNCHANGED <<answered, over>>

End ==
  /\ ~over /\ over'
  /\ UNCHANGED <<hand, answered>>

Next == Receive \/ Answer \/ GiveUp \/ End

Spec == Init /\ [][Next]_vars

=============================================================================
