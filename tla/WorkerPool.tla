----------------------------- MODULE WorkerPool -----------------------------
(***************************************************************************)
(* What ToreroServe promises to the clients that connect: connections are  *)
(* served in the order in which they were accepted, each by one worker     *)
(* that serves no other meanwhile; few wait for one; bytes go only to a    *)
(* connection that is being served, and it is closed between answers and   *)
(* never within one.  There is no buffer, no lock and no file here.        *)
(***************************************************************************)
EXTENDS Integers, Sequences

CONSTANTS
  Workers,     \* those who serve
  NumClients,  \* how many connections may come
  MaxPending   \* how many may be accepted and not yet served

VARIABLES
  alive,     \* FALSE once the server has ended
  accepted,  \* how many connections were accepted
  taken,     \* how many of these a worker began to serve
  serving,   \* serving[w]: the connection w serves, 0 for none
  closed,    \* those that were served
  sent       \* sent[c]: what c was sent

poolVars == <<alive, accepted, taken, serving, closed, sent>>

PoolInit ==
  /\ alive = TRUE
  /\ accepted = 0 /\ taken = 0
  /\ serving = [w \in Workers |-> 0] /\ closed = {}
  /\ sent = [c \in 1..NumClients |-> <<>>]

Accept ==
  /\ alive
  /\ accepted < NumClients /\ accepted - taken < MaxPending
  /\ accepted' = accepted + 1
  /\ UNCHANGED <<alive, taken, serving, closed, sent>>

Begin(w) ==
  /\ alive
  /\ taken < accepted /\ serving[w] = 0
  /\ taken' = taken + 1
  /\ serving' = [serving EXCEPT ![w] = taken + 1]
  /\ UNCHANGED <<alive, accepted, closed, sent>>

\* An answer is a header, and a body unless the request was bad.
Header(c, status) == sent[c] = <<>> /\ sent' = [sent EXCEPT ![c] = <<status>>]

Body(c) ==
  /\ sent[c] \in {<<"200">>, <<"404">>}
  /\ sent' = [sent EXCEPT ![c] = Append(@, "body")]

Answer(w) ==
  /\ alive /\ serving[w] # 0
  /\ \/ \E status \in {"200", "400", "404"} : Header(serving[w], status)
     \/ Body(serving[w])
  /\ UNCHANGED <<alive, accepted, taken, serving, closed>>

Close(w) ==
  /\ alive /\ serving[w] # 0
  /\ sent[serving[w]] \notin {<<"200">>, <<"404">>}
  /\ serving' = [serving EXCEPT ![w] = 0] /\ closed' = closed \cup {serving[w]}
  /\ UNCHANGED <<alive, accepted, taken, sent>>

Crash ==
  /\ alive' = FALSE
  /\ UNCHANGED <<accepted, taken, serving, closed, sent>>

PoolNext ==
  \/ Accept \/ Crash
  \/ \E w \in Workers : Begin(w) \/ Answer(w) \/ Close(w)

PoolSpec == PoolInit /\ [][PoolNext]_poolVars
=============================================================================
