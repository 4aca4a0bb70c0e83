---------------------------- MODULE RequestQueue ----------------------------
(***************************************************************************)
(* What a control-transfer pipeline promises the code that streams a       *)
(* partition through it: requests are numbered in the order they are       *)
(* submitted, the device may complete them in any order, and an answer is  *)
(* handed out only for the oldest request and only once that very request  *)
(* has completed.  Abandoning the queue forgets whatever is outstanding.   *)
(***************************************************************************)
EXTENDS Naturals, Sequences

VARIABLES
  pending,    \* numbers of the requests submitted and not yet answered
  completed,  \* those of them the device has completed
  last,       \* number of the request answered last
  open        \* FALSE once the queue was abandoned or left

qvars == <<pending, completed, last, open>>

Init == pending = <<>> /\ completed = {} /\ last = 0 /\ open = TRUE

Submit ==
  /\ open
  /\ pending' = Append(pending, last + Len(pending) + 1)
  /\ UNCHANGED <<completed, last, open>>

Complete ==
  /\ \E i \in 1 .. Len(pending) :
        /\ pending[i] \notin completed
        /\ completed' = completed \cup {pending[i]}
  /\ UNCHANGED <<pending, last, open>>

\* The only way an answer gets out.
Answer ==
  /\ open
  /\ pending # <<>>
  /\ Head(pending) \in completed
  /\ last' = Head(pending)
  /\ pending' = Tail(pending)
  /\ completed' = completed \ {Head(pending)}
  /\ UNCHANGED open

Leave ==
  /\ open
  /\ open' = FALSE
  /\ pending' = <<>> /\ completed' = {}
  /\ UNCHANGED last

Next == Submit \/ Complete \/ Answer \/ Leave

Spec == Init /\ [][Next]_qvars
=============================================================================
