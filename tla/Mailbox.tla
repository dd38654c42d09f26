------------------------------ MODULE Mailbox ------------------------------
(***************************************************************************)
(* What the server promises the users of its messages, without sessions,   *)
(* queues, stores or connections.  A user who is present collects a        *)
(* message when it is posted; for everybody else it waits, in line, and    *)
(* who arrives collects all that waits.  Whoever enrolls is present at     *)
(* once, but what waited for the name before goes on waiting: it is        *)
(* collected at the first arrival after that, behind later messages.       *)
(* Nothing is collected twice, by somebody else, or lost while it waits.   *)
(***************************************************************************)
EXTENDS Naturals, Sequences

CONSTANT User

VARIABLES
  posted,     \* how many messages were posted
  waiting,    \* the numbers of the messages that wait for each user
  collected,  \* the numbers of those each user has collected
  present,    \* the users who are present
  enrolled    \* the users there are

TypeOK ==
  /\ posted \in Nat
  /\ waiting \in [User -> Seq(Nat)]
  /\ collected \in [User -> Seq(Nat)]
  /\ present \subseteq enrolled
  /\ enrolled \subseteq User

Init ==
  /\ posted = 0
  /\ waiting = [u \in User |-> <<>>]
  /\ collected = [u \in User |-> <<>>]
  /\ present = {}
  /\ enrolled = {}

\* In the boxes of the users A there is one more message, the last posted.
Put(box, A) == [u \in User |-> IF u \in A THEN Append(box[u], posted + 1) ELSE box[u]]

\* A message for the users A; those of them who are present collect it at once.
Post(A) ==
  /\ posted' = posted + 1
  /\ collected' = Put(collected, A \cap present)
  /\ waiting' = Put(waiting, A \ present)
  /\ UNCHANGED <<present, enrolled>>

Enroll(u) ==
  /\ u \notin enrolled
  /\ enrolled' = enrolled \cup {u}
  /\ present' = present \cup {u}
  /\ UNCHANGED <<posted, waiting, collected>>

Arrive(u) ==
  /\ u \in enrolled
  /\ present' = present \cup {u}
  /\ collected' = [collected EXCEPT ![u] = @ \o waiting[u]]
  /\ waiting' = [waiting EXCEPT ![u] = <<>>]
  /\ UNCHANGED <<posted, enrolled>>

Leave(u) ==
  /\ present' = present \ {u}
  /\ UNCHANGED <<posted, waiting, collected, enrolled>>

Next == \/ \E A \in SUBSET User : Post(A)
        \/ \E u \in User : Enroll(u) \/ Arrive(u) \/ Leave(u)

Spec == Init /\ [][Next]_<<posted, waiting, collected, present, enrolled>>

=============================================================================
