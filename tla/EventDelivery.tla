--------------------------- MODULE EventDelivery ---------------------------
(***************************************************************************)
(* What the transactional outbox promises to the rest of the system, with  *)
(* no lease, worker, clock or retry in sight.                              *)
(*                                                                         *)
(* An event exists for the outside world only once the transaction that    *)
(* produced it has committed.  From then on it may be handed to the        *)
(* publisher any number of times (delivery is at least once, and a slow    *)
(* worker may hand it over even after the event was settled).  The event   *)
(* is settled once and for all, either as published, which requires a hand *)
(* over, or as a dead letter.                                              *)
(*                                                                         *)
(* Nothing ties the consumers to that: a consumer may record any id it has *)
(* come by.  What it is promised is that of all who record an id in its    *)
(* name one at most is told to be the first, and nobody after that.        *)
(***************************************************************************)
EXTENDS Integers

CONSTANTS Event,      \* outbox event identifiers
          Consumer,   \* consumer names
          EventId     \* what consumers take for the ids of events

VARIABLES ledger,     \* where each event stands: absent, open or settled
          sent,       \* events handed to the publisher at least once
          consumed,   \* <<consumer, id>> pairs that have been recorded
          firsts      \* how many were told that they were the first, for each pair

vars == <<ledger, sent, consumed, firsts>>

Init == /\ ledger = [e \in Event |-> "absent"]
        /\ sent = {}
        /\ consumed = {}
        /\ firsts = [p \in Consumer \X EventId |-> 0]

\* The producing transaction commits.
Commit(e) == /\ ledger[e] = "absent"
             /\ ledger' = [ledger EXCEPT ![e] = "open"]
             /\ UNCHANGED <<sent, consumed, firsts>>

\* The event reaches the publisher (again).
Send(e) == /\ ledger[e] # "absent"
           /\ sent' = sent \cup {e}
           /\ UNCHANGED <<ledger, consumed, firsts>>

\* The hand over is acknowledged, and recorded.
Publish(e) == /\ ledger[e] = "open"
              /\ e \in sent
              /\ ledger' = [ledger EXCEPT ![e] = "published"]
              /\ UNCHANGED <<sent, consumed, firsts>>

\* The event is given up.
Bury(e) == /\ ledger[e] = "open"
           /\ ledger' = [ledger EXCEPT ![e] = "dead_letter"]
           /\ UNCHANGED <<sent, consumed, firsts>>

\* The event is recorded for the first time, and whoever does it is told so or hears
\* nothing.
Consume(c, i) == /\ <<c, i>> \notin consumed
                 /\ consumed' = consumed \cup {<<c, i>>}
                 /\ firsts' \in {firsts, [firsts EXCEPT ![<<c, i>>] = @ + 1]}
                 /\ UNCHANGED <<ledger, sent>>

Next == \/ \E e \in Event : Commit(e) \/ Send(e) \/ Publish(e) \/ Bury(e)
        \/ \E c \in Consumer, i \in EventId : Consume(c, i)

Spec == Init /\ [][Next]_vars
=============================================================================
