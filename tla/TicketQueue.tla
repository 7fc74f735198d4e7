---------------------------- MODULE TicketQueue ----------------------------
(***************************************************************************)
(* What the lock-free queue of lock_free_queue.hpp promises its users: a   *)
(* bounded FIFO for any number of producers and consumers.  A value is in  *)
(* the queue once its producer holds the next ticket; a consumer takes the *)
(* ticket at the front, whose value must have been stored, and returns     *)
(* that value: the values leave in ticket order, each exactly once.        *)
(***************************************************************************)
EXTENDS Naturals, Sequences

CONSTANTS Producers, Consumers, Capacity, Values, NoTicket, NoValue

VARIABLES
  order,    \* the values in ticket order; ticket p stands for order[p + 1]
  storing,  \* the ticket whose value a producer is still storing
  taken,    \* how many tickets consumers have taken
  fetching, \* the ticket whose value a consumer is fetching
  got       \* the last value a consumer fetched

tqVars == <<order, storing, taken, fetching, got>>

TQInit ==
  /\ order = <<>>
  /\ storing = [a \in Producers |-> NoTicket]
  /\ taken = 0
  /\ fetching = [b \in Consumers |-> NoTicket]
  /\ got = [b \in Consumers |-> NoValue]

\* Producer a draws the next ticket; at most Capacity wait to be taken.
Claim(a) ==
  /\ storing[a] = NoTicket
  /\ Len(order) < taken + Capacity
  /\ \E v \in Values : order' = Append(order, v)
  /\ storing' = [storing EXCEPT ![a] = Len(order)]
  /\ UNCHANGED <<taken, fetching, got>>

Store(a) ==
  /\ storing[a] # NoTicket
  /\ storing' = [storing EXCEPT ![a] = NoTicket]
  /\ UNCHANGED <<order, taken, fetching, got>>

\* Consumer b takes the front ticket if its value has been stored.
Take(b) ==
  /\ fetching[b] = NoTicket
  /\ taken < Len(order)
  /\ \A a \in Producers : storing[a] # taken
  /\ taken' = taken + 1
  /\ fetching' = [fetching EXCEPT ![b] = taken]
  /\ UNCHANGED <<order, storing, got>>

Fetch(b) ==
  /\ fetching[b] # NoTicket
  /\ got' = [got EXCEPT ![b] = order[fetching[b] + 1]]
  /\ fetching' = [fetching EXCEPT ![b] = NoTicket]
  /\ UNCHANGED <<order, storing, taken>>

TQNext ==
  \/ \E a \in Producers : Claim(a) \/ Store(a)
  \/ \E b \in Consumers : Take(b) \/ Fetch(b)

TQSpec == TQInit /\ [][TQNext]_tqVars
=============================================================================
