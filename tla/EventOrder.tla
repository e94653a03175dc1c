----------------------------- MODULE EventOrder -----------------------------
(* The order of service of an event queue, as a sequence of records          *)
(* [event, when].                                                            *)
EXTENDS Integers, Sequences

CONSTANT Priority  \* the priority of each event

Earlier(x, y) ==
  \/ x.when < y.when
  \/ x.when = y.when /\ Priority[x.event] < Priority[y.event]

(* A new event goes in front of the first one that is not strictly earlier.  *)
InsertionPoint(list, x) ==
  CHOOSE n \in 0 .. Len(list) :
    /\ \A i \in 1 .. n : Earlier(list[i], x)
    /\ n < Len(list) => ~Earlier(list[n + 1], x)

Inserted(list, x) ==
  LET n == InsertionPoint(list, x)
  IN  SubSeq(list, 1, n) \o <<x>> \o SubSeq(list, n + 1, Len(list))

(* An event is on a list at most once.                                       *)
Without(list, e) ==
  IF \E i \in DOMAIN list : list[i].event = e
    THEN LET i == CHOOSE i \in DOMAIN list : list[i].event = e
         IN  SubSeq(list, 1, i - 1) \o SubSeq(list, i + 1, Len(list))
    ELSE list
=============================================================================
