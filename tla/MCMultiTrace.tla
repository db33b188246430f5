---------------------------- MODULE MCMultiTrace ----------------------------
(* Instances of MultiTrace for TLC. *)
EXTENDS MultiTrace

Both == {[as1 |-> TRUE, as2 |-> TRUE]}
AnyRole == [as1 : BOOLEAN, as2 : BOOLEAN]

\* --detail=-before,+after on nr_ins rings; the key is a field of the event, or the ring.
Detailed(order, nr_ins, before, after) ==
    [nested |-> FALSE, call |-> FALSE, cycle |-> FALSE, timeline |-> TRUE, before |-> before,
     after |-> after, order |-> order, perkey |-> TRUE, nr_ins |-> nr_ins, roles |-> Both,
     free |-> FALSE, nr_keys |-> 1, nr_events |-> 5, nr_losses |-> 1]

ByIns(m) == [m EXCEPT !.perkey = FALSE, !.nr_keys = m.nr_ins]
NoDetail(m) == [m EXCEPT !.timeline = FALSE]
Nested(m, call) == [m EXCEPT !.nested = TRUE, !.call = call]
Events(m, n) == [m EXCEPT !.nr_events = n]

Losses(m, n) == [m EXCEPT !.nr_losses = n]

\* Pairs by key and by ring, sorted or not; roles, --cycle, syscalls and nested-trace;
\* windows in front of and behind the pair. Without --order no loss where events wait for
\* what follows them.
PassModes ==
    {Events(ByIns(NoDetail(Detailed(FALSE, 2, 0, 0))), 4),
     Losses(Events(NoDetail(Detailed(TRUE, 2, 0, 0)), 4), 2),
     Events([NoDetail(Detailed(TRUE, 2, 0, 0)) EXCEPT !.cycle = TRUE], 4),
     Events([NoDetail(Detailed(FALSE, 1, 0, 0)) EXCEPT !.roles = AnyRole], 4),
     [ByIns(NoDetail(Detailed(FALSE, 1, 0, 0))) EXCEPT !.free = TRUE],
     Nested(NoDetail(Detailed(FALSE, 1, 0, 0)), TRUE),
     Nested(Events(NoDetail(Detailed(FALSE, 1, 0, 0)), 6), FALSE),
     Nested(Events(NoDetail(Detailed(TRUE, 2, 0, 0)), 4), TRUE),
     Detailed(FALSE, 1, 2, 0), Losses(Detailed(FALSE, 1, 2, 2), 0), Detailed(TRUE, 1, 2, 2),
     Events(Detailed(TRUE, 2, 0, 2), 4),
     Events(ByIns(Detailed(TRUE, 2, 0, 0)), 4)}

\* One ring, events that wait for what follows them, and a loss.
UnsortedModes == {Detailed(FALSE, 1, 0, 2)}
=============================================================================
