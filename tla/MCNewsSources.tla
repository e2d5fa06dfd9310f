---------------------------- MODULE MCNewsSources ----------------------------
(* Three days.  The log goes backwards once, two of its lines have the same *)
(* time, and one is about an article that was rejected.                     *)
EXTENDS NewsSources

MCDays == {1, 2, 3}

Entry(t, d, m, a) == [time |-> t, day |-> d, minute |-> m, accepted |-> a]

MCFullLog ==
    <<Entry(1, 1, 1, TRUE), Entry(3, 2, 1, TRUE), Entry(2, 1, 2, TRUE),
      Entry(3, 2, 2, TRUE), Entry(4, 2, 3, FALSE), Entry(5, 3, 1, TRUE)>>
==============================================================================
