---------------------------- MODULE MC_Admission ----------------------------
(* A small instance of UpstreamAdmission.                                    *)
EXTENDS UpstreamAdmission

\* Limits of both kinds that an administrator lowers, raises or switches off.
Edited == {[conc |-> 1, rpm |-> 2], [conc |-> 2, rpm |-> 1], [conc |-> 0, rpm |-> 1],
           [conc |-> 1, rpm |-> 1], [conc |-> 2, rpm |-> 0]}

\* Two earlier requests: after a lower limit both have to expire.
Busy == {<< >>, <<1, 0>>}

\* Younger is the loop of reserve and CleanupExpired, which looks at every event.
ASSUME YoungerIsTheFilter ==
  \A n \in 0..4 : \A ages \in [1..n -> 0..4] : \A bound \in 0..5 :
    OldestFirst(ages) => Younger(ages, bound) = SelectSeq(ages, LAMBDA age : age < bound)
=============================================================================
