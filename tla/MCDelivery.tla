----------------------------- MODULE MCDelivery -----------------------------
(* Model values for the delivery of frames. *)
EXTENDS Delivery

CONSTANTS f1, f2, f3, f4, p1, p2

OnePost == {f1}
TwoPosts == {f1, f2}
FourPosts == {f1, f2, f3, f4}
OnePoll == {p1}
TwoPolls == {p1, p2}

Small == [f \in Posts |-> 1]
OneBig == [f \in Posts |-> IF f = f1 THEN 2 ELSE 1]

SmallSymmetry == Permutations(Posts \ {f1})
AllSymmetry == Permutations(Posts) \cup Permutations(Polls)
=============================================================================
