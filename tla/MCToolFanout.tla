---------------------------- MODULE MCToolFanout ----------------------------
(***************************************************************************)
(* A small instance of ToolFanout: two buckets, the first with the higher  *)
(* rate and the smaller burst, as in NewPipedriveLimiter.                  *)
(***************************************************************************)
EXTENDS ToolFanout

Message(i, b) == [id |-> i, body |-> b]

(* Three messages need a body, one of them is there twice, as on two pages *)
(* that overlap, and one comes with its body.                              *)
SmallListings ==
    {<<Message(1, FALSE), Message(3, TRUE), Message(1, FALSE), Message(2, FALSE)>>}

SmallTasks == {<<Mail, k>> : k \in 1 .. 4} \union {<<Context, 1>>}
SmallEvery == <<1, 2>>
SmallBurst == <<1, 2>>
=============================================================================
