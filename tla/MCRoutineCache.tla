--------------------------- MODULE MCRoutineCache ---------------------------
(* Documents that move a routine, keep every routine in its place in a     *)
(* larger file, and are refused.  Schedules on Sunday in both spellings,   *)
(* at the same minute, and once a week.                                    *)
EXTENDS RoutineCache

Early == Min(Minutes)
Late  == Max(Minutes)

Wash  == [id |-> "wash", steps |-> <<"face", "teeth", "hair">>,
          scheds |-> {[days |-> {0, 2}, at |-> Late]}]
Pack  == [id |-> "pack", steps |-> <<"bag", "shoes">>,
          scheds |-> {[days |-> {7}, at |-> Late], [days |-> {5}, at |-> Early]}]
Weekly  == [Wash EXCEPT !.scheds = {[days |-> {2}, at |-> Late]}]
Shelved == [Pack EXCEPT !.scheds = {}]

Doc(hasChild, hasArray, array, bytes) ==
  [child |-> hasChild, array |-> hasArray, routines |-> array, size |-> bytes]

MCDocs == {Doc(TRUE, TRUE, <<Wash, Pack>>, 2), Doc(TRUE, TRUE, <<Pack, Wash>>, 2),
           Doc(FALSE, TRUE, <<Weekly, Shelved>>, 3), Doc(TRUE, FALSE, <<>>, 1)}
=============================================================================
