--------------------------------- MODULE MCCdc ---------------------------------
(* Model checking of Cdc: every configuration; a limit is tried with resuming. *)
EXTENDS Cdc

AllModes ==
    {m \in [follow : BOOLEAN, forever : BOOLEAN, strict : BOOLEAN, resume : BOOLEAN, limit : 0..2] :
        (m.limit = 0 \/ m.resume) /\ (m.forever => m.follow)}

OneMalformed == {<<1, 1>>}
OneUndecodable == {<<2, 2>>}

================================================================================
