--------------------------- MODULE MCEngineParity ---------------------------
(***************************************************************************)
(* Three boundaries of one or two events, some in one block.               *)
(***************************************************************************)
EXTENDS EngineParity

Event == [target : {FALSE}, reserves : {None}]
            \cup [target : {TRUE}, reserves : {None, <<2, 6>>, <<4, 4>>, <<0, 5>>}]

Groups == {<<e>> : e \in Event} \cup {<<d, e>> : d, e \in Event}

Setup(observation, order, funds, budget, mode, sells) ==
    [observationSlots |-> observation, orderSlots |-> order, funds |-> funds,
     budget |-> budget, mode |-> mode, sells |-> sells]

Setups == {
    Setup(0, 0, 4, 9, "EXOGENOUS_REPLAY", 1),
    Setup(0, 1, 4, 9, "SHADOW_STATE_REPLAY", 1),
    Setup(1, 0, 4, 9, "SHADOW_STATE_REPLAY", 2),
    Setup(0, 0, 1, 9, "EXOGENOUS_REPLAY", 1),
    Setup(1, 0, 4, 2, "EXOGENOUS_REPLAY", 1),
    Setup(0, 0, 4, 9, "EXOGENOUS_REPLAY", 0)}

Blocks == {<<1, 1, 2>>, <<1, 2, 2>>, <<1, 3, 4>>}

Input(blocks, groups, setup) ==
    [blocks |-> blocks, groups |-> groups, observationSlots |-> setup.observationSlots,
     orderSlots |-> setup.orderSlots, funds |-> setup.funds, budget |-> setup.budget,
     mode |-> setup.mode, sells |-> setup.sells]

MCReplays ==
    {Input(blocks, groups, setup) : blocks \in Blocks, setup \in Setups,
        groups \in {<<g, h, <<e>>>> : g, h \in Groups, e \in Event}}
=============================================================================
