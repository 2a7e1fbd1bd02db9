------------------------- MODULE MCOrdinaryCommands -------------------------
(* The values of MCCommands, for the runs whose users type what the prompts *)
(* ask for.                                                                 *)
EXTENDS MCCommands, OrdinaryCommands
=============================================================================
