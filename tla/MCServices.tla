------------------------------ MODULE MCServices ------------------------------
(***************************************************************************)
(* Services for TLC: three requests, two of which are tried again after a   *)
(* 401; two calls of an agent with up to two requirement groups.           *)
(***************************************************************************)
EXTENDS Services, TLC

CONSTANTS r1, r2, r3

MCOperation == r1 :> load_psop @@ r2 :> search_psop @@ r3 :> fetch_agent_card

\* Two schemes may set the same header.
MCHeader == [basic |-> "Authorization", bearer |-> "Authorization",
             key |-> "X-Key", undeclared |-> "X-Key"]

\* They may come to the same value.
MCValues == [basic |-> {"x"}, bearer |-> {"x", "y"}, key |-> {"k"},
             undeclared |-> {}]

\* basic and bearer agree on Accept, key does not agree with them.
MCAccept == [basic |-> "json", bearer |-> "json", key |-> "xml",
             undeclared |-> "any"]

MCRequirements ==
    {<<>>, <<<<>>>>, <<<<"basic">>>>,
     <<<<"basic", "undeclared">>, <<"key">>>>,
     <<<<"basic", "bearer">>, <<"key", "basic">>, <<"bearer">>>>}
=============================================================================
