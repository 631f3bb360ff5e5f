------------------------- MODULE MCCandidatePipeline -------------------------
(* Small instances of CandidatePipeline for TLC. *)
EXTENDS CandidatePipeline

\* Every stage has a component; some need a query field that may be missing.
MCComponents ==
  [query_hydrators |-> <<"user">>, dependent_query_hydrators |-> <<"lists">>,
   sources |-> <<"thunder", "phoenix">>, hydrators |-> <<"core", "media">>,
   filters |-> <<"age">>, scorers |-> <<"model", "blend">>,
   post_selection_hydrators |-> <<"vf">>, post_selection_filters |-> <<"visible">>,
   side_effects |-> <<"log">>]

MCNeeds ==
  [c \in {"user", "lists", "thunder", "phoenix", "core", "media", "age", "model",
          "blend", "vf", "visible", "log"} |->
     CASE c \in {"lists", "model"} -> {"user"}
       [] c \in {"media", "log"}   -> {"lists"}
       [] OTHER                    -> {}]

MCFetches == [s \in {"thunder", "phoenix"} |-> IF s = "thunder" THEN 2 ELSE 1]
=============================================================================
