---------------------------- MODULE MCPromptCache ----------------------------
(***************************************************************************)
(* Instances of PromptCache: two sessions whose prompts share a first      *)
(* token, one of which comes back with its answer appended.                *)
(***************************************************************************)
EXTENDS PromptCache

MCPrompts == {[sess |-> "a", ids |-> <<1, 2>>],
              [sess |-> "a", ids |-> <<1, 2, 3, 1>>],
              [sess |-> "b", ids |-> <<1, 3>>],
              [sess |-> "b", ids |-> <<1, 2>>]}
MCGenerations == {<<3>>}
\* A suffix that another cut of the text tokenises differently: the second half
\* of a character.
MCRecoded == <<2>> :> <<4, 4>>
=============================================================================
