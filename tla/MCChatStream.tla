---------------------------- MODULE MCChatStream -----------------------------
(***************************************************************************)
(* Instances of ChatStream: prose, prose with brackets, prose before a     *)
(* call, half a marker at the end, white space around it, and nothing.     *)
(* Three markers stand for the seven, one of them inside another.          *)
(***************************************************************************)
EXTENDS ChatStream

MCKinds == {"plain", "tools", "final"}
MCMarkers == {<<"<", "t">>, <<"<", "]", "m">>, <<"]", "<", "]", "m">>}
MCTexts ==
  {<<>>, <<"a", "b", "a", "b", "a">>, <<"_", "a", "b", "a">>,
   <<"a", "<", "]", "]", "b", "a">>, <<"a", "]", "]", "<", "]", "m", "b">>,
   <<"a", "b", "_", "<", "t", "a">>, <<"<", "]", "<", "]", "m">>,
   <<"a", "b", "]", "<">>, <<"a", "_", "]", "<", "t", "b">>}
=============================================================================
