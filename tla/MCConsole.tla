----------------------------- MODULE MCConsole -----------------------------
(***************************************************************************)
(* Messages for the model of Console: every kind of character, conversion  *)
(* and number at least once, and enough characters to scroll.              *)
(***************************************************************************)
EXTENDS Console

MCFormats ==
    { <<<<"lit", "a">>, <<"lit", "lf">>>>,
      <<<<"s", <<"a", "tab", "bs", "a", "cr">>>>>>,
      <<<<"?", "z">>, <<"c", "nul">>, <<"d", -16>>, <<"x", -16>>>>,
      <<<<"d", 0>>, <<"x", 15>>, <<"d", -15>>>> }
MCLogged == {<<<<"lit", "lf">>>>}
MCMaxCalls == [main |-> 2, kbd |-> 1]
=============================================================================
