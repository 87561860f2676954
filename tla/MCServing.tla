------------------------------- MODULE MCServing -------------------------------
(***************************************************************************)
(* Bodies for TLC: every order that matters to a translator is in one.     *)
(***************************************************************************)
EXTENDS Serving

MCBodies ==
    { <<>>, <<"last">>, <<"signed", "blank">>, <<"odd", "junk", "text">>, <<"cutoff">>,
      <<"text", "last">>, <<"signed", "text", "cutoff">>, <<"thinking", "signed", "text">>,
      <<"text", "thinking", "last">>, <<"thinking", "tool", "thinking">>,
      <<"text", "tool", "text">>, <<"tool", "tool", "last">>, <<"blank", "pair", "unnamed">>,
      <<"text", "junk", "odd">>, <<"thinking", "last", "pair">>, <<"text", "text", "endless">>,
      <<"endless">>, <<"last", "last", "tool">> }
=============================================================================
