------------------------------- MODULE MCTask -------------------------------
(***************************************************************************)
(* The chains that are checked.                                            *)
(***************************************************************************)
EXTENDS Tasks

MCIds     == 1 .. 2
MCLoad    == <<1, 2>>
MCChain   == <<<<"wait", "repeat", "delif", "str">>, <<"every", "sample", "pkt">>>>
MCLive    == <<<<"wait", "repeat", "str">>, <<"every", "count", "str">>>>
MCKinds   == <<<<"wait", "repeat", "be">>, <<"wait", "repeat", "next", "pkt">>>>
MCStreams == <<<<"wait", "repeat", "str">>, <<"wait", "repeat", "str">>>>
MCBestEffort == <<<<"wait", "repeat", "be">>, <<"wait", "repeat", "be">>>>
MCOnce    == <<<<"wait", "sample", "str">>, <<"every", "count", "pkt">>>>
=============================================================================
