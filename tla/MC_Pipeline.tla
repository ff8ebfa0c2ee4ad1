---------------------------- MODULE MC_Pipeline ----------------------------
(***************************************************************************)
(* Instances of Pipeline for TLC: f is a filing, a an article, x an        *)
(* article that stage 1 sorts out.                                         *)
(***************************************************************************)
EXTENDS Pipeline, TLC

CONSTANTS f1, a1, x1

Orders == {<<a1, f1>>, <<a1, x1>>}
TwoArticles == {<<a1, x1>>}

=============================================================================
