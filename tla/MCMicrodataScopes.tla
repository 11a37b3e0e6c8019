--------------------------- MODULE MCMicrodataScopes ---------------------------
(* Documents of a few nodes: enough for an item with a nested item or with a  *)
(* text inside an element inside another, and an item beside it.              *)
EXTENDS MicrodataScopes
===============================================================================
