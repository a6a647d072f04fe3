-------------------------------- MODULE Nulls --------------------------------
(* A nullable value is <<>>, for None, or <<v>>.                            *)
Null == <<>>
=============================================================================
