-------------------------------- MODULE Clock --------------------------------
(* The block time every contract reads with env().block_timestamp(): one  *)
(* variable shared by the contracts that a composition runs side by side. *)
VARIABLE
  now   \* env().block_timestamp() (ms)
==============================================================================
