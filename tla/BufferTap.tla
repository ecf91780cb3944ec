----------------------------- MODULE BufferTap ------------------------------
(***************************************************************************)
(* AdvancedBuffer implements StreamTap.  The next byte of a reader is the  *)
(* one its pos stands for; once it is disconnected, it is what is left to  *)
(* its close point, even where the code no longer moves pos; a skip rounded*)
(* up to packets may end beyond the close point, and then counts up to it. *)
(***************************************************************************)
EXTENDS AdvancedBuffer

NextByte(s) ==
  IF s \notin in_use THEN 0
  ELSE IF s \notin close_flg THEN Base + pos[s]
  ELSE IF remain_to_close[s] < 0 /\ dropped[s] > 0 THEN stop[s]
  ELSE stop[s] - remain_to_close[s]

EndByte(s) == IF s \in in_use \cap close_flg THEN stop[s] ELSE 0

Tap == INSTANCE StreamTap WITH
  Readers  <- Slots,
  Capacity <- BufSize,
  Grain    <- Align,
  Chunks   <- InputSizes,
  Rooms    <- ClearSizes,
  total    <- input_total,
  on       <- in_use,
  ending   <- in_use \cap close_flg,
  next     <- [s \in Slots |-> NextByte(s)],
  end      <- [s \in Slots |-> EndByte(s)]

(* Seen from outside, the ring buffer with its offsets, partial writes,    *)
(* alignment and two-stage closing of ab_disconnect_downstream and         *)
(* check_close is a stream each downstream reads in order, losing bytes    *)
(* only by its own lag, and is released only at its close point.           *)
ImplementsTap == Tap!Spec
=============================================================================
