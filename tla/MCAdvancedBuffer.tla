-------------------------- MODULE MCAdvancedBuffer --------------------------
(* Small instances of AdvancedBuffer: packets of Align bytes, and output   *)
(* modules that report what they took, as the ones of the Linux build do.  *)
EXTENDS BufferTap

(* A pipe or a file: aligned, with a block size and half of it as minsize. *)
Pipe == [aligned |-> TRUE, use_retval |-> TRUE, realtime |-> FALSE,
         maxsize |-> 2 * Align, minsize |-> Align]

(* The same without a block size.                                          *)
NoBlock == [aligned |-> TRUE, use_retval |-> TRUE, realtime |-> FALSE,
            maxsize |-> 0, minsize |-> 0]

(* A module that takes everything it is offered, and writes it overlapped. *)
Overlapped == [aligned |-> TRUE, use_retval |-> FALSE, realtime |-> FALSE,
               maxsize |-> 2 * Align, minsize |-> Align]

OnlyPipe == {Pipe}
OnlyOverlapped == {Overlapped}
OnlyNoBlock == {NoBlock}
PipeOrNoBlock == {Pipe, NoBlock}
=============================================================================
