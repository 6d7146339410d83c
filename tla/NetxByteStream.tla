--------------------------- MODULE NetxByteStream --------------------------
(***************************************************************************)
(* What a TCP connection promises to the applications in one direction:    *)
(* the bytes that receive calls give are those that sends were told went,  *)
(* in their order, each once; and no receive says that the connection is   *)
(* over before all were given.                                             *)
(***************************************************************************)
EXTENDS SequencesExt

VARIABLES
  written,  \* the bytes that sends have put into the connection
  given,    \* the bytes that receives have given
  over      \* a receive has returned NX_NOT_CONNECTED

Init == given = <<>> /\ ~ over

(* Bytes go in at the end and come out at the head; the end is told with    *)
(* the last of them or after it, and holds.                                 *)
Move ==
  /\ IsPrefix(written, written') /\ IsPrefix(given, given') /\ IsPrefix(given', written')
  /\ over => (over' /\ written' = written)
  /\ over' => given' = written'

Spec == Init /\ [][Move]_<<written, given, over>>
=============================================================================
