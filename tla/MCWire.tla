------------------------------- MODULE MCWire -------------------------------
(* A request and a response that fit a frame, one of each that does not.   *)
EXTENDS Wire

CONSTANTS msgGet, msgUpload, msgOk, msgDoc

MCBody == (msgGet :> <<0, 1>>) @@ (msgUpload :> <<0, 2, 2, 2>>) @@ (msgOk :> <<1, 1, 1>>) @@ (msgDoc :> <<1, 2, 2, 2>>)
          @@ (ERROR :> <<2>>)

(* A whole request, nothing, half a header, lengths 0 and beyond the cap,  *)
(* a body that is no message.                                              *)
MCNoise == {<<0, 2, 0, 1>>, <<0>>, <<0, 0>>, <<2, 2, 0, 1, 0, 1>>, <<0, 1, 1>>}
=============================================================================
