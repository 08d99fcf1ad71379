----------------------------- MODULE MCUartLine -----------------------------
(* An instance of UartLine: 0xAA and 0x01, one after the other or alone. *)
EXTENDS UartLine

xAA == <<0, 1, 0, 1, 0, 1, 0, 1>>
x01 == <<1, 0, 0, 0, 0, 0, 0, 0>>
MessagesRun == {<<>>, <<xAA>>, <<x01, xAA>>}
=============================================================================
