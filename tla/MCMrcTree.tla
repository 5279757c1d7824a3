----------------------------- MODULE MCMrcTree -----------------------------
(* Two bytes and a window of two: fingerprints of three of the windows.    *)
EXTENDS MrcTree

Of(r01, r10, r11) == [w \in Windows |-> CASE w = <<0, 0>> -> 0 [] w = <<0, 1>> -> r01
                                          [] w = <<1, 0>> -> r10 [] OTHER -> r11]
Fingers == {Of(2, 3, 1)}
=============================================================================
