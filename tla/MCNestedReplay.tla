--------------------------- MODULE MCNestedReplay ---------------------------
(* Programs whose recovery NestedReplay is checked with.                   *)
EXTENDS NestedReplay, TLC

CONSTANTS A, B, C, w1, w2, w3

(* A calls B, B calls C, and one method calls A, B and C in turn.          *)
Chains == w1 :> <<A, B, Ret, Ret>> @@ w2 :> <<B, C, Ret, Ret, C, Ret>>
              @@ w3 :> <<A, B, C, Ret, Ret, Ret>>

(* A method of A calls B and then C; another uses C alone.                 *)
TwoCalls == w1 :> <<A, B, Ret, C, Ret, Ret>> @@ w2 :> <<C, Ret>> @@ w3 :> <<>>

(* Two methods of A call B, and one of B calls A.                          *)
Crossing == w1 :> <<A, B, Ret, Ret>> @@ w2 :> <<A, B, Ret, Ret>>
                @@ w3 :> <<B, A, Ret, Ret>>

(* A and B call C, each in its second transaction.                         *)
TwoCallers == w1 :> <<A, C, Ret, Ret, A, C, Ret, Ret>> @@ w2 :> <<B, Ret, B, C, Ret, Ret>>
                  @@ w3 :> <<>>

(* A method of A calls B, which calls A again.                             *)
Inside == w1 :> <<A, B, A, Ret, Ret, Ret>> @@ w2 :> <<B, A, Ret, Ret>> @@ w3 :> <<>>

MCPrograms == {Chains, TwoCalls, Crossing, TwoCallers, Inside}
=============================================================================
