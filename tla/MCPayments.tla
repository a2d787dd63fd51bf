----------------------------- MODULE MCPayments -----------------------------
(***************************************************************************)
(* A small instance of Payments: one configured chain with two tokens, one *)
(* chain that is not configured, one allowed executor.                     *)
(***************************************************************************)
EXTENDS Payments

CONSTANTS here, elsewhere, usdc, weth, alice, mallory, multipay, r1, r2, r3

Ask(chain, token, executor, signer, ctrct) ==
    [chain |-> chain, token |-> token, executor |-> executor,
     signer |-> signer, ctrct |-> ctrct]

MCPayment ==
    {Ask(here, usdc, alice, alice, multipay),
     Ask(here, weth, alice, alice, multipay),
     Ask(here, usdc, alice, mallory, multipay),
     Ask(here, usdc, mallory, mallory, multipay),
     Ask(here, usdc, alice, alice, mallory),
     Ask(elsewhere, usdc, alice, alice, None)}

MCMultiPay == [c \in Chain |-> IF c = here THEN multipay ELSE None]
MCExecutors == [c \in Chain |-> IF c = here THEN {alice} ELSE {}]
=============================================================================
