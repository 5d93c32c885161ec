------------------------- MODULE MCBatchedBusiness -------------------------
(***************************************************************************)
(* BatchedBusiness for TLC: the setups the runs choose from.               *)
(***************************************************************************)
EXTENDS BatchedBusiness

Setup(size, timed, policy, throws) ==
    [maxSize |-> size, timed |-> timed, policy |-> policy, completeThrows |-> throws]

\* Each policy with the size trigger and the timer, a throwing hook under the
\* policy that tolerates it and under the one that does not, and a batcher
\* that has the timer only.
AllSetups == { Setup(2, TRUE, "retain", FALSE),
               Setup(2, TRUE, "lose", FALSE),
               Setup(2, TRUE, "lose", TRUE),
               Setup(0, TRUE, "retain", FALSE),
               Setup(2, TRUE, "reintroduce", FALSE) }

HookThrows == { Setup(2, FALSE, "retain", TRUE) }

Plain == { Setup(2, TRUE, "lose", FALSE) }
=============================================================================
