------------------------------ MODULE EsimLines -----------------------------
(***************************************************************************)
(* What the order lines of the three providers have in common: the columns *)
(* of sims every provider's handlers write, and the two order runs that    *)
(* may have a line in hand, the one of the confirmed payment and the one   *)
(* of the recovery cron.                                                   *)
(***************************************************************************)
EXTENDS Naturals

CONSTANTS
    Sims,       \* rows of sims
    Esims,      \* the eSIMs a provider may issue
    NoEsim,
    Calls,      \* callbacks of the provider being handled at the same time
    MaxCrashes  \* bound: restarts of the process in a behaviour

ASSUME LineConstants ==
    /\ NoEsim \notin Esims /\ MaxCrashes \in Nat
    /\ Calls \cap {"paid", "recovery"} = {}

VARIABLES
    status,     \* sims.status
    esim,       \* sims.iccid or cid, and qrcode
    asked,      \* history: requests for an eSIM sent to the provider
    shown,      \* history: eSIMs shown to the customer
    crashes

Runner == {"paid", "recovery"}
EsimOrNone == Esims \cup {NoEsim}
Final == {"COMPLETED", "FAILED"}

-----------------------------------------------------------------------------
(* Properties *)

\* However many runs, restarts and lost answers, the provider is asked for a
\* line at most once: it may already have charged for it.
\* (create-sim.service.ts:290-303, mobiline-activation.service.ts:51-68)
AskedOnce == \A s \in Sims : asked[s] <= 1

\* The eSIM the customer has been shown is stored with the line, and stays
\* whatever answer, failure or second callback comes afterwards.
\* (order.service.ts:1269-1300, :1388-1425, mobiline-activation.service.ts:131-155)
ShownIsStored == \A s \in Sims : shown[s] \subseteq {esim[s]} \ {NoEsim}
=============================================================================
