----------------------------- MODULE MCObservedPlay -----------------------------
(***************************************************************************)
(* ObservedPlay for TLC.  Two logs: a confident one that mentions a card   *)
(* the catalogue lacks, in a critical role, and one it has several of; and *)
(* one the parser is not confident of, whose only card, not a critical     *)
(* one, is unknown too.  The configurations are the default and those that *)
(* open one gate each or all of them.                                      *)
(***************************************************************************)
EXTENDS ObservedPlay

CONSTANTS clear, vague, critical, minor, common, r1, r2

MCContent    == {clear, vague}
MCName       == {critical, minor, common}
MCNamed      == (clear :> {critical, common}) @@ (vague :> {minor})
MCCritical   == {critical, common}
MCListed     == [n \in MCName |-> IF n = common THEN "ambiguous" ELSE "unresolved"]
MCConfidence == (clear :> 1) @@ (vague :> 0)

Settings(allow, force, maxUnresolved, minConfidence) ==
    [allow |-> allow, force |-> force, maxUnresolved |-> maxUnresolved,
     minConfidence |-> minConfidence]

MCDefault == Settings(FALSE, FALSE, 0, 1)

MCConfig  == {MCDefault,
              Settings(FALSE, TRUE, 0, 1),    \* force alone changes nothing
              Settings(TRUE, FALSE, 0, 1),    \* unresolved cards allowed
              Settings(TRUE, TRUE, 0, 1),     \* forced
              Settings(FALSE, FALSE, 1, 0)}   \* one unresolved card, any confidence

\* The sessions are alike.
Sessions == Permutations(Request)
=============================================================================
