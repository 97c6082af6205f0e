------------------------------ MODULE MCConsent ------------------------------
(***************************************************************************)
(* Small instances of Consent and of its refinement of ConsentPromise.     *)
(***************************************************************************)
EXTENDS ConsentKept

\* The policy asks approval at the first place of a page and nowhere else.
AwayFromHome == Actions \X (Places \ {Home})

\* The policy asks approval for everything but passive actions.
PassiveOnly == Passive \X Places
=============================================================================
