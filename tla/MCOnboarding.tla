---------------------------- MODULE MCOnboarding ----------------------------
(***************************************************************************)
(* An instance of Onboarding for TLC: one profile, a description two       *)
(* handlers may analyse differently, two term fields and a setting.        *)
(***************************************************************************)
EXTENDS Onboarding, TLC

CONSTANTS p1, h1, h2, roles, skills, first, second

MCSymmetry == Permutations(Handlers) \cup Permutations(TermFields) \cup Permutations(Answers)
=============================================================================
