------------------------ MODULE MCVerificationStatement ------------------------
(***************************************************************************)
(* Two lies in any places of the papers, windows on a clock of nine        *)
(* instants.                                                               *)
(***************************************************************************)
EXTENDS VerificationStatement

=============================================================================
