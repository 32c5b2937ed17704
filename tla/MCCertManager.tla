--------------------------- MODULE MCCertManager ---------------------------
(***************************************************************************)
(* CertManager for TLC: the domain of the config may change between two    *)
(* processes, and a CA dates a certificate now, most of a lifetime ago, or *)
(* so long ago that it has expired when it comes.                          *)
(***************************************************************************)
EXTENDS CertManager

CONSTANTS d1, d2

OneDomain == {d1}

TwoDomains == {d1, d2}

AnyDate == {0, Lifetime - 1, Lifetime + 1}
=============================================================================
