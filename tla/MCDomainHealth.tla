--------------------------- MODULE MCDomainHealth ---------------------------
(* Instances of DomainHealth for TLC: a source with a primary domain alone,  *)
(* or with one alternate.                                                    *)
EXTENDS DomainHealth

CONSTANTS mx, io

MCDomains == {mx, io}
MCOrder == <<mx, io>>

MCAlone == {mx}
MCAloneOrder == <<mx>>
=============================================================================
