------------------------------ MODULE MCCerts ------------------------------
(***************************************************************************)
(* Two things the daemon keeps in step with what lies outside it: the      *)
(* certificates of the lanes with the files somebody replaces (Certs), and *)
(* the settings of a postgres with its container and its server            *)
(* (Settings).  They share no variable: each behaviour moves one of them   *)
(* (focus), so that the run visits the sum of their states and not the     *)
(* product.                                                                *)
(*                                                                         *)
(* One hostname, the default of the lanes; another one would only have a   *)
(* cache entry of its own over the same steps.                             *)
(***************************************************************************)
EXTENDS Certs, Settings

CONSTANTS api, n1, n2, c1, c2, p1, p2

VARIABLE focus

outsideVars == <<focus, vars, settingsVars>>

\* No certificate is there where none moves.
OutsideInit ==
    /\ focus \in {"certificates", "settings"}
    /\ Init /\ SettingsInit
    /\ kept.name = n1 /\ kept.url.password = p1
    /\ focus = "settings" => supplied

OutsideNext ==
    /\ UNCHANGED focus
    /\ \/ focus = "certificates" /\ Next /\ UNCHANGED settingsVars
       \/ focus = "settings" /\ SettingsNext /\ UNCHANGED vars

\* Certs's Fairness, where the certificates move.
Certificates(A) == focus = "certificates" /\ A

OutsideFairness ==
    /\ WF_vars(Certificates(Looking)) /\ WF_vars(Certificates(OpenLanes)) /\ WF_vars(Certificates(Sync))
    /\ SF_vars(Certificates(Beat)) /\ \A w \in Looks : SF_vars(Certificates(Issued(w)))

OutsideSpec == OutsideInit /\ [][OutsideNext]_outsideVars /\ OutsideFairness
=============================================================================
