---------------------------- MODULE MCConnection ----------------------------
(* Instances of Connection for TLC.                                        *)
EXTENDS Connection

\* Two TLS ports and a plain one.
ThreePorts == <<TRUE, TRUE, FALSE>>
=============================================================================
