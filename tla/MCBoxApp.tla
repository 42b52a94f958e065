------------------------------ MODULE MCBoxApp ------------------------------
(* Values for the constants of BoxApp that a configuration cannot write.   *)
EXTENDS BoxAppProps

Works  == {TRUE}
Shut   == {FALSE}
Either == {TRUE, FALSE}
=============================================================================
