----------------------------- MODULE MCProvisioning -----------------------------
(***************************************************************************)
(* One or two OCI images and the cloud image, one or two versions of       *)
(* fc-runner.                                                              *)
(***************************************************************************)
EXTENDS Provisioning
================================================================================
