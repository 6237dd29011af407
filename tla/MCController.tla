---------------------------- MODULE MCController ----------------------------
(* Controller on a few threads.                                              *)
EXTENDS Controller

AllOfEnv == EnvKinds
=============================================================================
