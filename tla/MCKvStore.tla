----------------------------- MODULE MCKvStore -----------------------------
(***************************************************************************)
(* KvStore for TLC: a device with one mirror, and a resolve and a request  *)
(* that compete for its pages.                                             *)
(***************************************************************************)
EXTENDS KvStore

CONSTANTS gpu0, gpu1

MCDevices == <<gpu0, gpu1>>
=============================================================================
