-------------------------- MODULE MCContainerLifecycle --------------------------
(***************************************************************************)
(* ContainerLifecycle for TLC: its creation and two more requests, two intents  *)
(* at a time, and one thing that goes wrong at any point.                        *)
(***************************************************************************)
EXTENDS ContainerLifecycle
================================================================================
