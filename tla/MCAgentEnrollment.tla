-------------------------- MODULE MCAgentEnrollment --------------------------
(* A small instance of AgentEnrollment: a host replaces another.             *)
EXTENDS AgentEnrollment
==============================================================================
